SPECIFICATION Spec
CONSTANTS
    Turns = {t1, t2}
    MaxPhases = 2
    Recharge = 1
    Messages <- All
    DuringGeneration = TRUE
    MaxRequests = 2
    MaxFailures = 1
    MaxCrashes = 1
SYMMETRY TurnSymmetry
INVARIANTS
    OnlyLastIncomplete
    BudgetKept
CHECK_DEADLOCK FALSE
