SPECIFICATION Spec
CONSTANTS
    a = a
    b = b
    Paths = {a, b}
    Batches <- MCBatches
    Repeats = FALSE
INVARIANTS
    PlanIsSound
    
PROPERTIES
    FollowsSchedule
CHECK_DEADLOCK FALSE
