SPECIFICATION MCSpec
CONSTANTS
    Plans <- MCPlans
    DefaultPlan = "free"
    MonthlyCredits <- MCMonthlyCredits
    RolloverMonths <- MCRolloverMonths
    Sessions = {s1, s2}
    Tasks <- RaceTasks
    MaxTasks = 2
    MaxMonth = 1
    MaxFailures = 1
    NoRow = NoRow
    First = s1
INVARIANTS
    TypeOK
    BoughtCreditsBacked
    RefundWithinCharge
PROPERTIES
    BoughtSpentLastAlone
    PlanSwitchMintsNothingAlone
    ChangesLoggedAlone
CHECK_DEADLOCK FALSE
