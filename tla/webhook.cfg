SPECIFICATION MCSpec
CONSTANTS
    Deliveries = {d1, d2}
    First = d1
    Shopper = r1
    PaidPlan = "pro"
    DefaultPlan = "free"
    Requests = {r1, r2}
    MaxCustomers = 2
    InOrder = FALSE
    Overlap = FALSE
    MaxEvents = 5
    MaxRetried = 3
    MaxFailures = 2
INVARIANTS
    CreditedAtMostOnce
    OrderlyPlanFollows
PROPERTIES
    EveryEventAnswered
    OrderlyPaymentsCredited
CHECK_DEADLOCK FALSE
