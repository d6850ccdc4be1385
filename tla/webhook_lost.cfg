SPECIFICATION Spec
CONSTANTS
    Deliveries = {d1}
    PaidPlan = "pro"
    DefaultPlan = "free"
    Requests = {r1}
    MaxCustomers = 1
    InOrder = FALSE
    Overlap = FALSE
    MaxEvents = 1
    MaxFailures = 1
INVARIANTS
    AnsweredPaymentCredited
CHECK_DEADLOCK FALSE
