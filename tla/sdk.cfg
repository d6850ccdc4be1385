SPECIFICATION Spec
CONSTANTS
    MaxConns = 2
    MaxRetries = 2
    MaxPending = 2
    Listens = FALSE
    MaxSaid = 3
    MaxFailures = 3
INVARIANTS
    OneSocket
    HelloFirst
    InOrderOnce
PROPERTIES
    QueuedSent
CHECK_DEADLOCK FALSE
