SPECIFICATION Spec
CONSTANTS
    Paths = {p, q}
    Shared = {p}
    Clients <- Both
    MaxWrites = 2
    MaxCalls = 2
    MaxCommits = 2
    MaxResets = 1
    MaxPushFailures = 1
    MaxFetchFailures = 2
INVARIANTS
    
    WritesStay
    DeployedIsCommitted

    
CHECK_DEADLOCK FALSE
