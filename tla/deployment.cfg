SPECIFICATION Spec
CONSTANTS
    Users = {u1, u2}
    Probes = {p}
    Loops = 2
    Ops = 3
    ResetEvery = 2
    MaxSessions = 5
    MaxAsks = 2
    MaxFaults = 2
INVARIANTS
    OneDeployment
    Watched
PROPERTIES
    PreviewIsInstance
    UnhealthyReplaced
CHECK_DEADLOCK FALSE
