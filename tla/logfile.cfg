SPECIFICATION LogSpec
CONSTANTS
    Lines = {a, b}
    Monitors = {m}
    Resets = {r}
    Looks = {v}
    Cleanups = {k}
    None = None
    MaxLines = 1
    Keep = 1
    MaxRetries = 2
    MaxCalls = 2
    MaxTrims = 1
    MaxAges = 1
    MaxCrashes = 1
INVARIANTS
    OneReader
    
    HandedOutOnce
CHECK_DEADLOCK FALSE
