SPECIFICATION Spec
CONSTANTS
    AutoRestart = TRUE
    MaxRestarts = 2
    MaxSpawns = 4
    MaxErrors = 1
INVARIANTS
    OneChild
    RestartsBounded
    StoppedIsDead
PROPERTIES
    ShutdownEnds
    RestartAttempted
CHECK_DEADLOCK FALSE
