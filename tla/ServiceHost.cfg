SPECIFICATION FairSpec
CONSTANTS
    ARCHIVES = 2
    PerFile = 1
    MaxProcs = 3
    Bounds <- MCBounds
INVARIANTS
    StopIsComplete
    LogKept
PROPERTIES
    SessionKept
    StopReported
CHECK_DEADLOCK FALSE
