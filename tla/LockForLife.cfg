SPECIFICATION Spec
CONSTANTS
    ARCHIVES = 2
    PerFile = 1
    MaxProcs = 3
    Bounds <- MCBounds
INVARIANT
    LockForLife
CHECK_DEADLOCK FALSE
