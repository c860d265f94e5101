SPECIFICATION FairSpec
CONSTANTS
    Pids = {10}
    MaxTime = 4
    Bounds <- MCBounds
INVARIANTS
    CreationTimesTrue
    MissesExplained
PROPERTIES
    StaleEntriesGo
    LogonsFollowed
CHECK_DEADLOCK FALSE
