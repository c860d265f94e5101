SPECIFICATION Spec
CONSTANTS
    Capacity = 2
    MaxBatch = 2
    MaxRetries = 2
    StopBudget = TRUE
    MaxEvents = 3
    MaxTicks = 2
    MaxFaults = 1
INVARIANTS
    TypeOK
    AcknowledgedIsStored
    NoEventUnaccounted
    OrderKept
    OneBatchPerSequence
    StopReportsLoss
PROPERTIES
    EventsLeave
    HeartbeatSent
    StopEnds
    ImplementsAtLeastOnce
