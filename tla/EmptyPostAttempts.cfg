SPECIFICATION Spec
CONSTANTS
    Capacity = 2
    MaxBatch = 1
    MaxRetries = 2
    StopBudget = FALSE
    MaxEvents = 3
    MaxTicks = 1
    MaxFaults = 1
INVARIANT
    EmptyPostAttempts
