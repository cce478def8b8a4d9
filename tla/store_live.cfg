SPECIFICATION Spec
CONSTANTS
    Workers = {w1, w2}
    Codes = {c1}
    LastDay = 1
    MaxRetries = 1
    Exclusive = FALSE
    Disturbances = {"auth", "retriable", "other", "crash"}
    MaxTasks = 2
INVARIANT TypeOK
PROPERTY EveryTaskEnds
CHECK_DEADLOCK FALSE
