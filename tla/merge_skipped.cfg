SPECIFICATION Spec
CONSTANTS
    Workers = {w1}
    Codes = {c1}
    LastDay = 2
    MaxRetries = 2
    Exclusive = TRUE
    Disturbances = {"other"}
    MaxTasks = 2
INVARIANT SkippedMergeKeepsRows
CHECK_DEADLOCK FALSE
