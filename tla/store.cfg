SPECIFICATION Spec
CONSTANTS
    Workers = {w1}
    Codes = {c1}
    LastDay = 3
    MaxRetries = 1
    Exclusive = TRUE
    Disturbances = {"auth", "retriable", "other", "crash"}
    MaxTasks = 3
INVARIANTS NoRowLost NamesTellTheTruth MergedIntoOne
CHECK_DEADLOCK FALSE
