SPECIFICATION UpkeepSpec
CONSTANTS
    Workers = {w1}
    Codes = {c1}
    LastDay = 2
    MaxRetries = 0
    Exclusive = FALSE
    Disturbances = {"crash"}
    MaxTasks = 2
    Suffixes = {clean}
    MaxPasses = 2
INVARIANTS OnlyOverlapsLoseRows OnlyOverlapsMislead
CHECK_DEADLOCK FALSE
