SPECIFICATION Spec
CONSTANTS
    Workers = {w1, w2}
    NoWorker = NoWorker
    t1 = t1
    t2 = t2
    m1 = m1
    m2 = m2
    m3 = m3
    m4 = m4
    Tasks = {t1, t2}
    Messages = {m1, m2}
    NoMessage = NoMessage
    Malformed = Malformed
    Unknown = Unknown
    Payload <- TwoPayload
    RowKind <- OneUnregistered
    InitialStage <- BothStages
    BatchSize = 2
    MaxAttempts = 2
    Disturbances = {"expire", "signal"}
    MaxDisturbances = 3
CHECK_DEADLOCK FALSE
INVARIANTS TypeOK MutualExclusion CallsBounded VerdictMatchesOutcome AckedIsSettled NoLeaseLeftBehind
PROPERTIES EventuallySettled SignalEndsProcess
