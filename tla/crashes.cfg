SPECIFICATION Spec
CONSTANTS
    Workers = {w1, w2}
    NoWorker = NoWorker
    t1 = t1
    t2 = t2
    m1 = m1
    m2 = m2
    m3 = m3
    m4 = m4
    Tasks = {t1, t2}
    Messages = {m1, m2, m3, m4}
    NoMessage = NoMessage
    Malformed = Malformed
    Unknown = Unknown
    Payload <- OddPayload
    RowKind <- OneUnparsable
    InitialStage <- BothStages
    BatchSize = 2
    MaxAttempts = 2
    Disturbances = {"crash", "ack", "expire"}
    MaxDisturbances = 1
CHECK_DEADLOCK FALSE
PROPERTIES KeepsPromise
