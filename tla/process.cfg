SPECIFICATION Spec
CONSTANTS
    Conns = {c1, c2, c3, c4, c5, c6}
    NoConn = NoConn
    PoolSize = 3
    MaxRetries = 2
    Disturbances = {"setup", "assembly", "retriable", "other", "signal", "expiry", "key", "close"}
INVARIANTS TypeOK NoneShared SinkStaysUsable ConnectionsBounded
PROPERTIES RepetitionIsRenewed TeardownClosesAll SignalEndsProcess
