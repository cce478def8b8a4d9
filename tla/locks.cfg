SPECIFICATION Spec
CONSTANTS
    Threads = {t1, t2}
    Paths = {p1, p2}
    Timeout = 4
    Patience = 2
    LastMoment = 7
INVARIANTS TypeOK MutualExclusion UsedLocksAreKept
