SPECIFICATION Spec
CONSTANTS
    Workers = {w1, w2}
    Results = {r1, r2}
    Parms = {p1}
    None = None
    PoolSize = 2
    Batch = 2
    LastSecond = 1
SYMMETRY Alike
INVARIANTS SavedIsKept OnlyCrossingsLoseEntries BatchIsWhole
CHECK_DEADLOCK FALSE
