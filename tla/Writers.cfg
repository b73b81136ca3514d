SPECIFICATION MCSpec
CONSTANTS
    Uid = {u1, u2}
    Callback = {c1, c2, c3}
    None = None
    MaxQueued = 2
    Changers = {d1, d2}
    Flushers = {f1, f2}
    Nobody = Nobody
    MaxChanges = 2
    MaxFlushes = 2
    MaxFails = 1
INVARIANTS NewestKept WritersFlush
PROPERTIES NeverBackwards ChangesAreSaved
