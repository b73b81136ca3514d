\* Three goroutines on two uids; three goroutines reach at most three locks.
\* A game or a service may end for good, a session may stop.
CHECK_DEADLOCK FALSE
SPECIFICATION MCSpec
CONSTANTS
    Proc = {p1, p2, p3}
    Uid = {u1, u2}
    Lock = {l1, l2, l3}
    None = None
    Socket = {k1}
    Loader = {d1, d2}
    Samples = 2
INVARIANTS
    MutualExclusion
    NoLeakedEntry
PROPERTIES
    WaiterIsServed
    LinksSettle
    TableIsQuoted
    PatchesConverge
    StaleIsReplaced
