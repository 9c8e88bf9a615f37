SPECIFICATION FairSpec
CONSTANTS
    Procs = {p1, p2}
    Conns = {c1, c2}
    NoConn = NoConn
    Free = Free
    Orphan = Orphan
    MaxLockFaults = 2
    MaxSessionLosses = 1
INVARIANT TypeOK
INVARIANT MutualExclusion
INVARIANT DepthAccounted
PROPERTY LockEventuallyFree
