SPECIFICATION Spec
CONSTANTS
    Procs = {p1, p2}
    Locking = {p1, p2}
    Storing = {p1, p2}
    Auditing = {p1, p2}
    Alerting = {p1, p2}
    Conns = {c1, c2}
    NoConn = NoConn
    Free = Free
    Orphan = Orphan
    NoRow = NoRow
    NoBucket = NoBucket
    Buckets <- MCBuckets
    Deviations <- MCDeviations
    Shares <- MCShares
    ReplicaLag = 0
    ColumnUnit = 8
    ColumnLimit = 16
    BuyAtoms <- MCAmountsBothWays
    Threshold = 9
    LastBucket = 1
    HostSkew = 1
    ClockSteps = {}
    MaxIncidents = 1
    MaxHead = 0
    MaxLockFaults = 0
    MaxSessionLosses = 1
SYMMETRY MCSymmetry
INVARIANT TypeOK
INVARIANT ExecutionExclusive
INVARIANT ConnReturned
INVARIANT NotificationIsOnRecord
PROPERTY NoStaleOverwrite
PROPERTY LockProtocol
CHECK_DEADLOCK FALSE
