SPECIFICATION FairSpec
CONSTANTS
    Procs = {p1}
    Locking = {p1}
    Storing = {p1}
    Auditing = {p1}
    Alerting = {p1}
    Conns = {c1}
    NoConn = NoConn
    Free = Free
    Orphan = Orphan
    NoRow = NoRow
    NoBucket = NoBucket
    Buckets <- MCBuckets
    Deviations <- MCDeviations
    Shares <- MCShares
    ReplicaLag = 0
    ColumnUnit = 8
    ColumnLimit = 16
    BuyAtoms <- MCAmounts
    Threshold = 9
    LastBucket = 1
    HostSkew = 0
    ClockSteps = {}
    MaxIncidents = 0
    MaxHead = 0
    MaxLockFaults = 0
    MaxSessionLosses = 0
PROPERTY TickCompletes
CHECK_DEADLOCK FALSE
