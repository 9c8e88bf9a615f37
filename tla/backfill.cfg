SPECIFICATION BackfillSpec
CONSTANTS
    Procs = {p1, f}
    Locking = {p1, f}
    Storing = {p1, f}
    Auditing = {}
    Alerting = {}
    Backfiller = f
    Conns = {c1, c2}
    NoConn = NoConn
    Free = Free
    Orphan = Orphan
    NoRow = NoRow
    NoBucket = NoBucket
    Buckets <- MCBuckets
    Deviations <- MCDeviations
    Shares <- MCShares
    ReplicaLag = 0
    ColumnUnit = 8
    ColumnLimit = 16
    BuyAtoms <- MCAmounts
    Threshold = 9
    LastBucket = 1
    HostSkew = 0
    ClockSteps = {}
    MaxIncidents = 1
    MaxHead = 0
    MaxLockFaults = 0
    MaxSessionLosses = 0
    Interval = 2
INVARIANT BackfillTypeOK
INVARIANT PeriodCovered
INVARIANT SuccessIsStored
PROPERTY NoStaleOverwrite
PROPERTY BackfillTerminates
CHECK_DEADLOCK FALSE
