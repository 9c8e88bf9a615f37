SPECIFICATION FairSpec
CONSTANTS
    Procs = {p1}
    Locking = {p1}
    Storing = {p1}
    Auditing = {p1}
    Alerting = {p1}
    Conns = {c1, c2}
    NoConn = NoConn
    Free = Free
    Orphan = Orphan
    NoRow = NoRow
    NoBucket = NoBucket
    Buckets <- MCBuckets
    Deviations <- MCDeviations
    Shares <- MCShares
    ReplicaLag = 1
    ColumnUnit = 8
    ColumnLimit = 16
    BuyAtoms <- MCAmounts
    Threshold = 9
    LastBucket = 2
    HostSkew = 1
    ClockSteps <- MCStepsBothWays
    MaxIncidents = 1
    MaxHead = 2
    MaxLockFaults = 0
    MaxSessionLosses = 0
CHECK_DEADLOCK FALSE
INVARIANT AlertRowsShowBreach
INVARIANT SampleNamesItsBlock
INVARIANT NotifiedOncePerHost
PROPERTY AlertConfirmed
PROPERTY TickCompletes
PROPERTY SignalStops
