SPECIFICATION Spec
CONSTANTS
    Procs = {s}
    Simulator = s
    Locking = {}
    Storing = {}
    Auditing = {}
    Alerting = {s}
    Conns = {c1, c2}
    NoConn = NoConn
    Free = Free
    Orphan = Orphan
    NoRow = NoRow
    NoBucket = NoBucket
    Buckets = {0}
    Deviations <- MCDeviations
    Shares <- MCShares
    ReplicaLag = 0
    ColumnUnit = 8
    ColumnLimit = 16
    BuyAtoms <- MCAmounts
    Threshold = 9
    MaxLockFaults = 0
    MaxSessionLosses = 0
INVARIANT SimulationReachesNotifier
CHECK_DEADLOCK FALSE
