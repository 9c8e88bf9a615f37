SPECIFICATION Spec
CONSTANTS
    Buckets <- MCBuckets
    Deviations <- MCDeviations
    NoRow = NoRow
    ColumnUnit = 1
    ColumnLimit = 100
    Interval = 2
    MaxDataPoints = 2
    Overrides <- MCOverrides
    Times <- MCTimes
    NotGiven = NotGiven
    Width = 6
    BufferRows = 2
    MaxInserts = 1
INVARIANT SuccessIsWritten
CHECK_DEADLOCK FALSE
