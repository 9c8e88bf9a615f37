SPECIFICATION Spec
CONSTANTS
    Buckets <- MCBuckets
    Deviations <- MCDeviations
    NoRow = NoRow
    ColumnUnit = 1
    ColumnLimit = 100
    Interval = 2
    MaxDataPoints = 2
    Overrides <- MCOverrides
    Times <- MCTimes
    NotGiven = NotGiven
    Width = 6
    BufferRows = 2
    MaxInserts = 1
INVARIANT TypeOK
INVARIANT ExportSpansWindow
INVARIANT ExportIsEven
INVARIANT DefaultWindowIsWhole
INVARIANT CSVIsPrefix
INVARIANT OldFilesKept
CHECK_DEADLOCK FALSE
