-------------------------------- MODULE Storage --------------------------------
(***************************************************************************)
(* The two tables of internal/storage (schema in db/migrations) and the    *)
(* statements that change them.  A sample row is abstracted to the         *)
(* deviation and the block number it stores.  The columns for percentages  *)
(* are NUMERIC(12, 8): a value is rounded to the column's scale, and one   *)
(* beyond its range makes the statement fail.  Each statement runs in a    *)
(* transaction of its own.                                                 *)
(***************************************************************************)
EXTENDS Integers

CONSTANTS
    Buckets,           \* bucket times
    Deviations,        \* deviations a pair of rates can have, as integers
    ColumnUnit,        \* one unit in a percentage column's last place
    ColumnLimit,       \* what a percentage column cannot hold any more
    NoRow              \* the table has no row for the bucket

ASSUME BucketsAssumption == Buckets \subseteq Int
ASSUME DeviationsAssumption ==
    /\ Deviations \subseteq Int
    /\ NoRow \notin Deviations
ASSUME ColumnAssumption ==
    /\ ColumnUnit \in Nat \ {0}
    /\ ColumnLimit \in Nat \ {0}

VARIABLES
    samples,           \* rate_samples, by its primary key bucket_ts
    alerts             \* alerts, by its unique key sample_ts

tables == <<samples, alerts>>

\* classifyDeviation
Direction(d) == IF d > 0 THEN "up" ELSE IF d < 0 THEN "down" ELSE "flat"

\* decimal.Abs
Magnitude(d) == IF d < 0 THEN -d ELSE d

\* NUMERIC rounds to the nearest unit, and half-way values away from zero.
Units(n) == (2 * n + ColumnUnit) \div (2 * ColumnUnit)
Rounded(d) == ColumnUnit * IF d < 0 THEN -Units(-d) ELSE Units(d)
Fits(d) == Magnitude(Rounded(d)) < ColumnLimit

\* A block number of zero stands for NULL.
SampleRow(d, block) == [deviation |-> Rounded(d), block |-> block]
SampleRows == [deviation : Int, block : Nat]
\* No row is taken for a row.
ASSUME RowsAssumption == NoRow \notin SampleRows

\* A variant of a table whose column for the threshold has no scale.
AlertRowExact(d, threshold) ==
    [deviation |-> Rounded(d), threshold |-> threshold, direction |-> Direction(d)]

AlertRow(d, threshold) ==
    [deviation |-> Rounded(d), threshold |-> Rounded(threshold),
     direction |-> Direction(d)]
AlertRows == [deviation : Int, threshold : Int, direction : {"up", "down", "flat"}]

TablesInit ==
    /\ samples = [b \in Buckets |-> NoRow]
    /\ alerts = [b \in Buckets |-> NoRow]

\* A variant that keeps the row that is there (ON CONFLICT DO NOTHING).
InsertRateSample(b, d, block) ==
    /\ Fits(d)
    /\ samples' = IF samples[b] = NoRow
                  THEN [samples EXCEPT ![b] = SampleRow(d, block)] ELSE samples
    /\ UNCHANGED alerts

\* Store.UpsertRateSample: every column but created_at is replaced.
UpsertRateSample(b, d, block) ==
    /\ Fits(d)
    /\ samples' = [samples EXCEPT ![b] = SampleRow(d, block)]
    /\ UNCHANGED alerts

\* The foreign key alerts.sample_ts REFERENCES rate_samples(bucket_ts).
SampleExists(b) == samples[b] # NoRow

\* Store.InsertAlert, ON CONFLICT (sample_ts) DO UPDATE.
InsertAlert(b, d, threshold) ==
    /\ SampleExists(b)
    /\ Fits(d) /\ Fits(threshold)
    /\ alerts' = [alerts EXCEPT ![b] = AlertRow(d, threshold)]
    /\ UNCHANGED samples

\* Type invariant of the tables.
TablesTypeOK ==
    /\ samples \in [Buckets -> SampleRows \cup {NoRow}]
    /\ alerts \in [Buckets -> AlertRows \cup {NoRow}]
===============================================================================
