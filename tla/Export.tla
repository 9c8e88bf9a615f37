--------------------------------- MODULE Export ---------------------------------
(***************************************************************************)
(* `usdewatcher export` (internal/app/export.go): choose a window of       *)
(* time, read its samples in one statement, thin them out to the number of *)
(* points asked for, and write them to a CSV file and a PNG chart.         *)
(* Watchers go on storing samples meanwhile.                               *)
(*                                                                         *)
(* A row of the result is its bucket.  The CSV writer keeps rows in a      *)
(* buffer and writes the buffer out when it is full; every write to the    *)
(* disk may fail, having written a part.                                   *)
(***************************************************************************)
EXTENDS Storage, Listing, SequencesExt

CONSTANTS
    Interval,          \* scheduler.interval, in units of time
    MaxDataPoints,     \* export.max_data_points
    Overrides,         \* values of --max-points; 0: not given
    Times,             \* values of --from and --to
    NotGiven,          \* the flag was not given
    Width,             \* bits of a time.Duration
    BufferRows,        \* rows that fill the CSV writer's buffer
    MaxInserts         \* bound: samples stored during the export

\* Config.Validate rejects what is not positive.
ASSUME ConfigAssumption ==
    /\ Interval \in Nat \ {0}
    /\ MaxDataPoints \in Nat \ {0}
ASSUME FlagsAssumption ==
    /\ Overrides \subseteq Int
    /\ Times \subseteq Nat
    /\ NotGiven \notin Times
ASSUME WidthAssumption == Width \in Nat \ {0} /\ BufferRows \in Nat \ {0}
\* So it is for every width; the provers have no rule for exponents.
ASSUME PowerAssumption == 2 ^ (Width - 1) \in Nat \ {0}
ASSUME BoundAssumption == MaxInserts \in Nat

VARIABLES
    pc,                \* the step of Export that is next
    opts,              \* ExportOptions, once checked
    window,            \* the local variables from and to
    read,              \* the rows ListSamplesBetween returned
    rows,              \* the rows downsampleSamples left
    pending,           \* CSV: rows not written to the csv.Writer yet
    buffer,            \* CSV: rows in the csv.Writer's buffer
    csv,               \* rows in the CSV file
    csvTouched,        \* the file that was there before is gone
    png,               \* "old", "partial" or "complete"
    result,            \* what Export returned
    inserts            \* samples stored during the export

files == <<csv, csvTouched, png>>
csvWriter == <<pending, buffer>>
vars == <<tables, pc, opts, window, read, rows, csvWriter, files, result, inserts>>

-------------------------------------------------------------------------------
(* Choosing rows. *)

\* An int64 product.
Wrap(n) == LET half == 2 ^ (Width - 1) IN ((n + half) % (2 * half)) - half

\* Config.ResolveMaxPoints
ResolveMaxPoints(override) == IF override > 0 THEN override ELSE MaxDataPoints

ExportOptions == [csv : BOOLEAN, png : BOOLEAN, from : Times \cup {NotGiven},
                  to : Times \cup {NotGiven}, maxPoints : Overrides]

\* to defaults to now, from to as many intervals before to as points are
\* wanted.
Window(o, now) ==
    LET to == IF o.to = NotGiven THEN now ELSE o.to
    IN  [from |-> IF o.from = NotGiven
                  THEN to + Wrap(-(ResolveMaxPoints(o.maxPoints) * Interval))
                  ELSE o.from,
         to   |-> to]

\* A variant whose window is closed at both ends.
ListSamplesUpTo(w) ==
    Ascending({b \in Buckets : SampleExists(b) /\ w.from <= b /\ b <= w.to})

\* Store.ListSamplesBetween: one statement, ordered by bucket_ts.
ListSamplesBetween(w) ==
    Ascending({b \in Buckets : SampleExists(b) /\ w.from <= b /\ b < w.to})

\* The indices math.Round can yield for the i-th of max points of n rows: the
\* nearest one, or either neighbour where step * i lies half-way between them
\* and the float64 product may be a little less.
Nearest(i, max, n) ==
    {k \in 1 .. n : LET off == 2 * (i - 1) * (n - 1) - 2 * (k - 1) * (max - 1)
                    IN  -off <= max - 1 /\ off <= max - 1}

\* A variant that cuts the step down to a whole number of rows.
DownsampleByStride(s, max) ==
    {IF Len(s) <= max THEN s
     ELSE [i \in 1 .. max |-> s[1 + (i - 1) * (Len(s) \div max)]]}

\* A variant that keeps the first rows and the last one.
DownsampleToHead(s, max) ==
    {IF Len(s) <= max THEN s ELSE SubSeq(s, 1, max - 1) \o <<Last(s)>>}

\* downsampleSamples: the results it can have.  No result at all is a panic.
\* For a single point the step is infinite and the index is int(NaN): zero on
\* arm64; the least integer, and so out of range, on amd64.
Downsample(s, max) ==
    IF Len(s) <= max THEN {s}
    ELSE IF max = 1 THEN {<<s[1]>>}
    ELSE {[i \in 1 .. max |-> s[pick[i]]] :
            pick \in {f \in [1 .. max -> 1 .. Len(s)] :
                        \A i \in 1 .. max : f[i] \in Nearest(i, max, Len(s))}}

MayPanic(s, max) == max = 1 /\ Len(s) > 1

-------------------------------------------------------------------------------
(* Export. *)

Init ==
    /\ samples \in [Buckets -> {SampleRow(d, 0) : d \in {e \in Deviations : Fits(e)}}
                                 \cup {NoRow}]
    /\ alerts = [b \in Buckets |-> NoRow]
    /\ pc = "start"
    /\ opts \in ExportOptions
    /\ window = [from |-> 0, to |-> 0]
    /\ read = <<>>
    /\ rows = <<>>
    /\ pending = <<>>
    /\ buffer = <<>>
    /\ csv = <<>>
    /\ csvTouched = FALSE
    /\ png = "old"
    /\ result = "none"
    /\ inserts = 0

\* Export returns.
Return(r) == pc' = "done" /\ result' = r

\* The call goes on.
Continue(label) == pc' = label /\ UNCHANGED result

\* No output file was named, no database is configured or it cannot be opened.
Reject ==
    /\ pc = "start"
    /\ Return("error")
    /\ UNCHANGED <<tables, opts, window, read, rows, csvWriter, files, inserts>>

\* The window is computed, and refused if it is empty.
ComputeWindow ==
    /\ pc = "start"
    /\ opts.csv \/ opts.png
    /\ \E now \in Times : window' = Window(opts, now)
    /\ IF window'.from < window'.to THEN Continue("query") ELSE Return("error")
    /\ UNCHANGED <<tables, opts, read, rows, csvWriter, files, inserts>>

\* The statement, or reading its rows, fails.
QueryFails ==
    /\ pc = "query"
    /\ Return("error")
    /\ UNCHANGED <<tables, opts, window, read, rows, csvWriter, files, inserts>>

\* A variant that goes on without rows.
EmptyUnchecked(s) == FALSE

Empty(s) == s = <<>>

\* The rows of the window are read; if there are none, that is all.
Query ==
    /\ pc = "query"
    /\ LET found == ListSamplesBetween(window)
       IN  /\ read' = found
           /\ IF Empty(found) THEN Return("ok") ELSE Continue("downsample")
    /\ UNCHANGED <<tables, opts, window, rows, csvWriter, files, inserts>>

\* downsampleSamples returns.
Thin ==
    /\ pc = "downsample"
    /\ rows' \in Downsample(read, ResolveMaxPoints(opts.maxPoints))
    /\ Continue(IF opts.csv THEN "create" ELSE "chart")
    /\ UNCHANGED <<tables, opts, window, read, csvWriter, files, inserts>>

\* downsampleSamples indexes out of range.
ThinPanics ==
    /\ pc = "downsample"
    /\ MayPanic(read, ResolveMaxPoints(opts.maxPoints))
    /\ Return("panic")
    /\ UNCHANGED <<tables, opts, window, read, rows, csvWriter, files, inserts>>

-------------------------------------------------------------------------------
(* writeSamplesCSV. *)

\* ensureDir or os.Create fails.
CreateFails ==
    /\ pc = "create"
    /\ Return("error")
    /\ UNCHANGED <<tables, opts, window, read, rows, csvWriter, files, inserts>>

\* os.Create truncates the file.
Create ==
    /\ pc = "create"
    /\ csv' = <<>>
    /\ csvTouched' = TRUE
    /\ pending' = rows
    /\ Continue("write")
    /\ UNCHANGED <<tables, opts, window, read, rows, buffer, png, inserts>>

\* A variant that drops what is in the buffer.
FlushNothing == UNCHANGED csv

\* A write of the buffer to the disk: all of it, or a part and an error.
FlushOk == csv' = csv \o buffer
FlushFails == \E n \in 0 .. Len(buffer) - 1 : csv' = csv \o SubSeq(buffer, 1, n)

\* A variant whose buffer grows and grows.
BufferNeverFull == FALSE

BufferFull == Len(buffer) >= BufferRows

\* writer.Write(record) fits the buffer, or the full buffer is written first.
WriteRow ==
    /\ pc = "write"
    /\ pending # <<>>
    /\ IF BufferFull
       THEN buffer' = <<Head(pending)>> /\ FlushOk
       ELSE buffer' = Append(buffer, Head(pending)) /\ UNCHANGED csv
    /\ pending' = Tail(pending)
    /\ Continue("write")
    /\ UNCHANGED <<tables, opts, window, read, rows, csvTouched, png, inserts>>

\* The disk refuses the full buffer: the error is returned, and the deferred
\* Flush of the failed writer does nothing.
WriteRowFails ==
    /\ pc = "write"
    /\ pending # <<>>
    /\ BufferFull
    /\ FlushFails
    /\ Return("error")
    /\ UNCHANGED <<tables, opts, window, read, rows, csvWriter, csvTouched, png,
                   inserts>>

\* writer.Error() is evaluated first, when no write has failed yet; only then
\* the deferred Flush writes what is left in the buffer.  Its error is lost.
FinishCSV ==
    /\ pc = "write"
    /\ pending = <<>>
    /\ FlushOk \/ FlushFails
    /\ buffer' = <<>>
    /\ IF opts.png THEN Continue("chart") ELSE Return("ok")
    /\ UNCHANGED <<tables, opts, window, read, rows, pending, csvTouched, png,
                   inserts>>

-------------------------------------------------------------------------------
(* writeSamplesPNG. *)

\* ensureDir or os.Create fails.
ChartNotCreated ==
    /\ pc = "chart"
    /\ Return("error")
    /\ UNCHANGED <<tables, opts, window, read, rows, csvWriter, files, inserts>>

\* os.Create, then graph.Render.  A chart needs two points in time; without
\* them, or when a write fails, the file is left empty or cut short.
Chart ==
    /\ pc = "chart"
    /\ \/ Len(rows) > 1 /\ png' = "complete" /\ Return("ok")
       \/ png' = "partial" /\ Return("error")
    /\ UNCHANGED <<tables, opts, window, read, rows, csvWriter, csv, csvTouched,
                   inserts>>

-------------------------------------------------------------------------------
\* A watcher or a backfill stores a sample.
StoreSample ==
    /\ inserts < MaxInserts
    /\ inserts' = inserts + 1
    /\ pc # "done"
    /\ \E b \in Buckets, d \in Deviations : UpsertRateSample(b, d, 0)
    /\ UNCHANGED <<pc, opts, window, read, rows, csvWriter, files, result>>

Next ==
    \/ Reject \/ ComputeWindow \/ Query \/ QueryFails \/ Thin \/ ThinPanics
    \/ Create \/ CreateFails \/ WriteRow \/ WriteRowFails \/ FinishCSV
    \/ Chart \/ ChartNotCreated
    \/ StoreSample

Spec == Init /\ [][Next]_vars

-------------------------------------------------------------------------------
(* Properties. *)

\* Type invariant of the export.
TypeOK ==
    /\ TablesTypeOK
    /\ pc \in {"start", "query", "downsample", "create", "write", "chart", "done"}
    /\ window \in [from : Int, to : Int]
    /\ {read, rows, pending, buffer, csv} \subseteq Seq(Buckets)
    /\ Len(buffer) <= BufferRows
    /\ csvTouched \in BOOLEAN
    /\ png \in {"old", "partial", "complete"}
    /\ result \in {"none", "ok", "error", "panic"}
    /\ inserts \in 0 .. MaxInserts

Thinned == pc \in {"create", "write", "chart"}

\* The exported rows lie in the window, in order and without repetition, at
\* most as many as were asked for, and whenever two or more were asked for
\* the first and the last row of the window are among them.
ExportSpansWindow ==
    Thinned =>
      /\ Len(rows) <= ResolveMaxPoints(opts.maxPoints)
      /\ \A i \in 1 .. Len(rows) :
           /\ window.from <= rows[i] /\ rows[i] < window.to
           /\ i > 1 => rows[i - 1] < rows[i]
      /\ Len(rows) > 1 => rows[1] = read[1] /\ Last(rows) = Last(read)

\* Rows are left out evenly: between two exported neighbours lie as many rows
\* as between any other two, give or take one.
ExportIsEven ==
    LET Skipped(i) == Cardinality({j \in 1 .. Len(read) :
                                     rows[i] < read[j] /\ read[j] < rows[i + 1]})
    IN  Thinned => \A i, j \in 1 .. Len(rows) - 1 : Skipped(i) <= Skipped(j) + 1

\* The default window never holds more aligned buckets than points were asked
\* for, so that nothing is thinned out of it, even when the multiplication
\* overflows.
DefaultWindowIsWhole ==
    Thinned /\ opts.from = NotGiven => rows = read

\* The CSV file, the buffer and the rows still to be written are the rows
\* chosen, in order, at any time: what is on the disk is never out of order,
\* doubled or missing a row in the middle.
CSVIsPrefix ==
    /\ pc = "write" => csv \o buffer \o pending = rows
    /\ csvTouched => IsPrefix(csv, rows)

\* An export that finds nothing to write, or fails before it has chosen its
\* rows, leaves the files of an earlier export alone.
OldFilesKept == rows = <<>> => ~csvTouched /\ png = "old"

\* cli/export.go: "Export sampled rates as CSV and/or PNG chart".  When the
\* command succeeds and there was something to export, the CSV file holds it.
SuccessIsWritten == result = "ok" /\ opts.csv => csv = rows
===============================================================================
