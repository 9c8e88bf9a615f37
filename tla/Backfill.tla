-------------------------------- MODULE Backfill --------------------------------
(***************************************************************************)
(* `usdewatcher backfill` (internal/app/backfill.go) beside a running      *)
(* watcher: one process calls ProcessBucket for every bucket of a period,  *)
(* one after the other, without alerting, and counts how the calls ended.  *)
(* It shares the database and the advisory lock with the watchers, so it   *)
(* may find the lock taken; ProcessBucket then returns nil and the bucket  *)
(* counts as processed.                                                    *)
(*                                                                         *)
(* The command's context is never cancelled: a signal kills the process.   *)
(***************************************************************************)
EXTENDS Watcher, FiniteSets

CONSTANTS
    Backfiller,        \* the process that runs the command
    Interval           \* length of a bucket in units of time

ASSUME BackfillAssumption ==
    /\ Backfiller \in Procs
    /\ Backfiller \notin Auditing \cup Alerting
    /\ Interval \in Nat \ {0}

VARIABLES
    from, to,          \* the period, in units of time: from <= t < to
    cursor,            \* Backfill's loop variable bucket
    processed, failed, \* Backfill's counters
    outcome,           \* "running", "ok" or "error"
    gaps               \* observer: buckets whose call was refused the lock, or
                       \* had a statement that failed

backfillVars == <<from, to, cursor, processed, failed, outcome, gaps>>
allVars == <<vars, backfillVars>>

\* alignForward, as the number of the bucket
AlignForward(t) == IF t % Interval = 0 THEN t \div Interval ELSE t \div Interval + 1

BackfillInit ==
    /\ Init
    /\ from \in 0 .. LastBucket * Interval
    /\ to \in 1 .. (LastBucket + 1) * Interval
    /\ from < to
    /\ cursor = AlignForward(from)
    /\ processed = 0
    /\ failed = 0
    /\ outcome = IF cursor * Interval < to THEN "running" ELSE "error"
    /\ gaps = {}

\* ProcessBucket(ctx, bucket)
BackfillCall ==
    /\ outcome = "running"
    /\ up[Backfiller]
    /\ cursor * Interval < to
    /\ Call(Backfiller, cursor)
    /\ UNCHANGED <<head, now, behind, setBack, last, up, incidents, backfillVars>>

BackfillProgress ==
    /\ CallProgress(Backfiller)
    /\ gaps' = IF LockRefused(Backfiller) \/ (clean[Backfiller] /\ ~clean'[Backfiller])
               THEN gaps \cup {bucket[Backfiller]}
               ELSE gaps
    /\ UNCHANGED <<from, to, cursor, processed, failed, outcome>>

\* Variants: a failed bucket counts as processed too; it is tried again until
\* it succeeds; the interval is taken for a number of buckets.
AfterCallCountingAll(r) == [processed |-> 1, failed |-> 0, buckets |-> 1]
AfterCallRetrying(r) ==
    LET n == IF r = "error" THEN 0 ELSE 1
    IN  [processed |-> n, failed |-> 0, buckets |-> n]
AfterCallByInterval(r) ==
    LET n == IF r = "error" THEN 1 ELSE 0
    IN  [processed |-> 1 - n, failed |-> n, buckets |-> Interval]

\* What a call that returned r adds to the counters and the loop variable.
AfterCall(r) ==
    LET n == IF r = "error" THEN 1 ELSE 0
    IN  [processed |-> 1 - n, failed |-> n, buckets |-> 1]

\* The call returns and is counted; the loop goes on to the next bucket.
BackfillReturns ==
    /\ Return(Backfiller)
    /\ LET n == AfterCall(result[Backfiller])
       IN  /\ processed' = processed + n.processed
           /\ failed' = failed + n.failed
           /\ cursor' = cursor + n.buckets
    /\ UNCHANGED <<from, to, outcome, gaps, head, now, behind, setBack, last, up, incidents>>

\* A variant that stops at the first bucket that fails.
LoopOverOnFailure == cursor * Interval >= to \/ failed > 0

LoopOver == cursor * Interval >= to

\* Backfill closes the pool and returns.
BackfillEnds ==
    /\ outcome = "running"
    /\ up[Backfiller] /\ pc[Backfiller] = "idle"
    /\ LoopOver
    /\ outcome' = IF failed > 0 THEN "error" ELSE "ok"
    /\ up' = [up EXCEPT ![Backfiller] = FALSE]
    /\ Lock!ClosePool(Backfiller)
    /\ UNCHANGED <<tables, head, callVars, sent, observers, now, behind, setBack, last,
                   incidents,
                   from, to, cursor, processed, failed, gaps>>

BackfillCrashes == Crash(Backfiller) /\ UNCHANGED backfillVars

BackfillStep ==
    BackfillCall \/ BackfillProgress \/ BackfillReturns \/ BackfillEnds

Watchers ==
    /\ \/ AdvanceTime
       \/ ChainGrows
       \/ Environment
       \/ \E p \in Procs \ {Backfiller} : Process(p)
       \/ \E p \in Procs : StepHostClock(p)
    /\ UNCHANGED backfillVars

BackfillNext == BackfillStep \/ BackfillCrashes \/ Watchers

BackfillSpec ==
    /\ BackfillInit /\ [][BackfillNext]_allVars
    /\ WF_allVars(BackfillStep)

-------------------------------------------------------------------------------
(* Properties. *)

Period == {b \in Buckets : from <= b * Interval /\ b * Interval < to}

\* Type invariant of the command's own variables.
BackfillTypeOK ==
    /\ cursor \in 0 .. LastBucket + 1
    /\ processed \in 0 .. LastBucket + 1
    /\ failed \in 0 .. LastBucket + 1
    /\ outcome \in {"running", "ok", "error"}
    /\ gaps \subseteq Buckets

\* A backfill that returned has tried each bucket of the half-open period
\* once, the failed ones included, and none outside it.
PeriodCovered ==
    outcome # "running" => processed + failed = Cardinality(Period)

\* If Backfill returns nil, every bucket of the period has a sample, however
\* the watchers and the backfill were interleaved, save for those of which the
\* loop itself could have known better: their call found the lock taken, or
\* only logged that a statement failed.
SuccessIsStored ==
    outcome = "ok" /\ Backfiller \in Storing
    => \A b \in Period : samples[b] # NoRow \/ b \in gaps

\* A backfill ends, unless its process is killed.
BackfillTerminates == <>(outcome # "running" \/ ~up[Backfiller])
===============================================================================
