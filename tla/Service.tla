-------------------------------- MODULE Service --------------------------------
(***************************************************************************)
(* Service.ProcessBucket (internal/service/service.go), run by several     *)
(* processes against one database: the advisory lock, the two fetches, the *)
(* sample, the breach counter, the alert row and the notification.  Every  *)
(* remote call is a step of its own, with one action per outcome.          *)
(*                                                                         *)
(* A process has one goroutine that calls ProcessBucket, so a call's local *)
(* variables are functions of the process.  Watcher, Backfill and Simulate *)
(* model the three callers.                                                *)
(***************************************************************************)
EXTENDS Storage, Remotes

CONSTANTS
    Procs,             \* processes of the program
    Conns, NoConn, Free, Orphan, MaxLockFaults, MaxSessionLosses,
                       \* see AdvisoryLock
    Locking,           \* processes with a store and a lock key that is not 0
    Storing,           \* processes whose store is not nil
    Auditing,          \* processes whose alertStore is not nil
    Alerting,          \* alertsOn, notifier not nil and threshold not zero
    Threshold,         \* alerting.threshold_pct
    NoBucket           \* the process has not called ProcessBucket yet

ASSUME LockAssumption ==
    /\ NoConn \notin Conns
    /\ Free # Orphan
    /\ {Free, Orphan} \cap (Procs \X Conns) = {}
    /\ MaxLockFaults \in Nat
    /\ MaxSessionLosses \in Nat
ASSUME RolesAssumption ==
    /\ Locking \subseteq Storing
    /\ Storing \subseteq Procs
    /\ Auditing \subseteq Storing
    /\ Alerting \subseteq Procs
ASSUME ThresholdAssumption == Threshold \in Nat \ {0}
ASSUME NoBucketAssumption == NoBucket \notin Buckets
ASSUME DeviationsSuffice ==
    \A o \in Shares \ {0}, m \in BuyAtoms \ {0} : Deviation(o, m) \in Deviations

VARIABLES
    owner, depth, lockConn, held, lost, lockFaults, sessionLosses,
                       \* see AdvisoryLock
    head,              \* number of the chain's latest block
    pc,                \* per process: the call that is outstanding
    bucket,            \* per process: parameter of ProcessBucket
    official,          \* per process: executeBucket's officialRate
    block,             \* per process: executeBucket's blockNumber
    deviation,         \* per process: executeBucket's deviation
    ctx,               \* per process: "live"; "cancelled" with a call still
                       \* outstanding; "done", every new call fails
    breaches,          \* per process: Service.consecutiveBreaches
    result,            \* per process: what ProcessBucket returned
    sent,              \* <<process, bucket>>: it delivered a notification for it
    rateBlock,         \* observer: block the official rate was read from
    previous,          \* observer: deviation evaluated before this one
    clean,             \* observer: no statement of this call has failed
    overtaken          \* observer: the bucket's row was written by another
                       \* process since this one read its rates

Lock == INSTANCE AdvisoryLock

lockVars == <<owner, depth, lockConn, held, lost, lockFaults, sessionLosses>>
locals == <<bucket, official, block, deviation>>
callVars == <<pc, locals, ctx, breaches, result>>
observers == <<rateBlock, previous, clean, overtaken>>
serviceVars == <<lockVars, tables, head, callVars, sent, observers>>

\* The calls of a process that holds whatever lock it needs.
Executing == {"official", "head", "market", "upsert", "insert", "notify"}

Busy == Executing \cup {"connect", "trylock", "unlock"}

ServiceInit ==
    /\ Lock!Init
    /\ TablesInit
    /\ head = 0
    /\ pc = [p \in Procs |-> "idle"]
    /\ bucket = [p \in Procs |-> NoBucket]
    /\ official = [p \in Procs |-> 0]
    /\ block = [p \in Procs |-> 0]
    /\ deviation = [p \in Procs |-> NoRow]
    /\ ctx = [p \in Procs |-> "live"]
    /\ breaches = [p \in Procs |-> 0]
    /\ result = [p \in Procs |-> "none"]
    /\ sent = {}
    /\ rateBlock = [p \in Procs |-> 0]
    /\ previous = [p \in Procs |-> NoRow]
    /\ clean = [p \in Procs |-> TRUE]
    /\ overtaken = [p \in Procs |-> FALSE]

-------------------------------------------------------------------------------
(* Control. *)

\* A call succeeds only if it was begun before the context was cancelled.
\* The next call is begun in the same step.
Succeeds(p) == ctx[p] # "done"
NextCall(p, label) ==
    /\ pc' = [pc EXCEPT ![p] = label]
    /\ ctx' = [ctx EXCEPT ![p] = IF @ = "cancelled" THEN "done" ELSE @]

\* A variant that returns before the deferred unlock has run.
ReturnAtOnce(p, r) ==
    /\ NextCall(p, "returned")
    /\ result' = [result EXCEPT ![p] = r]

\* executeBucket returns and the deferred unlock runs.
Finish(p, r) ==
    /\ NextCall(p, IF p \in Locking THEN "unlock" ELSE "returned")
    /\ result' = [result EXCEPT ![p] = r]

Breach(d) == Magnitude(d) > Threshold

\* A variant that does not reset the counter after a calm sample.
CountWithoutReset(p, d) ==
    IF p \in Alerting /\ Breach(d) THEN breaches[p] + 1 ELSE breaches[p]

\* consecutiveBreaches once a deviation has been looked at.
Count(p, d) == IF p \in Alerting /\ Breach(d) THEN breaches[p] + 1 ELSE 0

\* The rest of executeBucket once the sample has been dealt with: go on to
\* alert on the second breach in a row.
Evaluate(p, d) ==
    /\ breaches' = [breaches EXCEPT ![p] = Count(p, d)]
    /\ IF Count(p, d) < 2
       THEN Finish(p, "ok")
       ELSE /\ NextCall(p, IF p \in Auditing THEN "insert" ELSE "notify")
            /\ UNCHANGED result

\* A variant of a statement that needs two connections at a time.
HasTwoFreeConns(p) ==
    \E c, d \in Conns : c # d /\ lockConn[p] \notin {c, d}

\* The statements of a call share the pool with the lock's connection.
HasFreeConn(p) == \E c \in Conns : c # lockConn[p]

-------------------------------------------------------------------------------
(* ProcessBucket: acquireLock. *)

\* The caller calls ProcessBucket(ctx, b).
Call(p, b) ==
    /\ pc[p] = "idle"
    /\ bucket' = [bucket EXCEPT ![p] = b]
    /\ NextCall(p, IF p \in Locking THEN "connect" ELSE "official")
    /\ UNCHANGED <<lockVars, tables, official, block, deviation, breaches, result,
                   sent, observers>>

\* What taking and returning the lock leaves alone.
work == <<tables, locals, breaches, sent, observers>>

\* ProcessBucket returns without having executed the bucket.
ReturnEarly(p, r) ==
    /\ NextCall(p, "returned")
    /\ result' = [result EXCEPT ![p] = r]
    /\ UNCHANGED work

\* pool.Acquire fails: the error is returned.
ConnectFails(p) ==
    /\ pc[p] = "connect"
    /\ ReturnEarly(p, "error")
    /\ UNCHANGED lockVars

Connect(p) ==
    /\ pc[p] = "connect"
    /\ Succeeds(p)
    /\ Lock!AcquireConn(p)
    /\ NextCall(p, "trylock")
    /\ UNCHANGED <<work, result>>

LockGranted(p) ==
    /\ pc[p] = "trylock"
    /\ Succeeds(p)
    /\ Lock!Grant(p)
    /\ NextCall(p, "official")
    /\ UNCHANGED <<work, result>>

\* A variant that goes on although the lock is held elsewhere.
LockRefusedIgnored(p) ==
    /\ pc[p] = "trylock"
    /\ Succeeds(p)
    /\ Lock!Refuse(p)
    /\ NextCall(p, "official")
    /\ UNCHANGED <<work, result>>

\* The lock is held elsewhere: the bucket is skipped and nil is returned.
LockRefused(p) ==
    /\ pc[p] = "trylock"
    /\ Succeeds(p)
    /\ Lock!Refuse(p)
    /\ ReturnEarly(p, "ok")

TryLockFails(p) ==
    /\ pc[p] = "trylock"
    /\ Lock!TryFails(p)
    /\ ReturnEarly(p, "error")

-------------------------------------------------------------------------------
(* executeBucket. *)

\* FetchOfficial or FetchMarket fails, or the official rate is zero.
FetchFails(p) ==
    /\ \/ pc[p] = "official" /\ ~ \A r \in PreviewReplies : PreviewSucceeds(r)
       \/ pc[p] = "head"
       \/ pc[p] = "market" /\ ~ \A r \in MarketReplies : MarketSucceeds(r)
    /\ Finish(p, "error")
    /\ UNCHANGED <<lockVars, tables, locals, breaches, sent, observers>>

\* previewDeposit answers.
FetchOfficial(p) ==
    /\ pc[p] = "official"
    /\ Succeeds(p)
    /\ \E r \in PreviewReplies, h \in LatestBlocks(head) :
         /\ PreviewSucceeds(r)
         /\ official' = [official EXCEPT ![p] = r.shares]
         /\ rateBlock' = [rateBlock EXCEPT ![p] = h]
    /\ NextCall(p, "head")
    /\ overtaken' = [overtaken EXCEPT ![p] = FALSE]
    /\ UNCHANGED <<lockVars, tables, bucket, block, deviation, breaches, result,
                   sent, previous, clean>>

\* A variant that asks for the block number before it asks for the rate.
BlockNumbersBefore(p) == 0 .. rateBlock[p]

\* What BlockNumber may answer, after the rate.
BlockNumbers(p) == LatestBlocks(head)

\* BlockNumber answers, and the rate is not zero.
FetchHead(p) ==
    /\ pc[p] = "head"
    /\ Succeeds(p)
    /\ official[p] # 0
    /\ \E h \in BlockNumbers(p) : block' = [block EXCEPT ![p] = h]
    /\ NextCall(p, "market")
    /\ UNCHANGED <<lockVars, tables, bucket, official, deviation, breaches, result,
                   sent, observers>>

\* The market rate arrives and with it the deviation.  Without a store the
\* call goes straight on to the evaluation.
FetchMarket(p) ==
    /\ pc[p] = "market"
    /\ Succeeds(p)
    /\ \E r \in MarketReplies :
         LET d == Deviation(official[p], r.buy)
         IN  /\ MarketSucceeds(r)
             /\ deviation' = [deviation EXCEPT ![p] = d]
             /\ previous' = [previous EXCEPT ![p] = deviation[p]]
             /\ IF p \in Storing
                THEN NextCall(p, "upsert") /\ UNCHANGED <<breaches, result>>
                ELSE Evaluate(p, d)
    /\ UNCHANGED <<lockVars, tables, bucket, official, block, sent, rateBlock, clean,
                   overtaken>>

\* The statement of UpsertRateSample takes effect.
WriteSample(p) ==
    /\ UpsertRateSample(bucket[p], deviation[p], block[p])
    /\ overtaken' = [q \in Procs |->
                       overtaken[q] \/ (q # p /\ bucket[q] = bucket[p])]

\* The statement of InsertAlert takes effect.
WriteAlert(p) ==
    /\ InsertAlert(bucket[p], deviation[p], Threshold)
    /\ UNCHANGED overtaken

\* A statement that was begun in time and got a connection reaches the server.
Reaches(p) == Succeeds(p) /\ HasFreeConn(p)

\* A statement ends without success when the server or the connection fails
\* it, or because the context is done.
MayFail(p) == HasFreeConn(p) \/ ctx[p] # "live"

\* What was observed of a sample is of no use once it has been dealt with.
ForgetObserved(p) ==
    /\ rateBlock' = [rateBlock EXCEPT ![p] = 0]
    /\ previous' = [previous EXCEPT ![p] = NoRow]

Upsert(p) ==
    /\ pc[p] = "upsert"
    /\ Reaches(p) /\ WriteSample(p)
    /\ Evaluate(p, deviation[p])
    /\ ForgetObserved(p)
    /\ UNCHANGED <<lockVars, locals, sent, clean>>

\* The error is logged and the call goes on.  The row may have been written
\* although the answer was lost.
UpsertFails(p) ==
    /\ pc[p] = "upsert"
    /\ MayFail(p)
    /\ \/ Reaches(p) /\ WriteSample(p)
       \/ UNCHANGED <<tables, overtaken>>
    /\ Evaluate(p, deviation[p])
    /\ clean' = [clean EXCEPT ![p] = FALSE]
    /\ ForgetObserved(p)
    /\ UNCHANGED <<lockVars, locals, sent>>

RecordAlert(p) ==
    /\ pc[p] = "insert"
    /\ Reaches(p) /\ WriteAlert(p)
    /\ NextCall(p, "notify")
    /\ UNCHANGED <<lockVars, locals, breaches, result, sent, rateBlock, previous, clean>>

\* The error is logged and the alert is sent all the same.
RecordAlertFails(p) ==
    /\ pc[p] = "insert"
    /\ MayFail(p)
    /\ \/ Reaches(p) /\ WriteAlert(p)
       \/ UNCHANGED <<tables, overtaken>>
    /\ NextCall(p, "notify")
    /\ clean' = [clean EXCEPT ![p] = FALSE]
    /\ UNCHANGED <<lockVars, locals, breaches, result, sent, rateBlock, previous>>

\* The reply to a notification arrives: whether it was delivered and what
\* Notify makes of the reply are two things.
Notified(p, r) ==
    /\ pc[p] = "notify"
    /\ sent' = IF r.delivered THEN sent \cup {<<p, bucket[p]>>} ELSE sent
    /\ Finish(p, "ok")
    /\ UNCHANGED <<lockVars, tables, locals, breaches, observers>>

Notify(p) ==
    /\ Succeeds(p)
    /\ \E r \in NotifyReplies : NotifySucceeds(r) /\ Notified(p, r)

\* The error is only logged.
NotifyFails(p) ==
    \E r \in NotifyReplies :
       /\ ~NotifySucceeds(r)
       /\ r.delivered => Succeeds(p)
       /\ Notified(p, r)

\* A variant that hands the connection back before the lock is freed.
ReleaseConnBeforeLock(p) ==
    /\ pc[p] = "unlock"
    /\ lockConn' = [lockConn EXCEPT ![p] = NoConn]
    /\ NextCall(p, "returned")
    /\ UNCHANGED <<owner, depth, held, lost, lockFaults, sessionLosses, work, result>>

\* The deferred unlock; it has a context of its own.
ReleaseLock(p) ==
    /\ pc[p] = "unlock"
    /\ Lock!UnlockReturns(p)
    /\ NextCall(p, "returned")
    /\ UNCHANGED <<work, result>>

\* The call's local variables are gone.  `deviation` keeps its value for the
\* observer `previous`.
ForgetLocals(p) ==
    /\ bucket' = [bucket EXCEPT ![p] = NoBucket]
    /\ official' = [official EXCEPT ![p] = 0]
    /\ block' = [block EXCEPT ![p] = 0]
    /\ result' = [result EXCEPT ![p] = "none"]
    /\ rateBlock' = [rateBlock EXCEPT ![p] = 0]
    /\ previous' = [previous EXCEPT ![p] = NoRow]
    /\ clean' = [clean EXCEPT ![p] = TRUE]

\* ProcessBucket returns to its caller.
Return(p) ==
    /\ pc[p] = "returned"
    /\ pc' = [pc EXCEPT ![p] = "idle"]
    /\ ForgetLocals(p)
    /\ overtaken' = [overtaken EXCEPT ![p] = FALSE]
    /\ UNCHANGED <<lockVars, tables, deviation, ctx, breaches, sent>>

\* One step of a call in progress.
CallStep(p) ==
    \/ ConnectFails(p) \/ Connect(p)
    \/ LockGranted(p) \/ LockRefused(p) \/ TryLockFails(p)
    \/ FetchFails(p) \/ FetchOfficial(p) \/ FetchHead(p) \/ FetchMarket(p)
    \/ Upsert(p) \/ UpsertFails(p)
    \/ RecordAlert(p) \/ RecordAlertFails(p)
    \/ Notify(p) \/ NotifyFails(p)
    \/ ReleaseLock(p)

\* What happens to the lock outside the processes that use it.
LockEnvironment ==
    /\ \/ Lock!ReapOrphan
       \/ \E p \in Procs :
            \/ Lock!LoseSession(p)
            \/ \E c \in Conns : Lock!RetireConn(p, c)
    /\ UNCHANGED <<tables, callVars, sent, observers>>
===============================================================================
