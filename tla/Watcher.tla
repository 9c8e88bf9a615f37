-------------------------------- MODULE Watcher --------------------------------
(***************************************************************************)
(* `usdewatcher run` (internal/app/app.go, App.Run) on several hosts: each *)
(* process drives Service.ProcessBucket from its scheduler and is stopped  *)
(* by a signal, crashes or is restarted.  All share one database and one   *)
(* advisory lock.                                                          *)
(*                                                                         *)
(* Of the scheduler this module keeps what Scheduler proves of it.  Every  *)
(* host has a clock of its own, behind the foremost one by some buckets,   *)
(* which may be set.  Ticks are for later and later buckets, unless the    *)
(* clock is set back during an overrun; none is for a bucket that clock    *)
(* has not reached, unless it was set back; a restarted loop knows only    *)
(* the clock and begins after its bucket.                                  *)
(***************************************************************************)
EXTENDS Service

CONSTANTS
    LastBucket,        \* bound: time ends with this bucket
    HostSkew,          \* buckets by which a host's clock may be behind
    ClockSteps,        \* buckets by which a host's clock may be set
    MaxIncidents,      \* bound: signals, crashes and clocks that are set
    MaxHead            \* bound: the chain ends with this block

ASSUME TimeAssumption ==
    /\ LastBucket \in Nat
    /\ Buckets = 0 .. LastBucket
    /\ HostSkew \in Nat
    /\ ClockSteps \subseteq Int
    /\ MaxIncidents \in Nat
    /\ MaxHead \in Nat

VARIABLES
    now,               \* the bucket whose boundary was reached last
    behind,            \* per process: buckets its host's clock is behind `now`
    setBack,           \* observer: that clock was set back
    last,              \* per process: no tick for this bucket or earlier ones
    up,                \* per process: it is running
    incidents          \* signals, crashes and clocks set so far

vars == <<serviceVars, now, behind, setBack, last, up, incidents>>

\* The bucket of time.Now() on the process's host.
HostBucket(p) == now - behind[p]

Init ==
    /\ ServiceInit
    /\ now = 0
    /\ behind \in [Procs -> 0 .. HostSkew]
    /\ setBack = [p \in Procs |-> FALSE]
    /\ last = [p \in Procs |-> HostBucket(p) - 1]
    /\ up = [p \in Procs |-> TRUE]
    /\ incidents = 0

AdvanceTime ==
    /\ now < LastBucket
    /\ now' = now + 1
    /\ UNCHANGED <<serviceVars, behind, setBack, last, up, incidents>>

\* A host's clock is set, by its administrator or by NTP.  A loop that sees it
\* go back between the two readings of an overrun goes back too.
StepHostClock(p) ==
    /\ incidents < MaxIncidents
    /\ incidents' = incidents + 1
    /\ \E d \in ClockSteps :
         /\ behind[p] - d \in 0 .. HostSkew
         /\ behind' = [behind EXCEPT ![p] = @ - d]
         /\ setBack' = [setBack EXCEPT ![p] = @ \/ d < 0]
         /\ \/ UNCHANGED last
            \/ /\ d < 0 /\ up[p] /\ pc[p] = "idle"
               /\ last' = [last EXCEPT ![p] = HostBucket(p) + d]
    /\ UNCHANGED <<serviceVars, now, up>>

\* The chain gets a block.
ChainGrows ==
    /\ head < MaxHead
    /\ head' = head + 1
    /\ UNCHANGED <<lockVars, tables, callVars, sent, observers, now, behind, setBack,
                   last, up, incidents>>

\* A variant that ticks for a boundary once more.
AgainAfter(b, p) == last[p] <= b

\* What Scheduler keeps to: no tick for a bucket that is not a later one.
After(b, p) == last[p] < b

\* The buckets that the next tick may be for.  A timer armed before the clock
\* was set back keeps to the time before.
Due(p) ==
    {b \in Buckets :
       /\ After(b, p)
       /\ now - HostSkew <= b
       /\ b <= IF setBack[p] THEN now ELSE HostBucket(p)}

\* The scheduler's timer fires and it calls the tick function.  When a signal
\* has arrived too, select may still choose the timer.
Tick(p) ==
    /\ up[p]
    /\ \E b \in Due(p) :
         /\ Call(p, b)
         /\ last' = [last EXCEPT ![p] = b]
    /\ UNCHANGED <<head, now, behind, setBack, up, incidents>>

\* The tick function returns; an error is only logged.
TickReturns(p) ==
    /\ Return(p)
    /\ UNCHANGED <<head, now, behind, setBack, last, up, incidents>>

CallProgress(p) ==
    /\ CallStep(p)
    /\ UNCHANGED <<head, now, behind, setBack, last, up, incidents>>

\* SIGINT or SIGTERM cancels the context.
Signal(p) ==
    /\ up[p] /\ ctx[p] = "live"
    /\ incidents < MaxIncidents
    /\ incidents' = incidents + 1
    /\ ctx' = [ctx EXCEPT ![p] = "cancelled"]
    /\ UNCHANGED <<lockVars, tables, head, pc, locals, breaches, result, sent,
                   observers, now, behind, setBack, last, up>>

\* A variant that notices the signal only by a call that failed.
NoticedByFailure(p) == ctx[p] = "done"

\* The scheduler's select sees that the context is done.
Noticed(p) == ctx[p] # "live"

\* The scheduler returns and App.Run closes the pool.
Shutdown(p) ==
    /\ up[p] /\ pc[p] = "idle" /\ Noticed(p)
    /\ up' = [up EXCEPT ![p] = FALSE]
    /\ Lock!ClosePool(p)
    /\ UNCHANGED <<tables, head, callVars, sent, observers, now, behind, setBack,
                   last, incidents>>

\* The request that a dead process was waiting for takes effect.
LateEffect(p) ==
    \/ pc[p] = "upsert" /\ Reaches(p) /\ WriteSample(p) /\ UNCHANGED sent
    \/ pc[p] = "insert" /\ Reaches(p) /\ WriteAlert(p) /\ UNCHANGED sent
    \/ /\ pc[p] = "notify" /\ Succeeds(p)
       /\ sent' = sent \cup {<<p, bucket[p]>>}
       /\ UNCHANGED <<tables, overtaken>>

\* The process or its host dies.
Crash(p) ==
    /\ up[p]
    /\ incidents < MaxIncidents
    /\ incidents' = incidents + 1
    /\ up' = [up EXCEPT ![p] = FALSE]
    /\ Lock!Die(p)
    /\ pc' = [pc EXCEPT ![p] = "idle"]
    /\ LateEffect(p) \/ UNCHANGED <<tables, sent, overtaken>>
    /\ ForgetLocals(p)
    /\ deviation' = [deviation EXCEPT ![p] = NoRow]
    /\ ctx' = [ctx EXCEPT ![p] = "live"]
    /\ UNCHANGED <<head, breaches, now, behind, setBack, last>>

\* A variant that starts with the boundaries that have passed.
StartsAfterPassed(p) == HostBucket(p) - 2

\* nextTick's first boundary is the one after this bucket.
StartsAfter(p) == HostBucket(p)

\* A new process with a new Service: the counter starts at zero and the first
\* tick is for the next boundary on the host's clock.
Restart(p) ==
    /\ ~up[p]
    /\ up' = [up EXCEPT ![p] = TRUE]
    /\ last' = [last EXCEPT ![p] = StartsAfter(p)]
    /\ ctx' = [ctx EXCEPT ![p] = "live"]
    /\ breaches' = [breaches EXCEPT ![p] = 0]
    /\ deviation' = [deviation EXCEPT ![p] = NoRow]
    /\ UNCHANGED <<lockVars, tables, head, pc, bucket, official, block, result, sent,
                   observers, now, behind, setBack, incidents>>

Process(p) ==
    \/ Tick(p) \/ TickReturns(p) \/ CallProgress(p)
    \/ Signal(p) \/ Shutdown(p) \/ Crash(p) \/ Restart(p)

Environment ==
    /\ LockEnvironment
    /\ UNCHANGED <<head, now, behind, setBack, last, up, incidents>>

Next ==
    \/ AdvanceTime \/ ChainGrows \/ Environment
    \/ \E p \in Procs : Process(p) \/ StepHostClock(p)

Spec == Init /\ [][Next]_vars

\* Every remote call ends: the fetchers and the notifier have HTTP timeouts,
\* the unlock has two seconds, and a statement ends with its context or with
\* the connection.  A call that waits for a connection of the pool has only
\* the context.  Time goes on.  Go's select picks at random among ready
\* cases, so a ctx.Done that stays ready is taken in the end.
Fairness ==
    /\ WF_vars(AdvanceTime)
    /\ \A p \in Procs :
         /\ WF_vars(CallProgress(p))
         /\ WF_vars(TickReturns(p))
         /\ SF_vars(Shutdown(p))

FairSpec == Spec /\ Fairness

-------------------------------------------------------------------------------
(* Properties. *)

\* Type invariant of the calls and their callers.
TypeOK ==
    /\ Lock!TypeOK
    /\ TablesTypeOK
    /\ head \in 0 .. MaxHead
    /\ pc \in [Procs -> Busy \cup {"idle", "returned"}]
    /\ bucket \in [Procs -> Buckets \cup {NoBucket}]
    /\ official \in [Procs -> Shares \cup {0}]
    /\ block \in [Procs -> Nat]
    /\ deviation \in [Procs -> Deviations \cup {NoRow}]
    /\ ctx \in [Procs -> {"live", "cancelled", "done"}]
    /\ breaches \in [Procs -> Nat]
    /\ result \in [Procs -> {"none", "ok", "error"}]
    /\ sent \subseteq Procs \X Buckets
    /\ rateBlock \in [Procs -> Nat]
    /\ previous \in [Procs -> Deviations \cup {NoRow}]
    /\ clean \in [Procs -> BOOLEAN]
    /\ overtaken \in [Procs -> BOOLEAN]
    /\ now \in Buckets
    /\ behind \in [Procs -> 0 .. HostSkew]
    /\ setBack \in [Procs -> BOOLEAN]
    /\ last \in [Procs -> -1 - HostSkew .. LastBucket]
    /\ up \in [Procs -> BOOLEAN]
    /\ incidents \in 0 .. MaxIncidents

\* A bucket is executed by one process at a time: of two processes that
\* fetch, store or alert under the lock, one has lost its session.
ExecutionExclusive ==
    \A p, q \in Locking :
       /\ pc[p] \in Executing /\ ~lost[p]
       /\ pc[q] \in Executing /\ ~lost[q]
       => p = q

\* The lock's connection is back in the pool, and the lock no longer counts
\* on it, whenever the process is between two buckets, however the last call
\* ended.
ConnReturned ==
    \A p \in Procs :
       pc[p] \in {"idle", "returned"} => lockConn[p] = NoConn /\ ~held[p]

\* As long as no session was lost, no process overwrites a sample that
\* another wrote after it had read its own rates: every sample is newer than
\* the one it replaces.  A statement that failed takes effect with its failure
\* at the latest here: one that its server executes later still, after its
\* call has freed the lock on another connection, is not modelled.
NoStaleOverwrite ==
    [][\A p \in Locking :
         pc[p] = "upsert" /\ pc'[p] # "upsert" /\ samples' # samples
         => ~overtaken[p] \/ sessionLosses > 0]_vars

\* An alert is raised for a sample exactly if it and the sample that the same
\* process evaluated before it both exceed the threshold.  Failed fetches,
\* skipped buckets and failed statements in between do not matter, restarts
\* do.
AlertConfirmed ==
    [][\A p \in Alerting \cap Storing :
         pc[p] = "upsert" /\ pc'[p] \notin {"upsert", "idle"}
         => (pc'[p] \in {"insert", "notify"}
              <=> /\ previous[p] # NoRow
                  /\ Breach(previous[p])
                  /\ Breach(deviation[p]))]_vars

\* Whoever is told of a breach finds it in the database: when a notification
\* goes out, no statement of its call has failed and no session was ever
\* lost, the sample and the alert row of its bucket say what it says.  This
\* is what the lock must keep; that a failed insert is notified all the same,
\* and statements that outlive their call, are outside its premise.
NotificationIsOnRecord ==
    \A p \in Locking \cap Auditing :
       pc[p] = "notify" /\ clean[p] /\ sessionLosses = 0
       => /\ samples[bucket[p]] = SampleRow(deviation[p], block[p])
          /\ alerts[bucket[p]] = AlertRow(deviation[p], Threshold)

\* Every row of the alerts table shows a breach, although its figures are
\* rounded after the comparison was made without rounding: the deviation on
\* record is not below the threshold on record, and points the way it says.
AlertRowsShowBreach ==
    \A b \in Buckets : LET row == alerts[b] IN
       row # NoRow => /\ Magnitude(row.deviation) >= row.threshold
                      /\ row.direction # "flat"
                      /\ row.deviation # 0 => row.direction = Direction(row.deviation)

\* A sample never claims to be older than it is: the block it names is not
\* older than the one its rate was read from, save for what one node behind
\* the endpoint lags behind another, and it is a block of the chain.
SampleNamesItsBlock ==
    \A p \in Procs :
       pc[p] \in {"market", "upsert"}
       => rateBlock[p] - ReplicaLag <= block[p] /\ block[p] <= head

\* No host tells of the same bucket twice, whatever it lost in a crash and
\* whenever it was restarted, however far its clock is behind the others and
\* even if it is set forward.  A new process knows only its host's clock, so
\* setting that back voids the promise.
NotifiedOncePerHost ==
    \A p \in Procs :
       pc[p] = "notify" /\ ~setBack[p] => <<p, bucket[p]>> \notin sent

\* The calls use the lock as AdvisoryLock has it.
LockProtocol == Lock!Spec

\* Every call of ProcessBucket returns.
TickCompletes ==
    \A p \in Procs : pc[p] \in Busy ~> pc[p] \notin Busy

\* A process that was signalled stops.
SignalStops == \A p \in Procs : ctx[p] # "live" ~> ~up[p]

-------------------------------------------------------------------------------
(* What the comments and the configuration say of alerts. *)

\* storage/models.go: "AlertRecord captures an emitted alert".  An alert row
\* whose call is over belongs to a notification that was delivered.
RecordedAlertsEmitted ==
    \A b \in Buckets :
       alerts[b] # NoRow
       => \/ \E p \in Procs : <<p, b>> \in sent
          \/ \E p \in Procs : bucket[p] = b /\ pc[p] \in {"insert", "notify"}
===============================================================================
