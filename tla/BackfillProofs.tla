----------------------------- MODULE BackfillProofs -----------------------------
(***************************************************************************)
(* Proofs about a backfill beside watchers, for any period, interval,      *)
(* processes and pools: each bucket of the period is tried once, success   *)
(* means stored samples, and what is proved of the watchers alone about    *)
(* the order of samples still holds.                                       *)
(***************************************************************************)
EXTENDS AlertProofs, Backfill, FiniteSetTheorems

B == Backfiller

\* Each step is one the watchers could take, or the beginning of a call by
\* the loop, or its end.
LEMMA StepCases ==
    ASSUME [BackfillNext]_allVars
    PROVE  [Next]_vars \/ BackfillCall \/ BackfillEnds
<1>1. CASE UNCHANGED allVars
  BY <1>1 DEF allVars
<1>2. CASE BackfillProgress \/ BackfillReturns \/ BackfillCrashes
  <2>1. Backfiller \in Procs
    BY BackfillAssumption DEF BackfillAssumption
  <2>2. CallProgress(Backfiller) \/ TickReturns(Backfiller) \/ Crash(Backfiller)
    BY <1>2 DEF BackfillProgress, BackfillReturns, BackfillCrashes, TickReturns
  <2> QED
    BY <2>1, <2>2 DEF Next, Process
<1>3. CASE Watchers
  BY <1>3 DEF Watchers, Next
<1> QED
  BY <1>1, <1>2, <1>3 DEF BackfillNext, BackfillStep

\* The backfill uses the lock as the watchers do.
LEMMA BackfillUsesLock == [BackfillNext]_allVars => [Lock!Next]_(Lock!vars)
<1> SUFFICES ASSUME [BackfillNext]_allVars PROVE [Lock!Next]_(Lock!vars)
  OBVIOUS
<1>1. CASE [Next]_vars
  BY <1>1, StepIsLockStep
<1>2. CASE BackfillCall
  BY <1>2 DEF BackfillCall, Call, lockVars, Lock!vars
<1>3. CASE BackfillEnds
  BY <1>3, BackfillAssumption
  DEF BackfillEnds, BackfillAssumption, Lock!Next, Lock!Step
<1> QED
  BY <1>1, <1>2, <1>3, StepCases

\* So the lock is typed and excludes.
LEMMA BackfillLockHolds == BackfillSpec => [](Lock!TypeOK /\ Lock!MutualExclusion)
<1>1. BackfillInit => LP!Init
  BY DEF BackfillInit, Init, ServiceInit, Lock!Init, LP!Init
<1>2. [Lock!Next]_(Lock!vars) => [LP!Next]_(LP!vars)
  BY SameLockStep DEF Lock!Next, LP!Next, Lock!vars, LP!vars,
                      Lock!ReapOrphan, LP!ReapOrphan
<1>3. BackfillSpec => LP!Spec
  BY <1>1, <1>2, BackfillUsesLock, PTL DEF BackfillSpec, LP!Spec
<1>4. LP!Spec => [](LP!TypeOK /\ LP!MutualExclusion)
  BY LP!Typing, LP!Exclusion, LockAssumption, PTL
  DEF LockAssumption
<1>5. LP!TypeOK /\ LP!MutualExclusion => Lock!TypeOK /\ Lock!MutualExclusion
  BY DEF LP!TypeOK, Lock!TypeOK, LP!MutualExclusion, Lock!MutualExclusion,
         LP!Holding, Lock!Holding
<1> QED
  BY <1>3, <1>4, <1>5, PTL

-------------------------------------------------------------------------------
(* What a process does is its own business.                                  *)

\* A call's step changes nothing of another process's call, and its own
\* bucket stays.
LEMMA CallIsOwn ==
    ASSUME CallInv, CallTypes, DataTypes, NEW p \in Procs, CallStep(p)
    PROVE  /\ pc[p] \notin {"idle", "returned"} /\ pc'[p] # "idle" /\ bucket' = bucket
           /\ \A q \in Procs \ {p} : /\ pc'[q] = pc[q] /\ result'[q] = result[q]
                                     /\ clean'[q] = clean[q]
<1> USE DEF CallInv, CallTypes, DataTypes, work, locals, observers, NextCall, Finish,
            Busy, Executing
<1>1. CASE ConnectFails(p) \/ Connect(p)
  BY <1>1 DEF ConnectFails, Connect, ReturnEarly
<1>2. CASE LockGranted(p) \/ LockRefused(p) \/ TryLockFails(p)
  BY <1>2 DEF LockGranted, LockRefused, TryLockFails, ReturnEarly
<1>3. CASE FetchFails(p) \/ FetchOfficial(p) \/ FetchHead(p)
  BY <1>3 DEF FetchFails, FetchOfficial, FetchHead
<1>4. CASE FetchMarket(p)
  BY <1>4 DEF FetchMarket, Evaluate
<1>5. CASE Upsert(p) \/ UpsertFails(p)
  BY <1>5 DEF Upsert, UpsertFails, Evaluate
<1>6. CASE RecordAlert(p) \/ RecordAlertFails(p)
  BY <1>6 DEF RecordAlert, RecordAlertFails
<1>7. CASE Notify(p) \/ NotifyFails(p) \/ ReleaseLock(p)
  BY <1>7 DEF Notify, NotifyFails, Notified, ReleaseLock
<1> QED
  BY <1>1, <1>2, <1>3, <1>4, <1>5, <1>6, <1>7 DEF CallStep

\* No step of one process changes another's call.
LEMMA ProcessIsOwn ==
    ASSUME CallInv, CallTypes, DataTypes, NEW p \in Procs, Process(p),
           NEW q \in Procs, q # p
    PROVE  /\ pc'[q] = pc[q] /\ bucket'[q] = bucket[q]
           /\ result'[q] = result[q] /\ clean'[q] = clean[q]
<1> USE DEF CallInv, CallTypes, DataTypes, locals, observers, callVars, ForgetLocals
<1>1. CASE Tick(p)
  BY <1>1 DEF Tick, Call, NextCall
<1>2. CASE TickReturns(p) \/ Crash(p)
  BY <1>2 DEF TickReturns, Return, Crash
<1>3. CASE CallProgress(p)
  BY <1>3, CallIsOwn DEF CallProgress
<1>4. CASE Signal(p) \/ Shutdown(p) \/ Restart(p)
  BY <1>4 DEF Signal, Shutdown, Restart
<1> QED
  BY <1>1, <1>2, <1>3, <1>4 DEF Process

\* What the environment and the watchers do changes nothing of the backfill's
\* call.
LEMMA WatchersLeaveCall ==
    ASSUME CallInv, CallTypes, DataTypes, Watchers
    PROVE  /\ pc'[B] = pc[B] /\ bucket'[B] = bucket[B]
           /\ result'[B] = result[B] /\ clean'[B] = clean[B]
<1>1. B \in Procs
  BY BackfillAssumption DEF BackfillAssumption, B
<1>2. CASE AdvanceTime \/ ChainGrows \/ Environment
  BY <1>2 DEF AdvanceTime, ChainGrows, Environment, LockEnvironment, serviceVars,
              callVars, locals, observers
<1>3. CASE \E p \in Procs \ {B} : Process(p)
  BY <1>1, <1>3, ProcessIsOwn
<1>4. CASE \E p \in Procs : StepHostClock(p)
  BY <1>4 DEF StepHostClock, serviceVars, callVars, locals, observers
<1> QED
  BY <1>2, <1>3, <1>4 DEF Watchers, B

-------------------------------------------------------------------------------
(* The loop visits each bucket of the period once.                           *)

First == AlignForward(from)

\* Where the loop is, in terms of what it has counted.
LoopInv ==
    /\ from \in Nat /\ to \in Nat /\ from < to /\ to <= (LastBucket + 1) * Interval
    /\ outcome \in {"running", "ok", "error"} /\ gaps \subseteq Buckets
    /\ processed \in Nat /\ failed \in Nat
    /\ cursor = First + processed + failed
    /\ cursor = First \/ (cursor - 1) * Interval < to
    /\ pc[B] # "idle" => outcome = "running" /\ cursor * Interval < to
    /\ outcome # "running" => cursor * Interval >= to

\* The order of the boundaries.
LEMMA Boundaries ==
    /\ \A m, n \in Int : m <= n => m * Interval <= n * Interval
    /\ \A m, n \in Int : m * Interval < n * Interval => m < n
<1>1. Interval \in Nat \ {0}
  BY BackfillAssumption DEF BackfillAssumption
<1>2. \A m, n \in Int : m <= n => m * Interval <= n * Interval
  BY <1>1, SMT
<1>3. \A m, n \in Int : m * Interval \in Int /\ n * Interval \in Int
  BY <1>1, SMT
<1> QED
  BY <1>2, <1>3

\* alignForward finds the first boundary that is not before t.
LEMMA AlignForwardBounds ==
    ASSUME NEW t \in Nat
    PROVE  /\ AlignForward(t) \in Nat
           /\ \A b \in Int : t <= b * Interval <=> AlignForward(t) <= b
<1> DEFINE k == t \div Interval  r == t % Interval
<1>1. Interval \in Nat \ {0}
  BY BackfillAssumption DEF BackfillAssumption
<1>2. k \in Nat /\ r \in 0 .. Interval - 1 /\ t = Interval * k + r
  BY <1>1, SMT
<1>3. AlignForward(t) = IF r = 0 THEN k ELSE k + 1
  BY DEF AlignForward
<1>4. ASSUME NEW b \in Int, b <= k PROVE b * Interval <= k * Interval
  BY <1>2, <1>4, Boundaries
<1>5. ASSUME NEW b \in Int, b >= k + 1 PROVE b * Interval >= k * Interval + Interval
  <2>1. (k + 1) * Interval <= b * Interval
    BY <1>2, <1>5, Boundaries
  <2>2. (k + 1) * Interval = k * Interval + Interval
    BY <1>1, <1>2, SMT
  <2> QED
    BY <2>1, <2>2
<1>6. Interval * k = k * Interval /\ k * Interval \in Nat
  BY <1>1, <1>2, SMT
<1> HIDE DEF k, r
<1>7. ASSUME NEW b \in Int PROVE t <= b * Interval <=> AlignForward(t) <= b
  <2>1. b * Interval \in Int
    BY <1>1, SMT
  <2>2. CASE b >= k + 1
    BY <1>1, <1>2, <1>3, <1>5, <1>6, <2>1, <2>2
  <2>3. CASE b = k
    BY <1>1, <1>2, <1>3, <1>6, <2>3
  <2>4. CASE b < k
    <3>1. (k - 1) * Interval = k * Interval - Interval
      BY <1>1, <1>2, SMT
    <3>2. b * Interval <= (k - 1) * Interval
      BY <1>2, <2>4, Boundaries
    <3> QED
      BY <1>1, <1>2, <1>3, <1>6, <2>1, <2>4, <3>1, <3>2
  <2> QED
    BY <1>2, <2>2, <2>3, <2>4
<1> QED
  BY <1>2, <1>3, <1>7

LEMMA LoopInit == BackfillInit => LoopInv
<1> SUFFICES ASSUME BackfillInit PROVE LoopInv
  OBVIOUS
<1>1. Interval \in Nat \ {0} /\ LastBucket \in Nat /\ B \in Procs
  BY BackfillAssumption, TimeAssumption DEF BackfillAssumption, TimeAssumption, B
<1>2. LastBucket * Interval \in Nat /\ (LastBucket + 1) * Interval \in Nat
  BY <1>1, SMT
<1>3. from \in Nat /\ to \in Nat /\ from < to /\ to <= (LastBucket + 1) * Interval
  BY <1>2 DEF BackfillInit
<1>4. First \in Nat
  BY <1>3, AlignForwardBounds DEF First
<1>5. First * Interval \in Nat
  BY <1>1, <1>4, SMT
<1>6. pc[B] = "idle"
  BY <1>1 DEF BackfillInit, Init, ServiceInit
<1>7. /\ outcome \in {"running", "ok", "error"} /\ gaps \subseteq Buckets
      /\ cursor = First /\ processed = 0 /\ failed = 0
      /\ outcome # "running" => ~(cursor * Interval < to)
  BY DEF BackfillInit, First
<1> QED
  BY <1>3, <1>4, <1>5, <1>6, <1>7 DEF LoopInv

LEMMA LoopStep ==
    ASSUME LoopInv, CallInv, TypeInv, [BackfillNext]_allVars
    PROVE  LoopInv'
<1> USE DEF backfillVars
<1>0. CallTypes /\ DataTypes
  BY DEF TypeInv
<1>1. B \in Procs /\ pc \in [Procs -> Labels]
  BY BackfillAssumption DEF BackfillAssumption, B, CallInv
<1>2. First' = First /\ from' = from /\ to' = to
  <2>1. from' = from /\ to' = to
    BY DEF allVars, BackfillNext, BackfillStep, BackfillCall, BackfillProgress,
           BackfillReturns, BackfillEnds, BackfillCrashes, Watchers
  <2> QED
    BY <2>1 DEF First, AlignForward
<1>3. ASSUME UNCHANGED backfillVars, pc'[B] # "idle" => pc[B] # "idle"
      PROVE  LoopInv'
  BY <1>2, <1>3 DEF LoopInv
<1>4. CASE UNCHANGED allVars
  BY <1>3, <1>4 DEF allVars, vars, serviceVars, callVars
<1>5. CASE BackfillCall
  BY <1>2, <1>5 DEF BackfillCall, LoopInv
<1>6. CASE BackfillProgress
  <2>1. pc[B] # "idle"
    BY <1>0, <1>1, <1>6, CallIsOwn DEF BackfillProgress, CallProgress, B
  <2> QED
    <3>1. bucket[B] \in Buckets
      BY <1>1, <2>1 DEF TypeInv, Has
    <3>2. gaps' \subseteq Buckets
      BY <1>6, <3>1 DEF BackfillProgress, LoopInv, B
    <3> QED
      BY <1>2, <1>6, <2>1, <3>2 DEF BackfillProgress, LoopInv
<1>7. CASE BackfillReturns
  <2>1. pc[B] = "returned" /\ pc'[B] = "idle" /\ UNCHANGED <<outcome, gaps>>
    BY <1>1, <1>7 DEF BackfillReturns, Return, B
  <2>2. outcome = "running" /\ cursor * Interval < to
    BY <2>1 DEF LoopInv
  <2>3. First \in Nat
    BY AlignForwardBounds DEF LoopInv, First
  <2>4. /\ cursor' = cursor + 1
        /\ \/ processed' = processed + 1 /\ failed' = failed + 0
           \/ processed' = processed + 0 /\ failed' = failed + 1
    BY <1>7 DEF BackfillReturns, AfterCall
  <2>5. cursor' - 1 = cursor
    BY <2>3, <2>4 DEF LoopInv
  <2> QED
    BY <1>2, <2>1, <2>2, <2>3, <2>4, <2>5 DEF LoopInv
<1>8. CASE BackfillEnds
  <2>1. pc' = pc /\ cursor * Interval >= to /\ pc[B] = "idle"
    BY <1>8 DEF BackfillEnds, callVars, LoopOver, B
  <2> QED
    BY <1>2, <1>8, <2>1 DEF BackfillEnds, LoopInv
<1>9. CASE BackfillCrashes
  <2>1. UNCHANGED backfillVars /\ pc'[B] = "idle"
    BY <1>1, <1>9 DEF BackfillCrashes, Crash, B
  <2> QED
    BY <1>3, <2>1
<1>10. CASE Watchers
  <2>1. UNCHANGED backfillVars /\ pc'[B] = pc[B]
    BY <1>0, <1>10, WatchersLeaveCall DEF Watchers
  <2> QED
    BY <1>3, <2>1
<1> QED
  BY <1>4, <1>5, <1>6, <1>7, <1>8, <1>9, <1>10 DEF BackfillNext, BackfillStep

-------------------------------------------------------------------------------
(* The invariants of the watchers hold beside a backfill.                    *)

LEMMA CallInvBackfill ==
    ASSUME CallInv, Lock!TypeOK, [BackfillNext]_allVars
    PROVE  CallInv'
<1>1. CASE [Next]_vars
  BY <1>1, CallInvStep
<1>2. CASE BackfillCall
  <2>1. /\ B \in Procs /\ pc[B] = "idle" /\ UNCHANGED <<lockConn, held>>
        /\ pc' = [pc EXCEPT ![B] = IF B \in Locking THEN "connect" ELSE "official"]
    BY <1>2, BackfillAssumption
    DEF BackfillCall, Call, NextCall, lockVars, BackfillAssumption, B
  <2> QED
    BY <2>1 DEF CallInv, PcTellsLock, Labels, Busy, Executing
<1>3. CASE BackfillEnds
  BY <1>3 DEF BackfillEnds, Lock!ClosePool, callVars, CallInv, PcTellsLock
<1> QED
  BY <1>1, <1>2, <1>3, StepCases

LEMMA TypeInvBackfill ==
    ASSUME TypeInv, CallInv, LoopInv, [BackfillNext]_allVars
    PROVE  TypeInv'
<1> USE DEF tables, locals, observers, callVars
<1>1. CASE [Next]_vars
  BY <1>1, TypeInvStep
<1>2. CASE BackfillCall
  <2>1. B \in Procs /\ up[B] /\ bucket' = [bucket EXCEPT ![B] = cursor]
    BY <1>2, BackfillAssumption DEF BackfillCall, Call, BackfillAssumption, B
  <2>2. cursor \in Buckets
    <3>1. Interval \in Nat \ {0} /\ LastBucket \in Nat /\ Buckets = 0 .. LastBucket
      BY BackfillAssumption, TimeAssumption DEF BackfillAssumption, TimeAssumption
    <3>2. cursor \in Nat
      BY AlignForwardBounds DEF LoopInv, First
    <3>3. /\ cursor * Interval \in Int /\ (LastBucket + 1) * Interval \in Int
      BY <3>1, <3>2, SMT
    <3>4. cursor * Interval < (LastBucket + 1) * Interval
      BY <1>2, <3>3 DEF BackfillCall, LoopInv
    <3>5. cursor < LastBucket + 1
      BY <3>1, <3>2, <3>4, Boundaries
    <3> QED
      BY <3>1, <3>2, <3>5
  <2>3. \E l \in {"connect", "official"} : NextCall(B, l)
    BY <1>2 DEF BackfillCall, Call, B
  <2>4. CallTypes'
    BY <1>2, <2>1, <2>3, NextCallTypes DEF BackfillCall, Call, TypeInv, CallTypes, B
  <2>5. DataTypes' /\ WorldTypes'
    <3>1. UNCHANGED <<tables, official, block, deviation, sent, observers, head, now,
                      behind, setBack, last, up, incidents>>
      BY <1>2 DEF BackfillCall, Call
    <3> QED
      BY <2>1, <2>2, <3>1 DEF TypeInv, DataTypes, WorldTypes, TablesTypeOK
  <2>6. \A q \in Procs : Has(q)'
    BY <1>2, <2>1, <2>2, <2>3
    DEF BackfillCall, Call, NextCall, TypeInv, DataTypes, Has, CallInv
  <2> QED
    BY <2>4, <2>5, <2>6 DEF TypeInv
<1>3. CASE BackfillEnds
  <2>1. /\ up' = [up EXCEPT ![B] = FALSE] /\ pc[B] = "idle"
        /\ UNCHANGED <<tables, head, callVars, sent, observers, now, behind, setBack, last,
                       incidents>>
    BY <1>3 DEF BackfillEnds, B
  <2> QED
    BY <2>1 DEF TypeInv, CallTypes, DataTypes, WorldTypes, TablesTypeOK, Has
<1> QED
  BY <1>1, <1>2, <1>3, StepCases

\* What holds of every call and of the loop.
BackfillInv == CallInv /\ TypeInv /\ LoopInv

LEMMA BackfillInvariance == BackfillSpec => []BackfillInv
<1>1. BackfillInit => BackfillInv
  <2>1. BackfillInit => Init
    BY DEF BackfillInit
  <2> QED
    BY <2>1, LoopInit, CallInvInit, TypeInvInit DEF BackfillInv
<1>2. BackfillInv /\ Lock!TypeOK /\ [BackfillNext]_allVars => BackfillInv'
  <2> SUFFICES ASSUME BackfillInv, Lock!TypeOK, [BackfillNext]_allVars
               PROVE  BackfillInv'
    OBVIOUS
  <2> QED
    BY CallInvBackfill, TypeInvBackfill, LoopStep DEF BackfillInv
<1> QED
  BY <1>1, <1>2, BackfillLockHolds, PTL DEF BackfillSpec

\* The loop's variables have their types, and the loop never leaves the time
\* that the period may cover.
THEOREM BackfillTyping == BackfillSpec => []BackfillTypeOK
<1>1. BackfillInv => BackfillTypeOK
  <2> SUFFICES ASSUME LoopInv PROVE BackfillTypeOK
    BY DEF BackfillInv
  <2>1. Interval \in Nat \ {0} /\ LastBucket \in Nat
    BY BackfillAssumption, TimeAssumption DEF BackfillAssumption, TimeAssumption
  <2>2. First \in Nat /\ cursor \in Nat /\ cursor >= First
    BY AlignForwardBounds DEF LoopInv, First
  <2>3. (cursor - 1) * Interval \in Int /\ (LastBucket + 1) * Interval \in Int
    BY <2>1, <2>2, SMT
  <2>4. First <= LastBucket + 1
    <3>1. from <= (LastBucket + 1) * Interval
      BY <2>3 DEF LoopInv
    <3> QED
      BY <2>1, <3>1, AlignForwardBounds DEF LoopInv, First
  <2>5. CASE (cursor - 1) * Interval < to
    <3>1. (cursor - 1) * Interval < (LastBucket + 1) * Interval
      BY <2>3, <2>5 DEF LoopInv
    <3>2. cursor - 1 < LastBucket + 1
      BY <2>1, <2>2, <3>1, Boundaries
    <3> QED
      BY <2>1, <2>2, <3>2 DEF LoopInv, BackfillTypeOK
  <2>6. CASE cursor = First
    BY <2>1, <2>2, <2>4, <2>6 DEF LoopInv, BackfillTypeOK
  <2> QED
    BY <2>5, <2>6 DEF LoopInv
<1> QED
  BY <1>1, BackfillInvariance, PTL

\* A backfill that returned has tried each bucket of the period once, for any
\* period and interval, aligned or not.
THEOREM CoversPeriod == BackfillSpec => []PeriodCovered
<1>1. BackfillInv => PeriodCovered
  <2> SUFFICES ASSUME LoopInv, outcome # "running"
               PROVE  processed + failed = Cardinality(Period)
    BY DEF BackfillInv, PeriodCovered
  <2>1. Interval \in Nat \ {0} /\ LastBucket \in Nat /\ Buckets = 0 .. LastBucket
    BY BackfillAssumption, TimeAssumption DEF BackfillAssumption, TimeAssumption
  <2>2. First \in Nat /\ cursor \in Nat
    BY AlignForwardBounds DEF LoopInv, First
  <2>3. \A b \in Int : from <= b * Interval <=> First <= b
    BY AlignForwardBounds DEF LoopInv, First
  <2>4. ASSUME NEW b \in Int PROVE b * Interval < to /\ First <= b <=> First <= b /\ b < cursor
    <3>1. b * Interval \in Int /\ cursor * Interval \in Int /\ (cursor - 1) * Interval \in Int
      BY <2>1, <2>2, SMT
    <3>2. CASE b >= cursor
      <4>1. cursor * Interval <= b * Interval
        BY <2>2, <3>2, Boundaries
      <4> QED
        BY <2>2, <3>1, <3>2, <4>1 DEF LoopInv
    <3>3. CASE b < cursor /\ First <= b
      <4>1. cursor # First /\ b <= cursor - 1
        BY <2>2, <3>3
      <4>2. b * Interval <= (cursor - 1) * Interval
        BY <2>2, <4>1, Boundaries
      <4> QED
        BY <3>1, <3>3, <4>1, <4>2 DEF LoopInv
    <3> QED
      BY <2>2, <3>2, <3>3
  <2>5. ASSUME NEW b \in Int, b * Interval < to PROVE b <= LastBucket
    <3>1. b * Interval \in Int /\ (LastBucket + 1) * Interval \in Int
      BY <2>1, SMT
    <3>2. b * Interval < (LastBucket + 1) * Interval
      BY <2>5, <3>1 DEF LoopInv
    <3>3. b < LastBucket + 1
      BY <2>1, <3>2, Boundaries
    <3> QED
      BY <2>1, <3>3
  <2>6. Period = First .. cursor - 1
    <3>1. ASSUME NEW b \in Int PROVE b \in Period <=> b \in First .. cursor - 1
      <4>1. b \in Period <=> b \in 0 .. LastBucket /\ First <= b /\ b * Interval < to
        BY <2>1, <2>3 DEF Period
      <4>2. b \in Period <=> First <= b /\ b < cursor
        BY <2>1, <2>2, <2>4, <2>5, <4>1
      <4> QED
        BY <2>2, <4>2
    <3>2. Period \subseteq Int /\ First .. cursor - 1 \subseteq Int
      BY <2>1 DEF Period
    <3> QED
      BY <3>1, <3>2
  <2>7. Cardinality(First .. cursor - 1)
        = IF First > cursor - 1 THEN 0 ELSE cursor - 1 - First + 1
    BY <2>2, FS_Interval
  <2> QED
    BY <2>2, <2>6, <2>7 DEF LoopInv
<1> QED
  BY <1>1, BackfillInvariance, PTL

-------------------------------------------------------------------------------
(* Success means stored samples.                                             *)

Stored(b) == samples[b] # NoRow

\* What a backfill that stores has stored, save where something went wrong.
StoredInv ==
    /\ pc[B] # "idle" => bucket[B] = cursor
    /\ pc[B] \notin {"insert", "notify"}
    /\ outcome = "ok" => failed = 0
    /\ cursor \notin gaps
       => /\ clean[B]
          /\ pc[B] \in {"unlock", "returned"} /\ result[B] # "error"
             => Stored(bucket[B])
    /\ failed = 0
       => \A b \in Buckets : First <= b /\ b < cursor => Stored(b) \/ b \in gaps

\* A statement that takes effect leaves a row.
LEMMA WriteStores ==
    ASSUME TypeInv, NEW p \in Procs, WriteSample(p), pc[p] = "upsert"
    PROVE  /\ samples'[bucket[p]] # NoRow
           /\ \A b \in Buckets : Stored(b) => Stored(b)'
<1>1. deviation[p] \in Deviations /\ bucket[p] \in Buckets /\ block[p] \in Nat
  BY DEF TypeInv, Has, DataTypes
<1>2. SampleRow(deviation[p], block[p]) # NoRow
  BY <1>1, RowTypes, RowsAssumption DEF RowsAssumption
<1>3. /\ samples' = [samples EXCEPT ![bucket[p]] = SampleRow(deviation[p], block[p])]
      /\ samples \in [Buckets -> SampleRows \cup {NoRow}]
  BY DEF WriteSample, UpsertRateSample, TypeInv, WorldTypes, TablesTypeOK
<1>4. samples'[bucket[p]] # NoRow
  BY <1>1, <1>2, <1>3
<1>5. \A b \in Buckets : samples'[b] = samples[b] \/ b = bucket[p]
  BY <1>3
<1> QED
  BY <1>4, <1>5 DEF Stored

\* No step takes a row away.
LEMMA RowsStay ==
    ASSUME TypeInv, [BackfillNext]_allVars
    PROVE  \A b \in Buckets : Stored(b) => Stored(b)'
<1> USE DEF tables, work
<1>1. ASSUME UNCHANGED samples PROVE \A b \in Buckets : Stored(b) => Stored(b)'
  BY <1>1 DEF Stored
<1>2. CASE BackfillCall \/ BackfillEnds
  BY <1>1, <1>2 DEF BackfillCall, Call, BackfillEnds
<1>3. CASE AdvanceTime \/ ChainGrows \/ Environment \/ UNCHANGED vars
  BY <1>1, <1>3 DEF AdvanceTime, ChainGrows, Environment, LockEnvironment, vars,
                    serviceVars
<1>4. ASSUME NEW p \in Procs, StepHostClock(p)
      PROVE  \A b \in Buckets : Stored(b) => Stored(b)'
  BY <1>1, <1>4 DEF StepHostClock, serviceVars
<1>5. ASSUME NEW p \in Procs, Process(p)
      PROVE  \A b \in Buckets : Stored(b) => Stored(b)'
  <2>1. ASSUME CallStep(p) PROVE UNCHANGED samples \/ (pc[p] = "upsert" /\ WriteSample(p))
    BY <2>1 DEF CallStep, ConnectFails, Connect, LockGranted, LockRefused,
                TryLockFails, FetchFails, FetchOfficial, FetchHead, FetchMarket, Upsert,
                UpsertFails, RecordAlert, RecordAlertFails, Notify, NotifyFails,
                Notified, ReleaseLock, ReturnEarly, WriteAlert, InsertAlert
  <2>2. UNCHANGED samples \/ (pc[p] = "upsert" /\ WriteSample(p))
    BY <1>5, <2>1 DEF Process, Tick, Call, TickReturns, Return, CallProgress, Signal,
                      Shutdown, Crash, LateEffect, WriteAlert, InsertAlert, Restart
  <2> QED
    BY <1>1, <2>2, WriteStores
<1> QED
  BY <1>2, <1>3, <1>4, <1>5, StepCases DEF Next

\* How a call of the backfill goes on, step by step.
LEMMA ProgressStores ==
    ASSUME BackfillInv, StoredInv, Backfiller \in Storing, BackfillProgress
    PROVE  StoredInv'
<1> USE DEF work, locals, observers, NextCall
<1>1. /\ B \in Procs /\ B \notin Alerting
      /\ B \in Storing
      /\ pc \in [Procs -> Labels] /\ clean \in [Procs -> BOOLEAN]
      /\ result \in [Procs -> {"none", "ok", "error"}]
  BY BackfillAssumption
  DEF BackfillAssumption, B, BackfillInv, CallInv, TypeInv, CallTypes, DataTypes
<1>2. CallStep(B) /\ bucket' = bucket /\ pc[B] # "idle"
  BY <1>1, CallIsOwn DEF BackfillProgress, CallProgress, B, BackfillInv, TypeInv
<1>3. \A b \in Buckets : Stored(b) => Stored(b)'
  BY RowsStay DEF BackfillNext, BackfillStep, BackfillInv
<1>4. /\ UNCHANGED <<from, to, cursor, processed, failed, outcome>> /\ First' = First
      /\ bucket[B] = cursor /\ gaps \subseteq gaps'
      /\ cursor \notin gaps'
         => cursor \notin gaps /\ ~LockRefused(B) /\ (clean[B] => clean'[B])
  BY <1>2 DEF BackfillProgress, B, First, AlignForward, StoredInv
<1>5. bucket[B] \in Buckets
  BY <1>1, <1>2 DEF BackfillInv, TypeInv, Has
<1>6. ASSUME pc'[B] \notin {"insert", "notify"},
             cursor \notin gaps' /\ pc'[B] \in {"unlock", "returned"} /\ result'[B] # "error"
             => Stored(bucket[B])'
      PROVE  StoredInv'
  BY <1>2, <1>3, <1>4, <1>6 DEF StoredInv, Stored
<1>7. CASE ConnectFails(B) \/ TryLockFails(B)
  BY <1>1, <1>6, <1>7 DEF ConnectFails, TryLockFails, ReturnEarly
<1>8. CASE Connect(B) \/ LockGranted(B)
  BY <1>1, <1>6, <1>8 DEF Connect, LockGranted
<1>9. CASE LockRefused(B)
  BY <1>1, <1>4, <1>6, <1>9 DEF LockRefused, ReturnEarly
<1>10. CASE FetchFails(B)
  BY <1>1, <1>6, <1>10 DEF FetchFails, Finish
<1>11. CASE FetchOfficial(B) \/ FetchHead(B) \/ FetchMarket(B)
  <2>1. pc'[B] \in {"head", "market", "upsert"}
    BY <1>1, <1>11 DEF FetchOfficial, FetchHead, FetchMarket
  <2> QED
    BY <1>6, <2>1
<1>12. CASE Upsert(B) \/ UpsertFails(B)
  <2>1. Evaluate(B, deviation[B])
    BY <1>12 DEF Upsert, UpsertFails
  <2>2. Finish(B, "ok")
    BY <1>1, <2>1 DEF Evaluate, Count
  <2>3. pc'[B] \notin {"insert", "notify"}
    BY <1>1, <2>2 DEF Finish
  <2>4. cursor \notin gaps' => Stored(bucket[B])'
    <3>1. CASE Upsert(B)
      BY <1>1, <1>2, <3>1, WriteStores DEF Upsert, BackfillInv, Stored
    <3>2. CASE UpsertFails(B)
      BY <1>1, <1>4, <3>2 DEF UpsertFails, StoredInv
    <3> QED
      BY <1>12, <3>1, <3>2
  <2> QED
    BY <1>6, <2>3, <2>4
<1>13. CASE RecordAlert(B) \/ RecordAlertFails(B) \/ Notify(B) \/ NotifyFails(B)
  BY <1>13 DEF RecordAlert, RecordAlertFails, Notify, NotifyFails, Notified, StoredInv
<1>14. CASE ReleaseLock(B)
  <2>1. pc[B] = "unlock" /\ pc'[B] = "returned" /\ result' = result
    BY <1>1, <1>14 DEF ReleaseLock
  <2>2. cursor \notin gaps' /\ result'[B] # "error" => Stored(bucket[B])
    BY <1>4, <2>1 DEF StoredInv
  <2> QED
    BY <1>3, <1>2, <1>5, <1>6, <2>1, <2>2 DEF Stored
<1> QED
  BY <1>2, <1>7, <1>8, <1>9, <1>10, <1>11, <1>12, <1>13, <1>14 DEF CallStep

LEMMA StoredStep ==
    ASSUME BackfillInv, StoredInv, Backfiller \in Storing, [BackfillNext]_allVars
    PROVE  StoredInv'
<1> USE DEF backfillVars
<1>1. /\ B \in Procs /\ pc \in [Procs -> Labels]
      /\ bucket \in [Procs -> Buckets \cup {NoBucket}]
      /\ clean \in [Procs -> BOOLEAN]
  BY BackfillAssumption
  DEF BackfillAssumption, B, BackfillInv, CallInv, TypeInv, DataTypes
<1>2. \A b \in Buckets : Stored(b) => Stored(b)'
  BY RowsStay DEF BackfillInv
<1>3. First' = First
  <2>1. from' = from
    BY DEF allVars, BackfillNext, BackfillStep, BackfillCall, BackfillProgress,
           BackfillReturns, BackfillEnds, BackfillCrashes, Watchers
  <2> QED
    BY <2>1 DEF First, AlignForward
<1>4. pc[B] # "idle" => bucket[B] \in Buckets
  BY <1>1 DEF BackfillInv, TypeInv, Has
<1>5. ASSUME UNCHANGED backfillVars,
             \/ pc'[B] = "idle" /\ clean'[B]
             \/ /\ pc'[B] = pc[B] /\ bucket'[B] = bucket[B]
                /\ result'[B] = result[B] /\ clean'[B] = clean[B]
      PROVE  StoredInv'
  <2>1. CASE pc'[B] = "idle" /\ clean'[B]
    BY <1>2, <1>3, <1>5, <2>1 DEF StoredInv
  <2>2. CASE /\ pc'[B] = pc[B] /\ bucket'[B] = bucket[B]
             /\ result'[B] = result[B] /\ clean'[B] = clean[B]
    BY <1>2, <1>3, <1>4, <1>5, <2>2 DEF StoredInv, Stored
  <2> QED
    BY <1>5, <2>1, <2>2
<1>6. CASE UNCHANGED allVars
  BY <1>5, <1>6 DEF allVars, vars, serviceVars, callVars, locals, observers
<1>7. CASE BackfillCall
  <2>1. /\ bucket' = [bucket EXCEPT ![B] = cursor]
        /\ \E l \in {"connect", "official"} : pc' = [pc EXCEPT ![B] = l]
        /\ UNCHANGED <<backfillVars, samples, clean>>
    BY <1>7 DEF BackfillCall, Call, NextCall, B, tables, observers
  <2> QED
    BY <1>1, <1>3, <2>1 DEF StoredInv, Stored
<1>8. CASE BackfillProgress
  BY <1>8, ProgressStores
<1>9. CASE BackfillReturns
  <2>1. /\ pc[B] = "returned" /\ pc'[B] = "idle" /\ clean'[B]
        /\ outcome' = outcome /\ gaps' = gaps
    BY <1>1, <1>9 DEF BackfillReturns, Return, ForgetLocals, B
  <2>2. outcome = "running" /\ First \in Nat /\ failed \in Nat /\ processed \in Nat
    BY <2>1, AlignForwardBounds DEF BackfillInv, LoopInv, First
  <2>3. /\ cursor' = cursor + 1
        /\ failed' = 0 => failed = 0 /\ result[B] # "error"
    BY <1>9, <2>2 DEF BackfillReturns, AfterCall, B
  <2>4. cursor \in Nat /\ bucket[B] = cursor
    BY <2>1, <2>2 DEF BackfillInv, LoopInv, StoredInv
  <2>5. ASSUME failed' = 0, NEW b \in Buckets, b \notin gaps, First <= b, b < cursor'
        PROVE  Stored(b)'
    <3>1. CASE b = cursor
      BY <1>2, <2>1, <2>3, <2>4, <2>5, <3>1 DEF StoredInv
    <3>2. CASE b # cursor
      <4>1. b < cursor
        BY <2>3, <2>4, <2>5, <3>2, TimeAssumption DEF TimeAssumption
      <4> QED
        BY <1>2, <2>3, <2>5, <4>1 DEF StoredInv
    <3> QED
      BY <3>1, <3>2
  <2> QED
    BY <1>3, <2>1, <2>2, <2>5 DEF StoredInv
<1>10. CASE BackfillEnds
  <2>1. /\ UNCHANGED <<samples, pc, bucket, result, clean, cursor, failed, gaps>>
        /\ outcome' = "ok" => ~(failed > 0)
    BY <1>10 DEF BackfillEnds, tables, callVars, locals, observers
  <2>2. failed \in Nat
    BY DEF BackfillInv, LoopInv
  <2> QED
    BY <1>3, <2>1, <2>2 DEF StoredInv, Stored
<1>11. CASE BackfillCrashes
  <2>1. pc'[B] = "idle" /\ clean'[B] /\ UNCHANGED backfillVars
    BY <1>1, <1>11 DEF BackfillCrashes, Crash, ForgetLocals, B
  <2> QED
    BY <1>5, <2>1
<1>12. CASE Watchers
  BY <1>5, <1>12, WatchersLeaveCall DEF Watchers, BackfillInv, TypeInv
<1> QED
  BY <1>6, <1>7, <1>8, <1>9, <1>10, <1>11, <1>12 DEF BackfillNext, BackfillStep

\* If Backfill returns nil, every bucket of the period has a sample, whatever
\* the watchers do in the meantime, but for those whose call found the lock
\* taken or had a statement that failed.
THEOREM SuccessMeansStored == BackfillSpec => []SuccessIsStored
<1>1. CASE Backfiller \in Storing
  <2>1. BackfillInit => StoredInv
    <3> SUFFICES ASSUME BackfillInit PROVE StoredInv
      OBVIOUS
    <3>1. B \in Procs
      BY BackfillAssumption DEF BackfillAssumption, B
    <3>2. First \in Nat /\ Buckets \subseteq Int
      BY LoopInit, AlignForwardBounds, BucketsAssumption
      DEF LoopInv, First, BucketsAssumption
    <3>3. pc[B] = "idle" /\ clean[B] /\ cursor = First /\ outcome # "ok"
      BY <3>1 DEF BackfillInit, Init, ServiceInit, First
    <3>4. \A b \in Buckets : ~(First <= b /\ b < cursor)
      BY <3>2, <3>3
    <3> QED
      BY <3>3, <3>4 DEF StoredInv
  <2>2. BackfillInv /\ StoredInv /\ [BackfillNext]_allVars => StoredInv'
    BY <1>1, StoredStep
  <2>3. BackfillInv /\ StoredInv => SuccessIsStored
    <3> SUFFICES ASSUME BackfillInv, StoredInv, outcome = "ok",
                        NEW b \in Buckets, from <= b * Interval, b * Interval < to,
                        b \notin gaps
                 PROVE  samples[b] # NoRow
      BY DEF SuccessIsStored, Period
    <3>1. Interval \in Nat \ {0} /\ b \in Int
      BY BackfillAssumption, BucketsAssumption DEF BackfillAssumption, BucketsAssumption
    <3>2. First \in Nat /\ cursor \in Nat /\ First <= b
      BY <3>1, AlignForwardBounds DEF BackfillInv, LoopInv, First
    <3>3. b * Interval \in Int /\ cursor * Interval \in Int
      BY <3>1, <3>2, SMT
    <3>4. b * Interval < cursor * Interval
      BY <3>2, <3>3 DEF BackfillInv, LoopInv
    <3>5. b < cursor
      BY <3>1, <3>2, <3>4, Boundaries
    <3> QED
      BY <3>2, <3>5 DEF StoredInv, Stored
  <2> QED
    BY <2>1, <2>2, <2>3, BackfillInvariance, PTL DEF BackfillSpec
<1>2. CASE Backfiller \notin Storing
  <2>1. SuccessIsStored
    BY <1>2 DEF SuccessIsStored
  <2> QED
    BY <2>1, PTL
<1> QED
  BY <1>1, <1>2

-------------------------------------------------------------------------------
(* A backfill replaces no newer sample.                                      *)

LEMMA RecordBackfill ==
    ASSUME Storing \subseteq Locking, RecordInv, ExecutionExclusive, BackfillInv,
           Lock!TypeOK, [BackfillNext]_allVars
    PROVE  RecordInv'
<1> USE DEF tables, locals, observers, lockVars, callVars
<1>1. CallInv /\ TypeInv /\ DataTypes /\ B \in Procs /\ pc \in [Procs -> Labels]
  BY BackfillAssumption DEF BackfillInv, TypeInv, CallInv, BackfillAssumption, B
<1>2. CASE [Next]_vars
  BY <1>1, <1>2, RecordStep
<1>3. CASE BackfillCall
  <2>1. /\ \E l \in {"connect", "official"} : pc' = [pc EXCEPT ![B] = l]
        /\ UNCHANGED <<tables, lost, sessionLosses, deviation, block, overtaken, clean>>
        /\ \A q \in Procs \ {B} : bucket'[q] = bucket[q]
    BY <1>1, <1>3 DEF BackfillCall, Call, NextCall, DataTypes, B
  <2> QED
    BY <1>1, <2>1, RecordMoves
<1>4. CASE BackfillEnds
  BY <1>4 DEF BackfillEnds, Lock!ClosePool, RecordInv, OnRecord, SampleRow, Rounded,
              Units, AlertRow, Direction
<1> QED
  BY <1>2, <1>3, <1>4, StepCases

LEMMA RecordsKept ==
    ASSUME Storing \subseteq Locking
    PROVE  BackfillSpec => []RecordInv
<1>1. BackfillInit => RecordInv
  BY RecordInit DEF BackfillInit
<1>2. BackfillInv /\ Lock!TypeOK /\ Lock!MutualExclusion => ExecutionExclusive
  BY Exclusive DEF BackfillInv
<1>3. RecordInv /\ ExecutionExclusive /\ BackfillInv /\ Lock!TypeOK /\ [BackfillNext]_allVars
      => RecordInv'
  BY RecordBackfill
<1> QED
  BY <1>1, <1>2, <1>3, BackfillInvariance, BackfillLockHolds, PTL DEF BackfillSpec

\* Beside a backfill, too, every sample is newer than the one it replaces,
\* unless a session was lost.
THEOREM BackfillKeepsNewer ==
    ASSUME Storing \subseteq Locking
    PROVE  BackfillSpec => NoStaleOverwrite
<1>1. RecordInv /\ Lock!TypeOK
      => [\A p \in Locking :
            pc[p] = "upsert" /\ pc'[p] # "upsert" /\ samples' # samples
            => ~overtaken[p] \/ sessionLosses > 0]_vars
  BY NotOvertaken
<1> QED
  BY <1>1, RecordsKept, BackfillLockHolds, PTL DEF NoStaleOverwrite

\* Whoever is told of a breach finds it on record, although a backfill may
\* replace the sample: not while the watcher that tells of it holds the lock.
THEOREM BackfillKeepsRecord ==
    ASSUME Storing \subseteq Locking
    PROVE  BackfillSpec => []NotificationIsOnRecord
<1>1. RecordInv => NotificationIsOnRecord
  BY DEF RecordInv, OnRecord, NotificationIsOnRecord
<1> QED
  BY <1>1, RecordsKept, PTL

-------------------------------------------------------------------------------
(* A backfill takes its turn like a watcher, and leaves their alerts alone.  *)

\* What the beginning of a call does, and the end of the loop.
LEMMA LoopMoves ==
    ASSUME BackfillInv, BackfillCall \/ BackfillEnds
    PROVE  /\ B \in Procs /\ B \notin Alerting /\ pc[B] = "idle"
           /\ \E l \in {"idle", "connect", "official"} : pc' = [pc EXCEPT ![B] = l]
           /\ \A p \in Procs : (up'[p] => up[p]) /\ (p # B => bucket'[p] = bucket[p])
           /\ UNCHANGED <<tables, head, now, behind, setBack, last, sent, breaches, block,
                          deviation, rateBlock, previous>>
<1> USE DEF callVars, locals, observers
<1>1. /\ B \in Procs /\ B \notin Alerting /\ pc \in [Procs -> Labels]
      /\ up \in [Procs -> BOOLEAN]
      /\ bucket \in [Procs -> Buckets \cup {NoBucket}]
  BY BackfillAssumption
  DEF BackfillAssumption, B, BackfillInv, CallInv, TypeInv, WorldTypes, DataTypes
<1>2. CASE BackfillCall
  <2>1. /\ pc[B] = "idle" /\ bucket' = [bucket EXCEPT ![B] = cursor]
        /\ \E l \in {"connect", "official"} : pc' = [pc EXCEPT ![B] = l]
        /\ UNCHANGED <<tables, head, now, behind, setBack, last, up, sent, breaches, block,
                       deviation, rateBlock, previous>>
    BY <1>2 DEF BackfillCall, Call, NextCall, B
  <2> QED
    BY <1>1, <2>1
<1>3. CASE BackfillEnds
  <2>1. /\ pc[B] = "idle" /\ UNCHANGED <<pc, bucket>> /\ up' = [up EXCEPT ![B] = FALSE]
        /\ UNCHANGED <<tables, head, now, behind, setBack, last, sent, breaches, block,
                       deviation, rateBlock, previous>>
    BY <1>3 DEF BackfillEnds, B
  <2>2. pc' = [pc EXCEPT ![B] = "idle"]
    BY <1>1, <2>1
  <2> QED
    BY <1>1, <2>1, <2>2
<1> QED
  BY <1>2, <1>3

\* So each of the watchers' invariants is kept.
LEMMA AlertsBackfill ==
    ASSUME BackfillInv, [BackfillNext]_allVars
    PROVE  /\ OnceInv => OnceInv'
           /\ BlockInv => BlockInv'
           /\ CountInv => CountInv'
           /\ CountInv /\ AlertRowsShowBreach => AlertRowsShowBreach'
           /\ CountInv => [\A p \in Alerting \cap Storing : Raised(p)]_vars
<1>1. TypeInv /\ CallInv /\ pc \in [Procs -> Labels]
  BY DEF BackfillInv, CallInv
<1>2. CASE [Next]_vars
  BY <1>1, <1>2, OnceStep, BlockStep, CountStep, RecordsStep, RaisedInTime
<1>3. CASE BackfillCall \/ BackfillEnds
  <2>1. PICK l \in {"idle", "connect", "official"} : pc' = [pc EXCEPT ![B] = l]
    BY <1>3, LoopMoves
  <2>2. /\ B \in Procs /\ B \notin Alerting /\ pc[B] = "idle"
        /\ pc'[B] = l /\ \A p \in Procs \ {B} : pc'[p] = pc[p] /\ bucket'[p] = bucket[p]
        /\ \A p \in Procs : up'[p] => up[p]
        /\ UNCHANGED <<samples, alerts, head, now, behind, setBack, last, sent, breaches,
                       block, deviation, rateBlock, previous>>
    BY <1>1, <1>3, <2>1, LoopMoves DEF tables
  <2>3. ASSUME OnceInv PROVE OnceInv'
    BY <2>1, <2>2, <2>3 DEF OnceInv, Untold, Busy, Executing, HostBucket
  <2>4. ASSUME BlockInv PROVE BlockInv'
    BY <2>1, <2>2, <2>4, BlockMoves DEF Naming
  <2>5. ASSUME CountInv PROVE CountInv'
    <3>1. \A p \in Procs : Evaluated(p)' = Evaluated(p)
      BY <2>1, <2>2 DEF Evaluated
    <3> QED
      BY <2>1, <2>2, <2>5, <3>1 DEF CountInv, Breach, Magnitude
  <2>6. ASSUME AlertRowsShowBreach PROVE AlertRowsShowBreach'
    BY <2>2, <2>6 DEF AlertRowsShowBreach
  <2>7. \A p \in Alerting \cap Storing : Raised(p)
    <3>1. Alerting \subseteq Procs
      BY RolesAssumption DEF RolesAssumption
    <3> QED
      BY <2>2, <3>1 DEF Raised
  <2> QED
    BY <2>3, <2>4, <2>5, <2>6, <2>7
<1> QED
  BY <1>2, <1>3, StepCases

LEMMA AlertsInvariance ==
    BackfillSpec => [](OnceInv /\ BlockInv /\ CountInv /\ AlertRowsShowBreach)
<1>1. Init => OnceInv /\ BlockInv /\ CountInv /\ AlertRowsShowBreach
  BY OnceInit, BlockInit, CountInit, RowsInit
<1>2. BackfillInit => Init
  BY DEF BackfillInit
<1>3. /\ OnceInv /\ BlockInv /\ CountInv /\ AlertRowsShowBreach
      /\ BackfillInv /\ [BackfillNext]_allVars
      => (OnceInv /\ BlockInv /\ CountInv /\ AlertRowsShowBreach)'
  BY AlertsBackfill
<1> QED
  BY <1>1, <1>2, <1>3, BackfillInvariance, PTL DEF BackfillSpec

\* Calls, callers and tables are type correct beside a backfill.
THEOREM BesideTyping == BackfillSpec => []TypeOK
<1>1. BackfillInv /\ Lock!TypeOK => TypeOK
  BY DEF BackfillInv, TypeInv, CallTypes, DataTypes, WorldTypes, CallInv, Labels, TypeOK
<1> QED
  BY <1>1, BackfillInvariance, BackfillLockHolds, PTL

\* Watchers and backfill together use the lock as AdvisoryLock has it.
THEOREM BesideFollowsProtocol == BackfillSpec => LockProtocol
<1>1. BackfillInit => Lock!Init
  BY DEF BackfillInit, Init, ServiceInit
<1> QED
  BY <1>1, BackfillUsesLock, PTL DEF BackfillSpec, LockProtocol, Lock!Spec

\* A bucket is executed by one process at a time, the backfill included.
THEOREM BesideExclusive == BackfillSpec => []ExecutionExclusive
<1>1. BackfillInv /\ Lock!TypeOK /\ Lock!MutualExclusion => ExecutionExclusive
  BY Exclusive DEF BackfillInv
<1> QED
  BY <1>1, BackfillInvariance, BackfillLockHolds, PTL

\* Between two buckets of the loop, too, the lock's connection is back in the
\* pool.
THEOREM BesideConnReturned == BackfillSpec => []ConnReturned
<1>1. BackfillInv => ConnReturned
  BY DEF BackfillInv, CallInv, PcTellsLock, ConnReturned
<1> QED
  BY <1>1, BackfillInvariance, PTL

\* No host whose clock is never set back tells of a bucket twice, and the
\* backfill, which may visit what a watcher has told of, tells of none.
THEOREM BesideToldOnce == BackfillSpec => []NotifiedOncePerHost
<1>1. OnceInv => NotifiedOncePerHost
  BY DEF OnceInv, NotifiedOncePerHost, Untold, Busy, Executing
<1> QED
  BY <1>1, AlertsInvariance, PTL

\* A backfilled sample names a block of the time it is fetched.
THEOREM BesideBlockNamed == BackfillSpec => []SampleNamesItsBlock
<1>1. BlockInv => SampleNamesItsBlock
  BY DEF BlockInv, SampleNamesItsBlock, Naming
<1> QED
  BY <1>1, AlertsInvariance, PTL

\* What a backfill stores neither raises an alert nor confirms or clears a
\* watcher's breach.
THEOREM BesideConfirmed == BackfillSpec => AlertConfirmed
<1>1. BackfillInv /\ CountInv /\ [BackfillNext]_allVars
      => [\A p \in Alerting \cap Storing : Raised(p)]_vars
  BY AlertsBackfill
<1> QED
  BY <1>1, BackfillInvariance, AlertsInvariance, PTL DEF BackfillSpec, AlertConfirmed, Raised

\* The alerts table shows nothing but breaches beside a backfill.
THEOREM BesideShowsBreach == BackfillSpec => []AlertRowsShowBreach
BY AlertsInvariance, PTL
===============================================================================
