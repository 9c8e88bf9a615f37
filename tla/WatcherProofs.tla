----------------------------- MODULE WatcherProofs -----------------------------
(***************************************************************************)
(* Proofs about Watcher, for any processes, buckets, pools and bounds: the *)
(* watchers use the advisory lock as AdvisoryLock has it, so that what is  *)
(* proved of the lock holds of the program, and a bucket is executed by    *)
(* one process at a time; and everything keeps to its type.                *)
(***************************************************************************)
EXTENDS Watcher, TLAPS

\* A step of a call is a step of the lock or leaves the lock alone.
LEMMA CallStepIsLockStep ==
    ASSUME NEW p \in Procs, CallStep(p)
    PROVE  Lock!Step(p) \/ UNCHANGED lockVars
<1> USE DEF lockVars
<1>1. CASE \/ ConnectFails(p) \/ FetchFails(p)
           \/ FetchOfficial(p) \/ FetchHead(p) \/ FetchMarket(p)
  BY <1>1 DEF ConnectFails, FetchFails, FetchOfficial, FetchHead, FetchMarket
<1>2. CASE Upsert(p) \/ UpsertFails(p)
  BY <1>2 DEF Upsert, UpsertFails
<1>3. CASE RecordAlert(p) \/ RecordAlertFails(p)
  BY <1>3 DEF RecordAlert, RecordAlertFails
<1>4. CASE Notify(p) \/ NotifyFails(p)
  BY <1>4 DEF Notify, NotifyFails, Notified
<1>5. CASE Connect(p)
  BY <1>5 DEF Connect, Lock!Step
<1>6. CASE LockGranted(p) \/ LockRefused(p) \/ TryLockFails(p)
  BY <1>6 DEF LockGranted, LockRefused, TryLockFails, Lock!Step, Lock!Answer
<1>7. CASE ReleaseLock(p)
  BY <1>7 DEF ReleaseLock, Lock!Step
<1> QED
  BY <1>1, <1>2, <1>3, <1>4, <1>5, <1>6, <1>7 DEF CallStep

\* Every step of the watchers is a step of the lock or leaves it alone.
LEMMA StepIsLockStep == [Next]_vars => [Lock!Next]_(Lock!vars)
<1> USE DEF lockVars, Lock!vars
<1> SUFFICES ASSUME Next PROVE Lock!Next \/ UNCHANGED lockVars
  BY DEF vars, serviceVars
<1>1. CASE AdvanceTime \/ ChainGrows
  BY <1>1 DEF AdvanceTime, ChainGrows, serviceVars
<1>2. CASE Environment
  BY <1>2 DEF Environment, LockEnvironment, Lock!Next, Lock!Step
<1>3. ASSUME NEW p \in Procs, Process(p) PROVE Lock!Next \/ UNCHANGED lockVars
  <2>1. CASE Tick(p)
    BY <2>1 DEF Tick, Call
  <2>2. CASE TickReturns(p)
    BY <2>2 DEF TickReturns, Return
  <2>3. CASE CallProgress(p)
    BY <2>3, CallStepIsLockStep DEF CallProgress, Lock!Next
  <2>4. CASE Signal(p) \/ Restart(p)
    BY <2>4 DEF Signal, Restart
  <2>5. CASE Shutdown(p) \/ Crash(p)
    BY <2>5 DEF Shutdown, Crash, Lock!Next, Lock!Step
  <2> QED
    BY <1>3, <2>1, <2>2, <2>3, <2>4, <2>5 DEF Process
<1>4. ASSUME NEW p \in Procs, StepHostClock(p) PROVE UNCHANGED lockVars
  BY <1>4 DEF StepHostClock, serviceVars
<1> QED
  BY <1>1, <1>2, <1>3, <1>4 DEF Next

\* The watchers, their crashes, signals and restarts included, use the lock
\* only in the ways AdvisoryLock allows.
THEOREM FollowsLockProtocol == Spec => LockProtocol
<1>1. Init => Lock!Init
  BY DEF Init, ServiceInit
<1> QED
  BY <1>1, StepIsLockStep, PTL DEF Spec, LockProtocol, Lock!Spec

-------------------------------------------------------------------------------
(* What AdvisoryLockProofs proves of the lock holds of the watchers.         *)

LP == INSTANCE AdvisoryLockProofs

\* LP's lock is the lock of Service, definition by definition.
LEMMA SameLockStep ==
    ASSUME NEW p \in Procs, Lock!Step(p)
    PROVE  LP!Step(p)
<1> USE DEF Lock!Trying, LP!Trying, Lock!Session, LP!Session, Lock!Holding,
            LP!Holding, Lock!ReleaseConn, LP!ReleaseConn
<1>1. Lock!AcquireConn(p) => LP!AcquireConn(p)
  BY DEF Lock!AcquireConn, LP!AcquireConn
<1>2. Lock!Answer(p) => LP!Answer(p)
  BY DEF Lock!Answer, LP!Answer, Lock!Grant, LP!Grant, Lock!Refuse, LP!Refuse,
         Lock!TryFails, LP!TryFails
<1>3. Lock!UnlockReturns(p) => LP!UnlockReturns(p)
  BY DEF Lock!UnlockReturns, LP!UnlockReturns, Lock!Unlock, LP!Unlock,
         Lock!UnlockTimesOut, LP!UnlockTimesOut, Lock!UnlockRejected,
         LP!UnlockRejected, Lock!UnlockAfterLoss, LP!UnlockAfterLoss
<1>4. Lock!LoseSession(p) => LP!LoseSession(p)
  BY DEF Lock!LoseSession, LP!LoseSession
<1>5. Lock!ClosePool(p) => LP!ClosePool(p)
  BY DEF Lock!ClosePool, LP!ClosePool
<1>6. Lock!Die(p) => LP!Die(p)
  BY DEF Lock!Die, LP!Die
<1>7. ASSUME NEW c \in Conns, Lock!RetireConn(p, c) PROVE LP!RetireConn(p, c)
  BY <1>7 DEF Lock!RetireConn, LP!RetireConn
<1> QED
  BY <1>1, <1>2, <1>3, <1>4, <1>5, <1>6, <1>7 DEF Lock!Step, LP!Step

\* The lock is typed and excludes, also as the watchers use it.
LEMMA LockHolds == Spec => [](Lock!TypeOK /\ Lock!MutualExclusion)
<1>1. Init => LP!Init
  BY DEF Init, ServiceInit, Lock!Init, LP!Init
<1>2. [Lock!Next]_(Lock!vars) => [LP!Next]_(LP!vars)
  BY SameLockStep DEF Lock!Next, LP!Next, Lock!vars, LP!vars,
                      Lock!ReapOrphan, LP!ReapOrphan
<1>3. Spec => LP!Spec
  BY <1>1, <1>2, StepIsLockStep, PTL DEF Spec, LP!Spec
<1>4. LP!Spec => [](LP!TypeOK /\ LP!MutualExclusion)
  BY LP!Typing, LP!Exclusion, LockAssumption, PTL
  DEF LockAssumption
<1>5. LP!TypeOK /\ LP!MutualExclusion => Lock!TypeOK /\ Lock!MutualExclusion
  BY DEF LP!TypeOK, Lock!TypeOK, LP!MutualExclusion, Lock!MutualExclusion,
         LP!Holding, Lock!Holding
<1> QED
  BY <1>3, <1>4, <1>5, PTL

-------------------------------------------------------------------------------
(* Where a call is tells what it has of the lock.                            *)

Labels == Busy \cup {"idle", "returned"}

\* The label with which executeBucket ends.
Ended(p) == IF p \in Locking THEN "unlock" ELSE "returned"

PcTellsLock(p) ==
    /\ pc[p] \in {"idle", "returned", "connect"} => lockConn[p] = NoConn /\ ~held[p]
    /\ p \in Locking /\ pc[p] \in Executing \cup {"unlock"} => held[p]
    /\ p \notin Locking => /\ pc[p] \notin {"connect", "trylock", "unlock"}
                           /\ lockConn[p] = NoConn /\ ~held[p]

CallInv ==
    /\ pc \in [Procs -> Labels]
    /\ \A p \in Procs : PcTellsLock(p)

\* A move of the program counter that leaves the lock alone.
Moves(p, l) == pc' = [pc EXCEPT ![p] = l] /\ UNCHANGED <<lockConn, held>>

\* Evaluate goes on to the alert or ends the call.
LEMMA EvaluateMoves ==
    ASSUME NEW p \in Procs, NEW d, Evaluate(p, d), UNCHANGED <<lockConn, held>>
    PROVE  \E l \in {"insert", "notify", Ended(p)} : Moves(p, l)
BY DEF Evaluate, Finish, NextCall, Ended, Moves

\* Inside executeBucket every label leads to one of executeBucket's or ends it.
LEMMA MovesKeep ==
    ASSUME CallInv, Lock!TypeOK, NEW p \in Procs, pc[p] \in Executing,
           NEW l \in Executing \cup {Ended(p)}, Moves(p, l)
    PROVE  CallInv'
<1>1. pc' \in [Procs -> Labels]
  BY DEF Moves, CallInv, Labels, Busy, Executing, Ended
<1>2. CASE p \in Locking
  BY <1>1, <1>2 DEF Moves, CallInv, PcTellsLock, Executing, Ended
<1>3. CASE p \notin Locking
  BY <1>1, <1>3 DEF Moves, CallInv, PcTellsLock, Executing, Ended
<1> QED
  BY <1>2, <1>3

\* A step of a call keeps the program counter and the lock in agreement.
LEMMA CallStepKeeps ==
    ASSUME CallInv, Lock!TypeOK, NEW p \in Procs, CallStep(p)
    PROVE  CallInv'
<1> USE DEF lockVars, Executing
<1>1. CASE ConnectFails(p)
  BY <1>1 DEF ConnectFails, ReturnEarly, NextCall, CallInv, PcTellsLock, Labels,
              Busy
<1>2. CASE Connect(p)
  BY <1>2 DEF Connect, Lock!AcquireConn, NextCall, CallInv, PcTellsLock, Labels,
              Busy, Lock!TypeOK
<1>3. CASE LockGranted(p)
  BY <1>3 DEF LockGranted, Lock!Grant, NextCall, CallInv, PcTellsLock, Labels,
              Busy, Lock!TypeOK
<1>4. CASE LockRefused(p)
  BY <1>4 DEF LockRefused, ReturnEarly, Lock!Refuse, Lock!Trying, NextCall,
              CallInv, PcTellsLock, Labels, Busy, Lock!TypeOK
<1>5. CASE TryLockFails(p)
  BY <1>5 DEF TryLockFails, ReturnEarly, Lock!TryFails, Lock!Trying, NextCall,
              CallInv, PcTellsLock, Labels, Busy, Lock!TypeOK
<1>6. CASE FetchFails(p)
  <2>1. pc[p] \in Executing /\ Moves(p, Ended(p))
    BY <1>6 DEF FetchFails, Finish, NextCall, Moves, Ended
  <2> QED
    BY <2>1, MovesKeep
<1>7. CASE FetchOfficial(p) \/ FetchHead(p)
  <2>1. pc[p] \in Executing /\ \E l \in {"head", "market"} : Moves(p, l)
    BY <1>7 DEF FetchOfficial, FetchHead, NextCall, Moves
  <2> QED
    BY <2>1, MovesKeep
<1>8. CASE FetchMarket(p)
  <2>1. pc[p] \in Executing
    BY <1>8 DEF FetchMarket
  <2>2. PICK r \in MarketReplies :
          IF p \in Storing
          THEN NextCall(p, "upsert") /\ UNCHANGED <<breaches, result>>
          ELSE Evaluate(p, Deviation(official[p], r.buy))
    BY <1>8 DEF FetchMarket
  <2>3. UNCHANGED <<lockConn, held>>
    BY <1>8 DEF FetchMarket
  <2>4. CASE p \in Storing
    <3>1. Moves(p, "upsert")
      BY <2>2, <2>3, <2>4 DEF NextCall, Moves
    <3> QED
      BY <2>1, <3>1, MovesKeep
  <2>5. CASE p \notin Storing
    <3>1. Evaluate(p, Deviation(official[p], r.buy))
      BY <2>2, <2>5
    <3>2. \E l \in {"insert", "notify", Ended(p)} : Moves(p, l)
      BY <2>3, <3>1, EvaluateMoves
    <3> QED
      BY <2>1, <3>2, MovesKeep
  <2> QED
    BY <2>4, <2>5
<1>9. CASE Upsert(p) \/ UpsertFails(p)
  <2>1. pc[p] \in Executing
    BY <1>9 DEF Upsert, UpsertFails
  <2>2. Evaluate(p, deviation[p]) /\ UNCHANGED <<lockConn, held>>
    BY <1>9 DEF Upsert, UpsertFails
  <2>3. \E l \in {"insert", "notify", Ended(p)} : Moves(p, l)
    BY <2>2, EvaluateMoves
  <2> QED
    BY <2>1, <2>3, MovesKeep
<1>10. CASE RecordAlert(p) \/ RecordAlertFails(p)
  <2>1. pc[p] \in Executing /\ Moves(p, "notify")
    BY <1>10 DEF RecordAlert, RecordAlertFails, NextCall, Moves
  <2> QED
    BY <2>1, MovesKeep
<1>11. CASE Notify(p) \/ NotifyFails(p)
  <2>1. pc[p] \in Executing /\ Moves(p, Ended(p))
    BY <1>11 DEF Notify, NotifyFails, Notified, Finish, NextCall, Moves, Ended
  <2> QED
    BY <2>1, MovesKeep
<1>12. CASE ReleaseLock(p)
  <2>1. /\ pc[p] = "unlock"
        /\ pc' = [pc EXCEPT ![p] = "returned"]
        /\ lockConn' = [lockConn EXCEPT ![p] = NoConn]
        /\ held' = [held EXCEPT ![p] = FALSE]
    BY <1>12 DEF ReleaseLock, NextCall, Lock!UnlockReturns, Lock!Unlock,
                 Lock!UnlockTimesOut, Lock!UnlockRejected, Lock!UnlockAfterLoss,
                 Lock!ReleaseConn
  <2> QED
    BY <2>1 DEF CallInv, PcTellsLock, Labels, Busy, Lock!TypeOK
<1> QED
  BY <1>1, <1>2, <1>3, <1>4, <1>5, <1>6, <1>7, <1>8, <1>9, <1>10, <1>11, <1>12
  DEF CallStep

\* So does every other step of the watchers.
LEMMA CallInvStep ==
    ASSUME CallInv, Lock!TypeOK, [Next]_vars
    PROVE  CallInv'
<1> USE DEF lockVars, callVars, Executing
<1>1. CASE AdvanceTime \/ ChainGrows \/ UNCHANGED vars
  BY <1>1 DEF AdvanceTime, ChainGrows, vars, serviceVars, CallInv, PcTellsLock
<1>2. CASE Environment
  <2>1. UNCHANGED <<pc, lockConn, held>>
    BY <1>2 DEF Environment, LockEnvironment, Lock!ReapOrphan, Lock!LoseSession,
                Lock!RetireConn
  <2> QED
    BY <2>1 DEF CallInv, PcTellsLock
<1>3. ASSUME NEW p \in Procs, Process(p) PROVE CallInv'
  <2>1. CASE Tick(p)
    <3>1. /\ pc[p] = "idle" /\ UNCHANGED <<lockConn, held>>
          /\ pc' = [pc EXCEPT ![p] = IF p \in Locking THEN "connect" ELSE "official"]
      BY <2>1 DEF Tick, Call, NextCall
    <3> QED
      BY <3>1 DEF CallInv, PcTellsLock, Labels, Busy
  <2>2. CASE TickReturns(p)
    BY <2>2 DEF TickReturns, Return, CallInv, PcTellsLock, Labels, Busy
  <2>3. CASE CallProgress(p)
    BY <2>3, CallStepKeeps DEF CallProgress
  <2>4. CASE Signal(p) \/ Restart(p)
    BY <2>4 DEF Signal, Restart, CallInv, PcTellsLock
  <2>5. CASE Shutdown(p)
    BY <2>5 DEF Shutdown, Lock!ClosePool, CallInv, PcTellsLock
  <2>6. CASE Crash(p)
    <3>1. /\ pc' = [pc EXCEPT ![p] = "idle"]
          /\ lockConn' = [lockConn EXCEPT ![p] = NoConn]
          /\ held' = [held EXCEPT ![p] = FALSE]
      BY <2>6 DEF Crash, Lock!Die
    <3> QED
      BY <3>1 DEF CallInv, PcTellsLock, Labels, Busy, Lock!TypeOK
  <2> QED
    BY <1>3, <2>1, <2>2, <2>3, <2>4, <2>5, <2>6 DEF Process
<1>4. ASSUME NEW p \in Procs, StepHostClock(p) PROVE CallInv'
  BY <1>4 DEF StepHostClock, serviceVars, CallInv, PcTellsLock
<1> QED
  BY <1>1, <1>2, <1>3, <1>4 DEF Next

LEMMA CallInvInit == Init => CallInv
BY DEF Init, ServiceInit, Lock!Init, CallInv, PcTellsLock, Labels, Busy, Executing

\* The program counter and the lock agree throughout.
LEMMA CallInvariance == Spec => []CallInv
<1>1. CallInv /\ Lock!TypeOK /\ [Next]_vars => CallInv'
  BY CallInvStep
<1>2. Spec => []Lock!TypeOK
  BY LockHolds, PTL
<1> QED
  BY CallInvInit, <1>1, <1>2, PTL DEF Spec

\* Who executes with a live session holds the lock.
LEMMA Exclusive == CallInv /\ Lock!TypeOK /\ Lock!MutualExclusion => ExecutionExclusive
BY RolesAssumption
DEF ExecutionExclusive, CallInv, PcTellsLock, Lock!MutualExclusion, Lock!Holding,
    RolesAssumption

\* A bucket is executed under the lock by one process at a time, unless the
\* server has dropped a holder's session: for any number of processes,
\* crashes, restarts and failed statements.
THEOREM ExclusiveExecution == Spec => []ExecutionExclusive
BY Exclusive, CallInvariance, LockHolds, PTL

\* Between two buckets the lock's connection is back in the pool, however the
\* last call ended.
THEOREM ConnIsReturned == Spec => []ConnReturned
<1>1. CallInv => ConnReturned
  BY DEF CallInv, PcTellsLock, ConnReturned
<1> QED
  BY <1>1, CallInvariance, PTL

-------------------------------------------------------------------------------
(* Types.  A deviation is one of Deviations because the official rate is not  *)
(* zero when the market's is asked for; what is stored is one because a call  *)
(* that is about to store or to alert has looked at a deviation.              *)

\* Rounding and recording keep to integers.
LEMMA RowTypes ==
    /\ \A d \in Deviations, h \in Nat : SampleRow(d, h) \in SampleRows
    /\ \A d \in Deviations : AlertRow(d, Threshold) \in AlertRows
<1>1. ASSUME NEW n \in Int PROVE Units(n) \in Int
  BY ColumnAssumption DEF Units, ColumnAssumption
<1>2. ASSUME NEW d \in Int PROVE Rounded(d) \in Int
  <2>1. Units(d) \in Int /\ Units(-d) \in Int
    BY <1>1
  <2> QED
    BY <2>1, ColumnAssumption DEF Rounded, ColumnAssumption
<1>3. Deviations \subseteq Int /\ Threshold \in Int
  BY DeviationsAssumption, ThresholdAssumption
  DEF DeviationsAssumption, ThresholdAssumption
<1>4. \A d \in Int : Rounded(d) \in Int /\ Direction(d) \in {"up", "down", "flat"}
  BY <1>2 DEF Direction
<1> QED
  BY <1>3, <1>4 DEF SampleRow, SampleRows, AlertRow, AlertRows

-------------------------------------------------------------------------------
CallTypes ==
    /\ ctx \in [Procs -> {"live", "cancelled", "done"}]
    /\ breaches \in [Procs -> Nat]
    /\ result \in [Procs -> {"none", "ok", "error"}]

DataTypes ==
    /\ bucket \in [Procs -> Buckets \cup {NoBucket}]
    /\ official \in [Procs -> Shares \cup {0}]
    /\ block \in [Procs -> Nat]
    /\ deviation \in [Procs -> Deviations \cup {NoRow}]
    /\ rateBlock \in [Procs -> Nat]
    /\ previous \in [Procs -> Deviations \cup {NoRow}]
    /\ clean \in [Procs -> BOOLEAN]
    /\ overtaken \in [Procs -> BOOLEAN]

WorldTypes ==
    /\ TablesTypeOK
    /\ sent \subseteq Procs \X Buckets
    /\ head \in 0 .. MaxHead
    /\ now \in Buckets
    /\ behind \in [Procs -> 0 .. HostSkew]
    /\ setBack \in [Procs -> BOOLEAN]
    /\ last \in [Procs -> -1 - HostSkew .. LastBucket]
    /\ up \in [Procs -> BOOLEAN]
    /\ incidents \in 0 .. MaxIncidents

\* What a call has by the time it is where it is.
Has(p) ==
    /\ pc[p] # "idle" => bucket[p] \in Buckets /\ up[p]
    /\ pc[p] = "market" => official[p] \in Shares \ {0}
    /\ pc[p] \in {"upsert", "insert", "notify"} => deviation[p] \in Deviations

TypeInv == CallTypes /\ DataTypes /\ WorldTypes /\ \A p \in Procs : Has(p)

\* Moving on keeps the types of a call.
LEMMA NextCallTypes ==
    ASSUME CallTypes, NEW p \in Procs, NEW l, NextCall(p, l)
    PROVE  ctx' \in [Procs -> {"live", "cancelled", "done"}]
BY DEF CallTypes, NextCall

\* So does evaluating a deviation.
LEMMA EvaluateTypes ==
    ASSUME CallTypes, NEW p \in Procs, NEW d, Evaluate(p, d)
    PROVE  /\ CallTypes'
           /\ \E l \in {"insert", "notify", Ended(p)} : pc' = [pc EXCEPT ![p] = l]
<1>1. \E l \in {"insert", "notify", Ended(p)} : NextCall(p, l)
  BY DEF Evaluate, Finish, Ended
<1>2. ctx' \in [Procs -> {"live", "cancelled", "done"}]
  BY <1>1, NextCallTypes
<1>3. Count(p, d) \in Nat
  BY DEF Count, CallTypes
<1>4. breaches' \in [Procs -> Nat]
  BY <1>3 DEF Evaluate, CallTypes
<1>5. result' \in [Procs -> {"none", "ok", "error"}]
  BY DEF Evaluate, Finish, CallTypes
<1> QED
  BY <1>1, <1>2, <1>4, <1>5 DEF CallTypes, NextCall

\* A sample or an alert that is written is a row of its table.
LEMMA WriteTypes ==
    ASSUME TypeInv, NEW p \in Procs, pc[p] \in {"upsert", "insert"},
           WriteSample(p) \/ WriteAlert(p)
    PROVE  TablesTypeOK' /\ overtaken' \in [Procs -> BOOLEAN]
<1>1. bucket[p] \in Buckets /\ deviation[p] \in Deviations /\ block[p] \in Nat
  BY DEF TypeInv, Has, DataTypes
<1>2. CASE WriteSample(p)
  BY <1>1, <1>2, RowTypes
  DEF WriteSample, UpsertRateSample, TypeInv, WorldTypes, DataTypes, TablesTypeOK
<1>3. CASE WriteAlert(p)
  BY <1>1, <1>3, RowTypes
  DEF WriteAlert, InsertAlert, TypeInv, WorldTypes, DataTypes, TablesTypeOK
<1> QED
  BY <1>2, <1>3

-------------------------------------------------------------------------------
(* Every step keeps the types. *)

\* A step of p that moves its program counter and leaves its data alone.
LEMMA OnlyMoves ==
    ASSUME TypeInv, CallInv, NEW p \in Procs, NEW l, pc' = [pc EXCEPT ![p] = l],
           CallTypes', WorldTypes', UNCHANGED <<locals, up>>,
           rateBlock' \in [Procs -> Nat], previous' \in [Procs -> Deviations \cup {NoRow}],
           clean' \in [Procs -> BOOLEAN], overtaken' \in [Procs -> BOOLEAN],
           pc[p] # "idle", l # "market",
           l \in {"upsert", "insert", "notify"} => pc[p] \in {"upsert", "insert", "notify"}
    PROVE  TypeInv'
BY DEF TypeInv, CallInv, DataTypes, Has, locals

\* A step of a call keeps the types.
LEMMA CallStepTypes ==
    ASSUME TypeInv, CallInv, NEW p \in Procs, CallStep(p),
           UNCHANGED <<head, now, behind, setBack, last, up, incidents>>
    PROVE  TypeInv'
<1> USE DEF observers, work, tables
<1>1. CASE \/ ConnectFails(p) \/ Connect(p) \/ LockGranted(p) \/ LockRefused(p)
           \/ TryLockFails(p) \/ ReleaseLock(p)
  <2>1. \E l \in {"returned", "trylock", "official"} : NextCall(p, l)
    BY <1>1 DEF ConnectFails, Connect, LockGranted, LockRefused, TryLockFails,
                ReleaseLock, ReturnEarly
  <2>2. UNCHANGED work /\ pc[p] # "idle"
    BY <1>1 DEF ConnectFails, Connect, LockGranted, LockRefused, TryLockFails,
                ReleaseLock, ReturnEarly
  <2>3. result' \in [Procs -> {"none", "ok", "error"}]
    BY <1>1 DEF ConnectFails, Connect, LockGranted, LockRefused, TryLockFails,
                ReleaseLock, ReturnEarly, TypeInv, CallTypes
  <2>4. CallTypes'
    BY <2>1, <2>2, <2>3, NextCallTypes DEF TypeInv, CallTypes
  <2>5. WorldTypes'
    BY <2>2 DEF TypeInv, WorldTypes, TablesTypeOK
  <2> QED
    BY <2>1, <2>2, <2>4, <2>5, OnlyMoves DEF NextCall, TypeInv, DataTypes
<1>2. CASE FetchFails(p) \/ Notify(p) \/ NotifyFails(p)
  <2>1. Finish(p, "ok") \/ Finish(p, "error")
    BY <1>2 DEF FetchFails, Notify, NotifyFails, Notified
  <2>2. UNCHANGED <<samples, alerts, locals, breaches, observers>> /\ pc[p] # "idle"
    BY <1>2 DEF FetchFails, Notify, NotifyFails, Notified
  <2>3. sent' \subseteq sent \cup {<<p, bucket[p]>>}
    BY <1>2 DEF FetchFails, Notify, NotifyFails, Notified
  <2>4. CallTypes'
    BY <2>1, <2>2, NextCallTypes DEF Finish, TypeInv, CallTypes
  <2>5. WorldTypes'
    BY <2>2, <2>3 DEF TypeInv, WorldTypes, TablesTypeOK, Has
  <2> QED
    BY <2>1, <2>2, <2>4, <2>5, OnlyMoves DEF Finish, NextCall, TypeInv, DataTypes
<1>3. CASE FetchOfficial(p)
  <2>1. PICK r \in PreviewReplies, h \in LatestBlocks(head) :
          /\ official' = [official EXCEPT ![p] = r.shares]
          /\ rateBlock' = [rateBlock EXCEPT ![p] = h]
    BY <1>3 DEF FetchOfficial
  <2>2. r.shares \in Shares \cup {0} /\ h \in Nat
    BY DEF PreviewReplies, LatestBlocks
  <2>3. NextCall(p, "head")
    BY <1>3 DEF FetchOfficial
  <2>4. CallTypes'
    BY <1>3, <2>3, NextCallTypes DEF FetchOfficial, TypeInv, CallTypes
  <2>5. WorldTypes'
    BY <1>3 DEF FetchOfficial, TypeInv, WorldTypes, TablesTypeOK
  <2>6. DataTypes'
    BY <1>3, <2>1, <2>2 DEF FetchOfficial, TypeInv, DataTypes
  <2>7. \A q \in Procs : Has(q)'
    BY <1>3, <2>1, <2>3 DEF FetchOfficial, NextCall, TypeInv, DataTypes, Has, CallInv
  <2> QED
    BY <2>4, <2>5, <2>6, <2>7 DEF TypeInv
<1>4. CASE FetchHead(p)
  <2>1. PICK h \in BlockNumbers(p) : block' = [block EXCEPT ![p] = h]
    BY <1>4 DEF FetchHead
  <2>2. h \in Nat
    BY DEF BlockNumbers, LatestBlocks
  <2>3. NextCall(p, "market") /\ official[p] \in Shares \ {0}
    BY <1>4 DEF FetchHead, TypeInv, DataTypes
  <2>4. CallTypes'
    BY <1>4, <2>3, NextCallTypes DEF FetchHead, TypeInv, CallTypes
  <2>5. WorldTypes'
    BY <1>4 DEF FetchHead, TypeInv, WorldTypes, TablesTypeOK
  <2>6. DataTypes'
    BY <1>4, <2>1, <2>2 DEF FetchHead, TypeInv, DataTypes
  <2>7. \A q \in Procs : Has(q)'
    BY <1>4, <2>3 DEF FetchHead, NextCall, TypeInv, DataTypes, Has, CallInv
  <2> QED
    BY <2>4, <2>5, <2>6, <2>7 DEF TypeInv
<1>5. CASE FetchMarket(p)
  <2> DEFINE D(r) == Deviation(official[p], r.buy)
  <2>1. PICK r \in MarketReplies :
          /\ MarketSucceeds(r)
          /\ deviation' = [deviation EXCEPT ![p] = D(r)]
          /\ previous' = [previous EXCEPT ![p] = deviation[p]]
          /\ IF p \in Storing
             THEN NextCall(p, "upsert") /\ UNCHANGED <<breaches, result>>
             ELSE Evaluate(p, D(r))
    BY <1>5 DEF FetchMarket
  <2>2. r.buy \in BuyAtoms \ {0}
    BY <2>1 DEF MarketReplies, MarketSucceeds
  <2>3. official[p] \in Shares \ {0} /\ bucket[p] \in Buckets
    BY <1>5 DEF FetchMarket, TypeInv, Has
  <2>4. D(r) \in Deviations
    BY <2>2, <2>3, DeviationsSuffice DEF DeviationsSuffice
  <2>5. \E l \in {"upsert", "insert", "notify", Ended(p)} : pc' = [pc EXCEPT ![p] = l]
    BY <2>1, EvaluateTypes DEF NextCall, TypeInv
  <2>6. CallTypes'
    BY <2>1, EvaluateTypes, NextCallTypes DEF TypeInv, CallTypes
  <2>7. WorldTypes'
    BY <1>5 DEF FetchMarket, TypeInv, WorldTypes, TablesTypeOK
  <2>8. DataTypes'
    BY <1>5, <2>1, <2>4 DEF FetchMarket, TypeInv, DataTypes
  <2>9. UNCHANGED <<bucket, official>>
    BY <1>5 DEF FetchMarket
  <2>10. up[p] /\ up' = up
    BY <1>5 DEF FetchMarket, TypeInv, Has
  <2>11. \A q \in Procs : Has(q)'
    <3>1. PICK l \in {"upsert", "insert", "notify", Ended(p)} : pc' = [pc EXCEPT ![p] = l]
      BY <2>5
    <3>2. l # "market"
      BY <3>1 DEF Ended
    <3>3. deviation'[p] \in Deviations /\ pc \in [Procs -> Labels]
      BY <2>1, <2>4 DEF TypeInv, DataTypes, CallInv
    <3>4. \A q \in Procs \ {p} : deviation'[q] = deviation[q]
      BY <2>1 DEF TypeInv, DataTypes
    <3> QED
      BY <2>3, <2>9, <2>10, <3>1, <3>2, <3>3, <3>4 DEF TypeInv, Has
  <2> QED
    BY <2>6, <2>7, <2>8, <2>11 DEF TypeInv
<1>6. CASE Upsert(p) \/ UpsertFails(p)
  <2>1. /\ pc[p] = "upsert" /\ Evaluate(p, deviation[p])
        /\ UNCHANGED <<locals, sent>> /\ ForgetObserved(p)
        /\ clean' \in [Procs -> BOOLEAN]
    BY <1>6 DEF Upsert, UpsertFails, TypeInv, DataTypes
  <2>7. /\ rateBlock' \in [Procs -> Nat]
        /\ previous' \in [Procs -> Deviations \cup {NoRow}]
    BY <2>1 DEF ForgetObserved, TypeInv, DataTypes
  <2>2. WriteSample(p) \/ UNCHANGED <<samples, alerts, overtaken>>
    BY <1>6 DEF Upsert, UpsertFails
  <2>3. TablesTypeOK' /\ overtaken' \in [Procs -> BOOLEAN]
    BY <2>1, <2>2, WriteTypes DEF TypeInv, DataTypes, WorldTypes, TablesTypeOK
  <2>4. WorldTypes'
    BY <2>1, <2>3 DEF TypeInv, WorldTypes
  <2>5. PICK l \in {"insert", "notify", Ended(p)} : pc' = [pc EXCEPT ![p] = l]
    BY <2>1, EvaluateTypes DEF TypeInv
  <2>6. CallTypes'
    BY <2>1, EvaluateTypes DEF TypeInv
  <2> QED
    BY <2>1, <2>3, <2>4, <2>5, <2>6, <2>7, OnlyMoves DEF Ended
<1>7. CASE RecordAlert(p) \/ RecordAlertFails(p)
  <2>1. /\ pc[p] = "insert" /\ NextCall(p, "notify")
        /\ UNCHANGED <<locals, breaches, result, sent, rateBlock, previous>>
        /\ clean' \in [Procs -> BOOLEAN]
    BY <1>7 DEF RecordAlert, RecordAlertFails, TypeInv, DataTypes
  <2>2. WriteAlert(p) \/ UNCHANGED <<samples, alerts, overtaken>>
    BY <1>7 DEF RecordAlert, RecordAlertFails
  <2>3. TablesTypeOK' /\ overtaken' \in [Procs -> BOOLEAN]
    BY <2>1, <2>2, WriteTypes DEF TypeInv, DataTypes, WorldTypes, TablesTypeOK
  <2>4. WorldTypes'
    BY <2>1, <2>3 DEF TypeInv, WorldTypes
  <2>5. CallTypes'
    BY <2>1, NextCallTypes DEF TypeInv, CallTypes
  <2> QED
    BY <2>1, <2>3, <2>4, <2>5, OnlyMoves DEF NextCall, TypeInv, DataTypes
<1> QED
  BY <1>1, <1>2, <1>3, <1>4, <1>5, <1>6, <1>7 DEF CallStep

\* What is left of a call when it is over.
LEMMA ForgetTypes ==
    ASSUME DataTypes, NEW p \in Procs, ForgetLocals(p)
    PROVE  /\ bucket' \in [Procs -> Buckets \cup {NoBucket}]
           /\ official' \in [Procs -> Shares \cup {0}]
           /\ block' \in [Procs -> Nat]
           /\ rateBlock' \in [Procs -> Nat]
           /\ previous' \in [Procs -> Deviations \cup {NoRow}]
           /\ clean' \in [Procs -> BOOLEAN]
           /\ \A q \in Procs \ {p} : bucket'[q] = bucket[q] /\ official'[q] = official[q]
BY DEF DataTypes, ForgetLocals

\* A crash, whether the request under way takes effect or not.
LEMMA CrashTypes ==
    ASSUME TypeInv, CallInv, NEW p \in Procs, Crash(p)
    PROVE  TypeInv'
<1>1. /\ ForgetLocals(p) /\ pc' = [pc EXCEPT ![p] = "idle"]
      /\ deviation' = [deviation EXCEPT ![p] = NoRow]
      /\ ctx' = [ctx EXCEPT ![p] = "live"]
      /\ up' = [up EXCEPT ![p] = FALSE]
      /\ incidents < MaxIncidents /\ incidents' = incidents + 1
      /\ UNCHANGED <<head, breaches, now, behind, setBack, last>>
  BY DEF Crash
<1>2. /\ TablesTypeOK' /\ overtaken' \in [Procs -> BOOLEAN]
      /\ sent' \subseteq Procs \X Buckets
  <2>1. CASE UNCHANGED <<tables, sent, overtaken>>
    BY <2>1 DEF TypeInv, WorldTypes, DataTypes, TablesTypeOK, tables
  <2>2. CASE LateEffect(p)
    <3>1. CASE pc[p] \in {"upsert", "insert"} /\ (WriteSample(p) \/ WriteAlert(p))
               /\ UNCHANGED sent
      BY <3>1, WriteTypes DEF TypeInv, WorldTypes
    <3>2. CASE /\ pc[p] = "notify" /\ sent' = sent \cup {<<p, bucket[p]>>}
               /\ UNCHANGED <<tables, overtaken>>
      BY <3>2 DEF TypeInv, WorldTypes, DataTypes, TablesTypeOK, tables, Has
    <3> QED
      BY <2>2, <3>1, <3>2 DEF LateEffect
  <2> QED
    BY <2>1, <2>2 DEF Crash
<1>3. CallTypes'
  BY <1>1 DEF ForgetLocals, TypeInv, CallTypes
<1>4. DataTypes'
  BY <1>1, <1>2, ForgetTypes DEF TypeInv, DataTypes
<1>5. WorldTypes'
  BY <1>1, <1>2, TimeAssumption DEF TypeInv, WorldTypes, TimeAssumption
<1>6. \A q \in Procs : Has(q)'
  BY <1>1, ForgetTypes DEF TypeInv, DataTypes, Has, CallInv
<1> QED
  BY <1>3, <1>4, <1>5, <1>6 DEF TypeInv

\* Every step keeps the types.
LEMMA TypeInvStep ==
    ASSUME TypeInv, CallInv, [Next]_vars
    PROVE  TypeInv'
<1> USE DEF tables, locals, observers, callVars
<1>1. CASE AdvanceTime \/ ChainGrows
  BY <1>1, TimeAssumption
  DEF AdvanceTime, ChainGrows, serviceVars, TypeInv, CallTypes, DataTypes, WorldTypes,
      TablesTypeOK, Has, TimeAssumption
<1>2. CASE Environment \/ UNCHANGED vars
  BY <1>2 DEF Environment, LockEnvironment, vars, serviceVars, TypeInv, CallTypes,
              DataTypes, WorldTypes, TablesTypeOK, Has
<1>3. ASSUME NEW p \in Procs, Process(p) PROVE TypeInv'
  <2>1. CASE Tick(p)
    <3>1. PICK b \in Buckets : /\ bucket' = [bucket EXCEPT ![p] = b]
                               /\ last' = [last EXCEPT ![p] = b]
      BY <2>1 DEF Tick, Due, Call
    <3>6. b \in -1 - HostSkew .. LastBucket
      BY TimeAssumption DEF TimeAssumption
    <3>2. \E l \in {"connect", "official"} : NextCall(p, l)
      BY <2>1 DEF Tick, Call
    <3>3. CallTypes'
      BY <2>1, <3>2, NextCallTypes DEF Tick, Call, TypeInv, CallTypes
    <3>4. DataTypes' /\ WorldTypes'
      BY <2>1, <3>1, <3>6 DEF Tick, Call, TypeInv, DataTypes, WorldTypes, TablesTypeOK
    <3>5. \A q \in Procs : Has(q)'
      BY <2>1, <3>1, <3>2 DEF Tick, Call, NextCall, TypeInv, DataTypes, Has, CallInv
    <3> QED
      BY <3>3, <3>4, <3>5 DEF TypeInv
  <2>2. CASE TickReturns(p)
    <3>1. /\ pc' = [pc EXCEPT ![p] = "idle"] /\ ForgetLocals(p)
          /\ overtaken' = [overtaken EXCEPT ![p] = FALSE]
          /\ UNCHANGED <<samples, alerts, deviation, ctx, breaches, sent,
                         head, now, behind, setBack, last, up, incidents>>
      BY <2>2 DEF TickReturns, Return
    <3>2. CallTypes' /\ WorldTypes'
      BY <3>1 DEF ForgetLocals, TypeInv, CallTypes, WorldTypes, TablesTypeOK
    <3>3. DataTypes'
      BY <3>1, ForgetTypes DEF TypeInv, DataTypes
    <3>4. \A q \in Procs : Has(q)'
      BY <3>1, ForgetTypes DEF TypeInv, DataTypes, Has, CallInv
    <3> QED
      BY <3>2, <3>3, <3>4 DEF TypeInv
  <2>3. CASE CallProgress(p)
    BY <2>3, CallStepTypes DEF CallProgress
  <2>4. CASE Signal(p)
    BY <2>4, TimeAssumption
    DEF Signal, TypeInv, CallTypes, DataTypes, WorldTypes, TablesTypeOK, Has,
        TimeAssumption
  <2>7. CASE Shutdown(p)
    BY <2>7 DEF Shutdown, TypeInv, CallTypes, DataTypes, WorldTypes, TablesTypeOK, Has
  <2>5. CASE Crash(p)
    BY <2>5, CrashTypes
  <2>6. CASE Restart(p)
    <3>1. pc[p] = "idle"
      BY <2>6 DEF Restart, TypeInv, Has
    <3>2. last' \in [Procs -> -1 - HostSkew .. LastBucket]
      BY <2>6, TimeAssumption
      DEF Restart, StartsAfter, HostBucket, TypeInv, WorldTypes, TimeAssumption
    <3> QED
      BY <2>6, <3>1, <3>2 DEF Restart, TypeInv, CallTypes, DataTypes, WorldTypes,
                        TablesTypeOK, Has
  <2> QED
    BY <1>3, <2>1, <2>2, <2>3, <2>4, <2>5, <2>6, <2>7 DEF Process
<1>4. ASSUME NEW p \in Procs, StepHostClock(p) PROVE TypeInv'
  <2>1. PICK d \in ClockSteps :
          /\ behind[p] - d \in 0 .. HostSkew
          /\ behind' = [behind EXCEPT ![p] = @ - d]
          /\ setBack' = [setBack EXCEPT ![p] = @ \/ d < 0]
          /\ last' = last \/ last' = [last EXCEPT ![p] = HostBucket(p) + d]
    BY <1>4 DEF StepHostClock
  <2>2. /\ UNCHANGED <<serviceVars, now, up>>
        /\ incidents < MaxIncidents /\ incidents' = incidents + 1
    BY <1>4 DEF StepHostClock
  <2>3. HostBucket(p) + d \in -1 - HostSkew .. LastBucket
    BY <2>1, TimeAssumption DEF HostBucket, TypeInv, WorldTypes, TimeAssumption
  <2>4. /\ behind' \in [Procs -> 0 .. HostSkew]
        /\ setBack' \in [Procs -> BOOLEAN]
        /\ last' \in [Procs -> -1 - HostSkew .. LastBucket]
    BY <2>1, <2>3 DEF TypeInv, WorldTypes
  <2>5. incidents' \in 0 .. MaxIncidents
    BY <2>2, TimeAssumption DEF TypeInv, WorldTypes, TimeAssumption
  <2> QED
    BY <2>2, <2>4, <2>5 DEF serviceVars, TypeInv, CallTypes, DataTypes, WorldTypes,
                            TablesTypeOK, Has
<1> QED
  BY <1>1, <1>2, <1>3, <1>4 DEF Next

LEMMA TypeInvInit == Init => TypeInv
<1> SUFFICES ASSUME Init PROVE TypeInv
  OBVIOUS
<1> USE DEF Init, ServiceInit, TablesInit
<1>1. CallTypes /\ DataTypes
  BY DEF CallTypes, DataTypes
<1>2. WorldTypes
  <2>1. last \in [Procs -> -1 - HostSkew .. LastBucket]
    BY TimeAssumption DEF HostBucket, TimeAssumption
  <2> QED
    BY <2>1, TimeAssumption DEF WorldTypes, TablesTypeOK, TimeAssumption
<1>3. \A p \in Procs : Has(p)
  BY DEF Has
<1> QED
  BY <1>1, <1>2, <1>3 DEF TypeInv

LEMMA TypeInvariance == Spec => []TypeInv
<1>1. TypeInv /\ CallInv /\ [Next]_vars => TypeInv'
  BY TypeInvStep
<1> QED
  BY <1>1, TypeInvInit, CallInvariance, PTL DEF Spec

\* The watchers, their calls and their tables are type correct.
THEOREM Typing == Spec => []TypeOK
<1>1. TypeInv /\ CallInv /\ Lock!TypeOK => TypeOK
  BY DEF TypeInv, CallTypes, DataTypes, WorldTypes, CallInv, Labels, TypeOK
<1> QED
  BY <1>1, TypeInvariance, CallInvariance, LockHolds, PTL
===============================================================================
