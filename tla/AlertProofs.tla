------------------------------ MODULE AlertProofs ------------------------------
(***************************************************************************)
(* Proofs about the alerts of Watcher, for any processes, buckets, rates   *)
(* and bounds: an alert is raised exactly for the second breach in a row,  *)
(* what is recorded of it shows a breach even after rounding, a sample     *)
(* names a block of its time, and no host tells of a bucket twice.  Then   *)
(* what the watchers leave in the database, provided every process that    *)
(* stores samples takes the lock and as long as no session is lost: who is *)
(* told of a breach finds it on record, and no sample replaces one with    *)
(* newer rates.                                                            *)
(***************************************************************************)
EXTENDS WatcherProofs

\* What is evaluated decides the count and what is next.
LEMMA EvaluateDecides ==
    ASSUME TypeInv, CallInv, NEW p \in Procs, NEW d, Evaluate(p, d)
    PROVE  /\ breaches' = [breaches EXCEPT ![p] = Count(p, d)]
           /\ \E l \in {"insert", "notify", Ended(p)} :
                /\ pc' = [pc EXCEPT ![p] = l]
                /\ l \in {"insert", "notify"} <=> Count(p, d) >= 2
           /\ Count(p, d) >= 1 <=> p \in Alerting /\ Breach(d)
           /\ Count(p, d) >= 2 <=> p \in Alerting /\ Breach(d) /\ breaches[p] >= 1
<1>1. breaches[p] \in Nat
  BY DEF TypeInv, CallTypes
<1>2. Ended(p) \notin {"insert", "notify"}
  BY DEF Ended
<1>3. Count(p, d) \in Nat
  BY <1>1 DEF Count
<1>4. \E l \in {"insert", "notify", Ended(p)} :
        /\ pc' = [pc EXCEPT ![p] = l]
        /\ l \in {"insert", "notify"} <=> Count(p, d) >= 2
  <2>1. CASE Count(p, d) < 2
    <3>1. pc' = [pc EXCEPT ![p] = Ended(p)]
      BY <2>1 DEF Evaluate, Finish, NextCall, Ended
    <3> QED
      BY <1>2, <1>3, <2>1, <3>1
  <2>2. CASE ~(Count(p, d) < 2)
    <3>1. PICK l \in {"insert", "notify"} : pc' = [pc EXCEPT ![p] = l]
      BY <2>2 DEF Evaluate, NextCall
    <3>2. Count(p, d) >= 2
      BY <1>3, <2>2
    <3> QED
      BY <3>1, <3>2
  <2> QED
    BY <2>1, <2>2
<1>5. breaches' = [breaches EXCEPT ![p] = Count(p, d)]
  BY DEF Evaluate
<1>6. /\ Count(p, d) >= 1 <=> p \in Alerting /\ Breach(d)
      /\ Count(p, d) >= 2 <=> p \in Alerting /\ Breach(d) /\ breaches[p] >= 1
  BY <1>1 DEF Count
<1> QED
  BY <1>4, <1>5, <1>6

-------------------------------------------------------------------------------
(* No host tells of a bucket twice. *)

\* Where a call may still come to its notification.
Untold == Busy \ {"unlock"}

\* Who alerts has been driven by a scheduler: as long as its host's clock is not
\* set back its buckets are later and later, and none is later than the clock,
\* so that a restart begins after all of them.
OnceInv ==
    \A p \in Procs :
      /\ pc[p] \in {"insert", "notify"} => p \in Alerting
      /\ ~setBack[p] => last[p] <= HostBucket(p)
      /\ p \in Alerting /\ ~setBack[p] =>
           /\ pc[p] # "idle" => last[p] = bucket[p]
           /\ pc[p] \in Untold => <<p, bucket[p]>> \notin sent
           /\ \A b \in Buckets : <<p, b>> \in sent => b <= last[p]

\* A step of a call that neither begins nor ends it, and tells at most of its
\* own bucket while it leaves Untold.
LEMMA OnceMoves ==
    ASSUME OnceInv, TypeInv, CallInv, NEW p \in Procs, NEW l,
           pc[p] # "idle", pc' = [pc EXCEPT ![p] = l],
           UNCHANGED <<bucket, last, now, behind, setBack>>,
           l \in {"insert", "notify"} => p \in Alerting,
           \/ sent' = sent /\ (l \in Untold => pc[p] \in Untold)
           \/ sent' = sent \cup {<<p, bucket[p]>>} /\ l \notin Untold
    PROVE  OnceInv'
<1>1. pc \in [Procs -> Labels] /\ last \in [Procs -> Int]
  BY TimeAssumption DEF CallInv, TypeInv, WorldTypes, TimeAssumption
<1>2. \A q \in Procs :
        /\ ~setBack'[q] => last'[q] <= HostBucket(q)'
        /\ pc'[q] \in {"insert", "notify"} => q \in Alerting
        /\ q \in Alerting /\ ~setBack'[q] /\ pc'[q] # "idle" => last'[q] = bucket'[q]
  BY <1>1 DEF OnceInv, HostBucket
<1>3. ASSUME NEW q \in Procs, q \in Alerting, ~setBack'[q], pc'[q] \in Untold
      PROVE  <<q, bucket'[q]>> \notin sent'
  BY <1>1, <1>3 DEF OnceInv
<1>4. ASSUME NEW q \in Procs, q \in Alerting, ~setBack'[q],
             NEW b \in Buckets, <<q, b>> \in sent'
      PROVE  b <= last'[q]
  <2>1. CASE <<q, b>> \in sent
    BY <1>4, <2>1 DEF OnceInv
  <2>2. CASE q = p /\ b = bucket[p]
    <3>1. last[p] = bucket[p]
      BY <1>4, <2>2 DEF OnceInv
    <3> QED
      BY <1>1, <2>2, <3>1
  <2> QED
    BY <1>4, <2>1, <2>2
<1> QED
  BY <1>2, <1>3, <1>4 DEF OnceInv

LEMMA OnceStep ==
    ASSUME OnceInv, TypeInv, CallInv, [Next]_vars
    PROVE  OnceInv'
<1> USE DEF tables, locals, observers, callVars, work
<1> DEFINE Clocks == /\ last \in [Procs -> Int] /\ behind \in [Procs -> Int]
                     /\ now \in Int /\ setBack \in [Procs -> BOOLEAN]
<1>0. Clocks
  BY TimeAssumption DEF TypeInv, WorldTypes, TimeAssumption
<1>1. CASE \/ AdvanceTime \/ ChainGrows \/ Environment \/ UNCHANGED vars
  <2>1. UNCHANGED <<pc, bucket, last, sent, behind, setBack>> /\ now' \in {now, now + 1}
    BY <1>1
    DEF AdvanceTime, ChainGrows, Environment, LockEnvironment, vars, serviceVars
  <2> QED
    BY <1>0, <2>1 DEF OnceInv, HostBucket
<1>2. ASSUME NEW p \in Procs, StepHostClock(p) PROVE OnceInv'
  <2>1. UNCHANGED <<pc, bucket, sent, now>>
    BY <1>2 DEF StepHostClock, serviceVars
  <2>2. ASSUME NEW q \in Procs, ~setBack'[q]
        PROVE  ~setBack[q] /\ last'[q] = last[q] /\ behind'[q] <= behind[q]
    <3>1. PICK d \in ClockSteps :
            /\ behind' = [behind EXCEPT ![p] = @ - d]
            /\ setBack' = [setBack EXCEPT ![p] = @ \/ d < 0]
            /\ last' = last \/ (d < 0 /\ last' = [last EXCEPT ![p] = HostBucket(p) + d])
      BY <1>2 DEF StepHostClock
    <3>2. d \in Int
      BY TimeAssumption DEF TimeAssumption
    <3>3. CASE q = p
      <4>1. ~(d < 0) /\ ~setBack[p]
        BY <1>0, <2>2, <3>1, <3>3
      <4> QED
        BY <1>0, <3>1, <3>2, <3>3, <4>1
    <3>4. CASE q # p
      BY <1>0, <2>2, <3>1, <3>4
    <3> QED
      BY <3>3, <3>4
  <2>3. \A q \in Procs : ~setBack'[q] => HostBucket(q) <= HostBucket(q)'
    <3>1. behind' \in [Procs -> Int]
      BY <1>0, <1>2, TimeAssumption DEF StepHostClock, TimeAssumption
    <3> QED
      BY <1>0, <2>1, <2>2, <3>1 DEF HostBucket
  <2>4. \A q \in Procs : ~setBack'[q] => last'[q] <= HostBucket(q)'
    <3> SUFFICES ASSUME NEW q \in Procs, ~setBack'[q] PROVE last'[q] <= HostBucket(q)'
      OBVIOUS
    <3>1. last[q] <= HostBucket(q) /\ last'[q] = last[q]
      BY <2>2 DEF OnceInv
    <3>2. behind'[q] \in Int
      BY <1>0, <1>2, TimeAssumption DEF StepHostClock, TimeAssumption
    <3> QED
      BY <1>0, <2>1, <2>3, <3>1, <3>2 DEF HostBucket
  <2> QED
    BY <2>1, <2>2, <2>4 DEF OnceInv
<1>3. ASSUME NEW p \in Procs, Process(p) PROVE OnceInv'
  <2>1. CASE Tick(p)
    <3>1. PICK b \in Buckets :
            /\ After(b, p) /\ (~setBack[p] => b <= HostBucket(p))
            /\ pc[p] = "idle"
            /\ bucket' = [bucket EXCEPT ![p] = b]
            /\ last' = [last EXCEPT ![p] = b]
      BY <2>1 DEF Tick, Due, Call
    <3>2. \E l \in {"connect", "official"} : pc' = [pc EXCEPT ![p] = l]
      BY <2>1 DEF Tick, Call, NextCall
    <3>3. UNCHANGED <<sent, now, behind, setBack>>
      BY <2>1 DEF Tick, Call
    <3>4. b \in Int /\ last \in [Procs -> Int]
      BY TimeAssumption DEF TimeAssumption, TypeInv, WorldTypes
    <3>5. /\ last[p] < b
          /\ p \in Alerting /\ ~setBack[p] => \A c \in Buckets : <<p, c>> \in sent => c <= last[p]
      BY <3>1 DEF OnceInv, After
    <3>6. p \in Alerting /\ ~setBack[p] => \A c \in Buckets : <<p, c>> \in sent => c < b
      <4> SUFFICES ASSUME p \in Alerting, ~setBack[p], NEW c \in Buckets
                   PROVE  <<p, c>> \in sent => c < b
        OBVIOUS
      <4>1. c \in Int /\ last[p] \in Int
        BY <3>4, TimeAssumption DEF TimeAssumption
      <4> QED
        BY <3>4, <3>5, <4>1
    <3> QED
      <4>1. p \in Alerting /\ ~setBack[p] =>
              <<p, b>> \notin sent /\ \A c \in Buckets : <<p, c>> \in sent => c <= b
        BY <3>4, <3>6, TimeAssumption DEF TimeAssumption
      <4> QED
        BY <3>1, <3>2, <3>3, <3>4, <4>1
        DEF OnceInv, HostBucket, TypeInv, DataTypes, CallInv, WorldTypes
  <2>2. CASE TickReturns(p)
    BY <2>2 DEF TickReturns, Return, ForgetLocals, OnceInv, HostBucket, Untold, Busy,
                Executing, TypeInv, DataTypes, CallInv
  <2>3. CASE CallProgress(p)
    <3> USE DEF Untold, Busy, Executing
    <3>1. UNCHANGED <<bucket, last, now, behind, setBack>>
      BY <2>3 DEF CallProgress, CallStep, ConnectFails, Connect, LockGranted, LockRefused,
                  TryLockFails, FetchFails, FetchOfficial, FetchHead, FetchMarket, Upsert,
                  UpsertFails, RecordAlert, RecordAlertFails, Notify, NotifyFails,
                  Notified, ReleaseLock, ReturnEarly
    <3>2. CASE \/ ConnectFails(p) \/ Connect(p) \/ LockGranted(p) \/ LockRefused(p)
               \/ TryLockFails(p) \/ FetchFails(p) \/ FetchOfficial(p) \/ FetchHead(p)
               \/ RecordAlert(p) \/ RecordAlertFails(p) \/ ReleaseLock(p)
      <4>1. /\ sent' = sent
            /\ \E l : /\ pc' = [pc EXCEPT ![p] = l]
                      /\ l \in Untold => pc[p] \in Untold
                      /\ l \in {"insert", "notify"} => pc[p] = "insert"
            /\ pc[p] # "idle"
        BY <3>2 DEF ConnectFails, Connect, LockGranted, LockRefused, TryLockFails,
                    FetchFails, FetchOfficial, FetchHead, RecordAlert, RecordAlertFails,
                    ReleaseLock, ReturnEarly, NextCall, Finish
      <4> QED
        BY <3>1, <4>1, OnceMoves DEF OnceInv
    <3>3. CASE FetchMarket(p) \/ Upsert(p) \/ UpsertFails(p)
      <4>1. sent' = sent /\ pc[p] \in {"market", "upsert"}
        BY <3>3 DEF FetchMarket, Upsert, UpsertFails
      <4>2. NextCall(p, "upsert") \/ \E d : Evaluate(p, d)
        BY <3>3 DEF FetchMarket, Upsert, UpsertFails
      <4>3. \E l : /\ pc' = [pc EXCEPT ![p] = l]
                   /\ l \in {"insert", "notify"} => p \in Alerting
        BY <4>2, EvaluateDecides DEF NextCall
      <4> QED
        BY <3>1, <4>1, <4>3, OnceMoves
    <3>4. CASE Notify(p) \/ NotifyFails(p)
      <4>1. /\ sent' \in {sent, sent \cup {<<p, bucket[p]>>}}
            /\ pc[p] = "notify"
            /\ pc' = [pc EXCEPT ![p] = Ended(p)]
        BY <3>4 DEF Notify, NotifyFails, Notified, Finish, NextCall, Ended
      <4>2. Ended(p) \notin Untold
        BY DEF Ended
      <4> QED
        BY <3>1, <4>1, <4>2, OnceMoves
    <3> QED
      BY <2>3, <3>2, <3>3, <3>4 DEF CallProgress, CallStep
  <2>4. CASE Signal(p) \/ Shutdown(p)
    BY <2>4 DEF Signal, Shutdown, OnceInv, HostBucket
  <2>5. CASE Crash(p)
    <3>1. /\ pc' = [pc EXCEPT ![p] = "idle"]
          /\ bucket' = [bucket EXCEPT ![p] = NoBucket]
          /\ UNCHANGED <<last, now, behind, setBack>>
      BY <2>5 DEF Crash, ForgetLocals
    <3>2. \/ sent' = sent
          \/ sent' = sent \cup {<<p, bucket[p]>>} /\ pc[p] = "notify"
      BY <2>5 DEF Crash, LateEffect
    <3>3. p \in Alerting /\ ~setBack[p] /\ pc[p] = "notify" => last[p] = bucket[p]
      BY DEF OnceInv
    <3>4. last \in [Procs -> Int]
      BY TimeAssumption DEF TimeAssumption, TypeInv, WorldTypes
    <3> QED
      <4>1. ASSUME NEW q \in Procs, q \in Alerting, ~setBack[q],
                   NEW b \in Buckets, <<q, b>> \in sent'
            PROVE  b <= last[q]
        <5>1. CASE <<q, b>> \in sent
          BY <4>1, <5>1 DEF OnceInv
        <5>2. CASE q = p /\ b = bucket[p] /\ pc[p] = "notify"
          BY <3>3, <3>4, <4>1, <5>2
        <5> QED
          BY <3>2, <4>1, <5>1, <5>2
      <4>2. \A q \in Procs \ {p} : pc'[q] = pc[q] /\ bucket'[q] = bucket[q]
        BY <3>1 DEF TypeInv, DataTypes, CallInv
      <4>3. \A q \in Procs \ {p} :
              <<q, bucket[q]>> \in sent' => <<q, bucket[q]>> \in sent
        BY <3>2
      <4>4. pc'[p] = "idle"
        BY <3>1 DEF CallInv
      <4> QED
        BY <3>1, <4>1, <4>2, <4>3, <4>4 DEF OnceInv, HostBucket, Untold, Busy, Executing
  <2>6. CASE Restart(p)
    <3>1. /\ last' = [last EXCEPT ![p] = HostBucket(p)]
          /\ UNCHANGED <<pc, bucket, sent, now, behind, setBack>>
          /\ ~up[p]
      BY <2>6 DEF Restart, StartsAfter
    <3>2. pc[p] = "idle"
      BY <3>1 DEF TypeInv, Has
    <3>3. HostBucket(p) \in Int
      BY <1>0 DEF HostBucket
    <3>4. p \in Alerting /\ ~setBack[p] =>
            \A b \in Buckets : <<p, b>> \in sent => b <= HostBucket(p)
      <4> SUFFICES ASSUME p \in Alerting, ~setBack[p], NEW b \in Buckets, <<p, b>> \in sent
                   PROVE  b <= HostBucket(p)
        OBVIOUS
      <4>1. b \in Int
        BY BucketsAssumption DEF BucketsAssumption
      <4>2. last[p] <= HostBucket(p) /\ b <= last[p]
        BY DEF OnceInv
      <4> QED
        BY <1>0, <3>3, <4>1, <4>2
    <3>5. \A q \in Procs \ {p} : last'[q] = last[q]
      BY <1>0, <3>1
    <3>6. last'[p] = HostBucket(p) /\ \A q \in Procs : HostBucket(q)' = HostBucket(q)
      BY <1>0, <3>1 DEF HostBucket
    <3> HIDE DEF HostBucket
    <3>7. HostBucket(p) <= HostBucket(p)
      BY <3>3
    <3> QED
      BY <3>1, <3>2, <3>4, <3>5, <3>6, <3>7 DEF OnceInv, Untold, Busy, Executing
  <2> QED
    BY <1>3, <2>1, <2>2, <2>3, <2>4, <2>5, <2>6 DEF Process
<1> QED
  BY <1>1, <1>3, <1>2 DEF Next

LEMMA OnceInit == Init => OnceInv
BY TimeAssumption
DEF Init, ServiceInit, OnceInv, HostBucket, Untold, Busy, Executing, TimeAssumption

\* No host tells of the same bucket twice, whatever happens to it, unless its
\* clock is set back.
THEOREM ToldOnce == Spec => []NotifiedOncePerHost
<1>1. Init => OnceInv
  BY OnceInit
<1>2. OnceInv /\ TypeInv /\ CallInv /\ [Next]_vars => OnceInv'
  BY OnceStep
<1>3. OnceInv => NotifiedOncePerHost
  BY DEF OnceInv, NotifiedOncePerHost, Untold, Busy, Executing
<1> QED
  BY <1>1, <1>2, <1>3, TypeInvariance, CallInvariance, PTL DEF Spec

-------------------------------------------------------------------------------
(* A sample names a block of its time. *)

Naming == {"market", "upsert"}

BlockInv ==
    \A p \in Procs :
      /\ rateBlock[p] <= head
      /\ pc[p] \in Naming => rateBlock[p] - ReplicaLag <= block[p] /\ block[p] <= head

\* A step that reads nothing from the chain.
LEMMA BlockMoves ==
    ASSUME BlockInv, UNCHANGED <<head, rateBlock, block>>,
           \A p \in Procs : pc'[p] \in Naming => pc[p] \in Naming
    PROVE  BlockInv'
BY DEF BlockInv

LEMMA BlockStep ==
    ASSUME BlockInv, TypeInv, CallInv, [Next]_vars
    PROVE  BlockInv'
<1> USE DEF tables, locals, observers, callVars, work
<1>1. /\ rateBlock \in [Procs -> Nat] /\ block \in [Procs -> Nat]
      /\ head \in Nat /\ ReplicaLag \in Nat /\ pc \in [Procs -> Labels]
  BY ReplicaAssumption, TimeAssumption
  DEF TypeInv, DataTypes, WorldTypes, CallInv, ReplicaAssumption, TimeAssumption
<1>2. CASE Environment \/ UNCHANGED vars \/ \E p \in Procs : StepHostClock(p)
  BY <1>2, BlockMoves DEF Environment, LockEnvironment, StepHostClock, vars, serviceVars
<1>3. CASE AdvanceTime
  BY <1>3, BlockMoves DEF AdvanceTime, serviceVars
<1>4. CASE ChainGrows
  <2>1. head' = head + 1 /\ UNCHANGED <<pc, rateBlock, block>>
    BY <1>4 DEF ChainGrows
  <2> QED
    BY <1>1, <2>1 DEF BlockInv
<1>5. ASSUME NEW p \in Procs, Process(p) PROVE BlockInv'
  <2>1. CASE Tick(p)
    <3>1. /\ UNCHANGED <<head, rateBlock, block>>
          /\ \E l \in {"connect", "official"} : pc' = [pc EXCEPT ![p] = l]
      BY <2>1 DEF Tick, Call, NextCall
    <3> QED
      BY <1>1, <3>1, BlockMoves DEF Naming
  <2>2. CASE TickReturns(p) \/ Crash(p)
    <3>1. /\ head' = head /\ pc' = [pc EXCEPT ![p] = "idle"]
          /\ rateBlock' = [rateBlock EXCEPT ![p] = 0]
          /\ block' = [block EXCEPT ![p] = 0]
      BY <2>2 DEF TickReturns, Return, Crash, ForgetLocals
    <3> QED
      BY <1>1, <3>1 DEF BlockInv, Naming
  <2>3. CASE Signal(p) \/ Shutdown(p) \/ Restart(p)
    BY <2>3, BlockMoves DEF Signal, Shutdown, Restart
  <2>4. CASE CallProgress(p)
    <3>1. head' = head
      BY <2>4 DEF CallProgress
    <3>2. CASE FetchOfficial(p)
      <4>1. PICK h \in LatestBlocks(head) : rateBlock' = [rateBlock EXCEPT ![p] = h]
        BY <3>2 DEF FetchOfficial
      <4>2. block' = block /\ pc' = [pc EXCEPT ![p] = "head"]
        BY <3>2 DEF FetchOfficial, NextCall
      <4> QED
        BY <1>1, <3>1, <4>1, <4>2 DEF BlockInv, Naming, LatestBlocks
    <3>3. CASE FetchHead(p)
      <4>1. PICK h \in LatestBlocks(head) : block' = [block EXCEPT ![p] = h]
        BY <3>3 DEF FetchHead, BlockNumbers
      <4>2. rateBlock' = rateBlock /\ pc' = [pc EXCEPT ![p] = "market"]
        BY <3>3 DEF FetchHead, NextCall
      <4>3. h <= head /\ rateBlock[p] - ReplicaLag <= h /\ h \in Int
        BY <1>1 DEF BlockInv, LatestBlocks
      <4> QED
        BY <1>1, <3>1, <4>1, <4>2, <4>3 DEF BlockInv, Naming
    <3>4. CASE Upsert(p) \/ UpsertFails(p)
      <4>1. rateBlock' = [rateBlock EXCEPT ![p] = 0] /\ block' = block
        BY <3>4 DEF Upsert, UpsertFails, ForgetObserved
      <4>2. Evaluate(p, deviation[p])
        BY <3>4 DEF Upsert, UpsertFails
      <4>3. \E l \in {"insert", "notify", "unlock", "returned"} : pc' = [pc EXCEPT ![p] = l]
        BY <4>2 DEF Evaluate, Finish, NextCall
      <4> QED
        BY <1>1, <3>1, <4>1, <4>3 DEF BlockInv, Naming
    <3>5. CASE FetchMarket(p)
      <4>1. UNCHANGED <<rateBlock, block>> /\ pc[p] \in Naming
        BY <3>5 DEF FetchMarket, Naming
      <4>2. NextCall(p, "upsert") \/ \E d : Evaluate(p, d)
        BY <3>5 DEF FetchMarket
      <4>3. \E l : pc' = [pc EXCEPT ![p] = l]
        BY <4>2 DEF Evaluate, Finish, NextCall
      <4> QED
        BY <1>1, <3>1, <4>1, <4>3, BlockMoves
    <3>6. CASE \/ ConnectFails(p) \/ Connect(p) \/ LockGranted(p) \/ LockRefused(p)
               \/ TryLockFails(p) \/ FetchFails(p) \/ RecordAlert(p)
               \/ RecordAlertFails(p) \/ Notify(p) \/ NotifyFails(p) \/ ReleaseLock(p)
      <4>1. UNCHANGED <<rateBlock, block>>
        BY <3>6 DEF ConnectFails, Connect, LockGranted, LockRefused, TryLockFails,
                    FetchFails, RecordAlert, RecordAlertFails, Notify, NotifyFails,
                    Notified, ReleaseLock, ReturnEarly
      <4>2. \E l \in {"returned", "trylock", "official", "notify", "unlock"} :
              pc' = [pc EXCEPT ![p] = l]
        BY <3>6 DEF ConnectFails, Connect, LockGranted, LockRefused, TryLockFails,
                    FetchFails, RecordAlert, RecordAlertFails, Notify, NotifyFails,
                    Notified, ReleaseLock, ReturnEarly, Finish, NextCall
      <4> QED
        BY <1>1, <3>1, <4>1, <4>2, BlockMoves DEF Naming
    <3> QED
      BY <2>4, <3>2, <3>3, <3>4, <3>5, <3>6 DEF CallProgress, CallStep
  <2> QED
    BY <1>5, <2>1, <2>2, <2>3, <2>4 DEF Process
<1> QED
  BY <1>2, <1>3, <1>4, <1>5 DEF Next

LEMMA BlockInit == Init => BlockInv
BY DEF Init, ServiceInit, BlockInv, Naming

\* However the chain grows between the two calls, and however far the nodes
\* behind the endpoint are apart: the block a sample names is not older than
\* its rate, but for the lag, and exists.
THEOREM BlockNamed == Spec => []SampleNamesItsBlock
<1>1. Init => BlockInv
  BY BlockInit
<1>2. BlockInv /\ TypeInv /\ CallInv /\ [Next]_vars => BlockInv'
  BY BlockStep
<1>3. BlockInv => SampleNamesItsBlock
  BY DEF BlockInv, SampleNamesItsBlock, Naming
<1> QED
  BY <1>1, <1>2, <1>3, TypeInvariance, CallInvariance, PTL DEF Spec

-------------------------------------------------------------------------------
(* Rounding. *)

\* The quotient of a larger number is not smaller.
LEMMA DivideMonotone ==
    ASSUME NEW m \in Nat, NEW n \in Nat, n <= m, NEW k \in Nat \ {0}
    PROVE  n \div k <= m \div k
<1> DEFINE a == m \div k
           b == n \div k
<1>1. a \in Int /\ b \in Int
  OBVIOUS
<1>2. m < k * (a + 1)
  OBVIOUS
<1>3. k * b <= n
  OBVIOUS
<1> HIDE DEF a, b
<1>4. ASSUME a + 1 <= b PROVE FALSE
  <2>1. k * (a + 1) <= k * b
    BY <1>1, <1>4
  <2>2. k * (a + 1) \in Int /\ k * b \in Int
    BY <1>1
  <2> QED
    BY <1>2, <1>3, <2>1, <2>2
<1>5. b <= a
  BY <1>1, <1>4
<1> QED
  BY <1>5 DEF a, b

\* Nor is what a larger value is rounded to.
LEMMA UnitsMonotone ==
    ASSUME NEW m \in Nat, NEW n \in Nat, n <= m
    PROVE  /\ Units(m) \in Nat /\ Units(n) \in Nat
           /\ ColumnUnit * Units(n) <= ColumnUnit * Units(m)
           /\ ColumnUnit * Units(n) \in Nat /\ ColumnUnit * Units(m) \in Nat
<1>1. ColumnUnit \in Nat \ {0}
  BY ColumnAssumption DEF ColumnAssumption
<1>2. /\ 2 * n + ColumnUnit \in Nat /\ 2 * m + ColumnUnit \in Nat
      /\ 2 * n + ColumnUnit <= 2 * m + ColumnUnit /\ 2 * ColumnUnit \in Nat \ {0}
  BY <1>1
<1>3. Units(n) <= Units(m)
  BY <1>2, DivideMonotone DEF Units
<1>4. Units(m) \in Nat /\ Units(n) \in Nat
  <2>1. \A x \in Nat, k \in Nat \ {0} : x \div k \in Nat
    OBVIOUS
  <2> QED
    BY <1>2, <2>1 DEF Units
<1> HIDE DEF Units
<1> QED
  BY <1>1, <1>3, <1>4

\* A breach is one on record, too.
LEMMA RecordShowsBreach ==
    ASSUME NEW d \in Int, Breach(d)
    PROVE  LET row == AlertRow(d, Threshold) IN
           /\ Magnitude(row.deviation) >= row.threshold
           /\ row.direction # "flat"
           /\ row.deviation # 0 => row.direction = Direction(row.deviation)
<1> DEFINE m == Magnitude(d)
<1>1. Threshold \in Nat /\ Threshold > 0
  BY ThresholdAssumption DEF ThresholdAssumption
<1>2. m \in Nat /\ Threshold <= m /\ d # 0
  BY <1>1 DEF Breach, Magnitude
<1>3. /\ ColumnUnit * Units(Threshold) <= ColumnUnit * Units(m)
      /\ ColumnUnit * Units(m) \in Nat /\ Units(m) \in Nat
  BY <1>1, <1>2, UnitsMonotone
<1>4. Rounded(Threshold) = ColumnUnit * Units(Threshold)
  BY <1>1 DEF Rounded
<1>5. CASE d > 0
  <2>1. m = d /\ Rounded(d) = ColumnUnit * Units(m) /\ Direction(d) = "up"
    BY <1>5 DEF Rounded, Magnitude, Direction
  <2>2. /\ Magnitude(Rounded(d)) = ColumnUnit * Units(m)
        /\ Rounded(d) # 0 => Direction(Rounded(d)) = "up"
    BY <1>3, <2>1 DEF Magnitude, Direction
  <2> QED
    BY <1>3, <1>4, <2>1, <2>2 DEF AlertRow
<1>6. CASE d < 0
  <2>1. m = -d /\ Direction(d) = "down"
    BY <1>6 DEF Magnitude, Direction
  <2>2. Rounded(d) = -(ColumnUnit * Units(m))
    <3>1. Rounded(d) = ColumnUnit * (-Units(m))
      BY <1>6, <2>1 DEF Rounded
    <3>2. \A x \in Nat, y \in Nat : x * (-y) = -(x * y)
      OBVIOUS
    <3> QED
      BY <1>3, <3>1, <3>2, ColumnAssumption DEF ColumnAssumption
  <2>3. /\ Magnitude(Rounded(d)) = ColumnUnit * Units(m)
        /\ Rounded(d) # 0 => Direction(Rounded(d)) = "down"
    BY <1>3, <2>2 DEF Magnitude, Direction
  <2> QED
    BY <1>3, <1>4, <2>1, <2>3 DEF AlertRow
<1> QED
  BY <1>2, <1>5, <1>6

-------------------------------------------------------------------------------
(* An alert is raised exactly for the second breach in a row, and what is    *)
(* recorded of it shows a breach.                                            *)

\* The deviation that was evaluated last.
Evaluated(p) == IF pc[p] = "upsert" THEN previous[p] ELSE deviation[p]

CountInv ==
    \A p \in Procs :
      /\ p \in Alerting /\ up[p]
         => (breaches[p] >= 1 <=> Evaluated(p) # NoRow /\ Breach(Evaluated(p)))
      /\ pc[p] = "insert" => Breach(deviation[p])
      /\ pc[p] = "upsert" => p \in Storing

\* Who leaves "upsert" was the process itself: its statement returned, or it
\* crashed.
LEMMA LeavesUpsert ==
    ASSUME CallInv, NEW p \in Procs, pc[p] = "upsert", pc'[p] # "upsert", Next
    PROVE  Upsert(p) \/ UpsertFails(p) \/ Crash(p)
<1> USE DEF tables, locals, observers, callVars, work
<1>1. pc \in [Procs -> Labels]
  BY DEF CallInv
<1>2. CASE \/ AdvanceTime \/ ChainGrows \/ Environment
           \/ \E q \in Procs : StepHostClock(q)
  BY <1>2 DEF AdvanceTime, ChainGrows, Environment, LockEnvironment, StepHostClock,
              serviceVars
<1>3. ASSUME NEW q \in Procs, Process(q)
      PROVE  Upsert(p) \/ UpsertFails(p) \/ Crash(p)
  <2>1. CASE Tick(q) \/ TickReturns(q) \/ Signal(q) \/ Shutdown(q) \/ Restart(q)
    BY <1>1, <2>1 DEF Tick, Call, NextCall, TickReturns, Return, Signal, Shutdown, Restart
  <2>2. CASE Crash(q)
    <3>1. pc' = [pc EXCEPT ![q] = "idle"]
      BY <2>2 DEF Crash
    <3> QED
      BY <1>1, <2>2, <3>1
  <2>3. CASE CallProgress(q)
    <3>1. \E l : pc' = [pc EXCEPT ![q] = l]
      BY <2>3 DEF CallProgress, CallStep, ConnectFails, Connect, LockGranted,
                  LockRefused, TryLockFails, FetchFails, FetchOfficial, FetchHead,
                  FetchMarket, Upsert, UpsertFails, RecordAlert, RecordAlertFails,
                  Notify, NotifyFails, Notified, ReleaseLock, ReturnEarly, Evaluate,
                  Finish, NextCall
    <3>2. q = p
      BY <1>1, <3>1
    <3> QED
      BY <2>3, <3>2
      DEF CallProgress, CallStep, ConnectFails, Connect, LockGranted,
          LockRefused, TryLockFails, FetchFails, FetchOfficial, FetchHead,
          FetchMarket, RecordAlert, RecordAlertFails, Notify, NotifyFails, Notified,
          ReleaseLock
  <2> QED
    BY <1>3, <2>1, <2>2, <2>3 DEF Process
<1> QED
  BY <1>2, <1>3 DEF Next

\* A step of p that looks at no deviation and does not begin an alert.
LEMMA CountMoves ==
    ASSUME CountInv, CallInv, NEW p \in Procs, NEW l, pc' = [pc EXCEPT ![p] = l],
           UNCHANGED <<deviation, previous, breaches, up>>,
           l \notin {"upsert", "insert"}, pc[p] # "upsert"
    PROVE  CountInv'
<1>1. pc \in [Procs -> Labels]
  BY DEF CallInv
<1>2. \A q \in Procs : Evaluated(q)' = Evaluated(q)
  BY <1>1 DEF Evaluated
<1> QED
  BY <1>1, <1>2 DEF CountInv

\* A step of p that evaluates d, its deviation from then on.
LEMMA CountEvaluates ==
    ASSUME CountInv, TypeInv, CallInv, NEW p \in Procs, NEW d \in Deviations,
           Evaluate(p, d), deviation' \in [Procs -> Deviations \cup {NoRow}],
           deviation'[p] = d,
           \A q \in Procs \ {p} : /\ deviation'[q] = deviation[q]
                                 /\ previous'[q] = previous[q],
           UNCHANGED up
    PROVE  CountInv'
<1>1. /\ pc \in [Procs -> Labels] /\ breaches \in [Procs -> Nat]
      /\ d # NoRow
  BY DeviationsAssumption DEF CallInv, TypeInv, CallTypes, DeviationsAssumption
<1>2. PICK l \in {"insert", "notify", Ended(p)} :
        /\ pc' = [pc EXCEPT ![p] = l]
        /\ l \in {"insert", "notify"} <=> Count(p, d) >= 2
  BY EvaluateDecides
<1>3. l # "upsert"
  BY <1>2 DEF Ended
<1>4. breaches'[p] = Count(p, d) /\ \A q \in Procs \ {p} : breaches'[q] = breaches[q]
  BY <1>1, EvaluateDecides
<1>5. Evaluated(p)' = d /\ \A q \in Procs \ {p} : Evaluated(q)' = Evaluated(q)
  BY <1>1, <1>2, <1>3 DEF Evaluated
<1>6. p \in Alerting => (breaches'[p] >= 1 <=> Breach(d))
  BY <1>4, EvaluateDecides
<1>7. l = "insert" => Breach(d)
  BY <1>2, EvaluateDecides
<1>8. pc'[p] = l /\ \A q \in Procs \ {p} : pc'[q] = pc[q]
  BY <1>1, <1>2
<1>9. ASSUME NEW q \in Procs
      PROVE  /\ q \in Alerting /\ up'[q]
                => (breaches'[q] >= 1 <=> Evaluated(q)' # NoRow /\ Breach(Evaluated(q)'))
             /\ pc'[q] = "insert" => Breach(deviation'[q])
             /\ pc'[q] = "upsert" => q \in Storing
  <2>1. CASE q = p
    BY <1>1, <1>3, <1>5, <1>6, <1>7, <1>8, <2>1
  <2>2. CASE q # p
    BY <1>4, <1>5, <1>8, <2>2 DEF CountInv
  <2> QED
    BY <2>1, <2>2
<1> QED
  BY <1>9 DEF CountInv, Breach, Magnitude

LEMMA CountStep ==
    ASSUME CountInv, TypeInv, CallInv, [Next]_vars
    PROVE  CountInv'
<1> USE DEF tables, locals, observers, callVars, work
<1>1. /\ pc \in [Procs -> Labels] /\ breaches \in [Procs -> Nat]
      /\ deviation \in [Procs -> Deviations \cup {NoRow}]
      /\ previous \in [Procs -> Deviations \cup {NoRow}]
      /\ up \in [Procs -> BOOLEAN]
  BY DEF CallInv, TypeInv, CallTypes, DataTypes, WorldTypes
<1>2. CASE \/ AdvanceTime \/ ChainGrows \/ Environment \/ UNCHANGED vars
           \/ \E p \in Procs : StepHostClock(p)
  BY <1>2 DEF AdvanceTime, ChainGrows, Environment, LockEnvironment, StepHostClock, vars,
              serviceVars, CountInv, Evaluated
<1>3. ASSUME NEW p \in Procs, Process(p) PROVE CountInv'
  <2>1. CASE Tick(p)
    <3>1. /\ pc[p] = "idle" /\ UNCHANGED <<deviation, previous, breaches, up>>
          /\ \E l \in {"connect", "official"} : pc' = [pc EXCEPT ![p] = l]
      BY <2>1 DEF Tick, Call, NextCall
    <3> QED
      BY <3>1, CountMoves
  <2>2. CASE TickReturns(p)
    <3>1. /\ pc[p] = "returned" /\ pc' = [pc EXCEPT ![p] = "idle"]
          /\ previous' = [previous EXCEPT ![p] = NoRow]
          /\ UNCHANGED <<deviation, breaches, up>>
      BY <2>2 DEF TickReturns, Return, ForgetLocals
    <3> QED
      BY <1>1, <3>1 DEF CountInv, Evaluated
  <2>3. CASE Signal(p)
    BY <2>3 DEF Signal, CountInv, Evaluated
  <2>4. CASE Shutdown(p)
    BY <1>1, <2>4 DEF Shutdown, CountInv, Evaluated
  <2>5. CASE Crash(p)
    <3>1. /\ pc' = [pc EXCEPT ![p] = "idle"] /\ up' = [up EXCEPT ![p] = FALSE]
          /\ previous' = [previous EXCEPT ![p] = NoRow]
          /\ deviation' = [deviation EXCEPT ![p] = NoRow] /\ breaches' = breaches
      BY <2>5 DEF Crash, ForgetLocals
    <3> QED
      BY <1>1, <3>1 DEF CountInv, Evaluated
  <2>6. CASE Restart(p)
    <3>1. /\ ~up[p] /\ up' = [up EXCEPT ![p] = TRUE]
          /\ breaches' = [breaches EXCEPT ![p] = 0]
          /\ deviation' = [deviation EXCEPT ![p] = NoRow]
          /\ UNCHANGED <<pc, previous>>
      BY <2>6 DEF Restart
    <3>2. pc[p] = "idle"
      BY <3>1 DEF TypeInv, Has
    <3> QED
      BY <1>1, <3>1, <3>2 DEF CountInv, Evaluated
  <2>7. CASE CallProgress(p)
    <3>1. up' = up
      BY <2>7 DEF CallProgress
    <3>2. CASE FetchMarket(p)
      <4> DEFINE D(r) == Deviation(official[p], r.buy)
      <4>1. PICK r \in MarketReplies :
              /\ MarketSucceeds(r)
              /\ deviation' = [deviation EXCEPT ![p] = D(r)]
              /\ previous' = [previous EXCEPT ![p] = deviation[p]]
              /\ IF p \in Storing
                 THEN NextCall(p, "upsert") /\ UNCHANGED <<breaches, result>>
                 ELSE Evaluate(p, D(r))
        BY <3>2 DEF FetchMarket
      <4>2. D(r) \in Deviations
        <5>1. r.buy \in BuyAtoms \ {0}
          BY <4>1 DEF MarketReplies, MarketSucceeds
        <5>2. official[p] \in Shares \ {0}
          BY <3>2 DEF FetchMarket, TypeInv, Has
        <5> QED
          BY <5>1, <5>2, DeviationsSuffice DEF DeviationsSuffice
      <4>3. pc[p] = "market"
        BY <3>2 DEF FetchMarket
      <4> HIDE DEF D
      <4>4. CASE p \in Storing
        <5>1. pc' = [pc EXCEPT ![p] = "upsert"] /\ breaches' = breaches
          BY <4>1, <4>4 DEF NextCall
        <5> QED
          BY <1>1, <3>1, <4>1, <4>3, <4>4, <5>1 DEF CountInv, Evaluated
      <4>5. CASE p \notin Storing
        <5>1. Evaluate(p, D(r))
          BY <4>1, <4>5
        <5>2. /\ deviation' \in [Procs -> Deviations \cup {NoRow}]
              /\ deviation'[p] = D(r)
              /\ \A q \in Procs \ {p} : deviation'[q] = deviation[q] /\ previous'[q] = previous[q]
          BY <1>1, <4>1, <4>2
        <5> QED
          BY <3>1, <4>2, <5>1, <5>2, CountEvaluates
      <4> QED
        BY <4>4, <4>5
    <3>3. CASE Upsert(p) \/ UpsertFails(p)
      <4>1. /\ Evaluate(p, deviation[p]) /\ pc[p] = "upsert"
            /\ deviation' = deviation /\ previous' = [previous EXCEPT ![p] = NoRow]
        BY <3>3 DEF Upsert, UpsertFails, ForgetObserved
      <4>2. deviation[p] \in Deviations
        BY <4>1 DEF TypeInv, Has
      <4> QED
        BY <1>1, <3>1, <4>1, <4>2, CountEvaluates
    <3>4. CASE \/ ConnectFails(p) \/ Connect(p) \/ LockGranted(p) \/ LockRefused(p)
               \/ TryLockFails(p) \/ FetchFails(p) \/ FetchOfficial(p) \/ FetchHead(p)
               \/ RecordAlert(p) \/ RecordAlertFails(p) \/ Notify(p)
               \/ NotifyFails(p) \/ ReleaseLock(p)
      <4>1. UNCHANGED <<deviation, breaches, previous>> /\ pc[p] # "upsert"
        BY <3>4 DEF ConnectFails, Connect, LockGranted, LockRefused, TryLockFails,
                    FetchFails, FetchOfficial, FetchHead, RecordAlert,
                    RecordAlertFails, Notify, NotifyFails, Notified, ReleaseLock,
                    ReturnEarly
      <4>2. \E l \in {"returned", "trylock", "official", "head", "market", "notify",
                     "unlock"} : pc' = [pc EXCEPT ![p] = l]
        BY <3>4 DEF ConnectFails, Connect, LockGranted, LockRefused, TryLockFails,
                    FetchFails, FetchOfficial, FetchHead, RecordAlert,
                    RecordAlertFails, Notify, NotifyFails, Notified, ReleaseLock,
                    ReturnEarly, Finish, NextCall
      <4> QED
        BY <3>1, <4>1, <4>2, CountMoves
    <3> QED
      BY <2>7, <3>2, <3>3, <3>4 DEF CallProgress, CallStep
  <2> QED
    BY <1>3, <2>1, <2>2, <2>3, <2>4, <2>5, <2>6, <2>7 DEF Process
<1> QED
  BY <1>2, <1>3 DEF Next

LEMMA CountInit == Init => CountInv
<1> SUFFICES ASSUME Init PROVE CountInv
  OBVIOUS
<1> QED
  BY DEF Init, ServiceInit, CountInv, Evaluated

LEMMA CountInvariance == Spec => []CountInv
<1>1. Init => CountInv
  BY CountInit
<1>2. CountInv /\ TypeInv /\ CallInv /\ [Next]_vars => CountInv'
  BY CountStep
<1> QED
  BY <1>1, <1>2, TypeInvariance, CallInvariance, PTL DEF Spec

\* Whether what follows p's statement is an alert is decided as it should be.
Raised(p) ==
    pc[p] = "upsert" /\ pc'[p] \notin {"upsert", "idle"}
    => (pc'[p] \in {"insert", "notify"}
         <=> /\ previous[p] # NoRow
             /\ Breach(previous[p])
             /\ Breach(deviation[p]))

\* The count of breaches decides it so.
LEMMA RaisedInTime ==
    ASSUME CountInv, TypeInv, CallInv, [Next]_vars
    PROVE  [\A p \in Alerting \cap Storing : Raised(p)]_vars
<1> SUFFICES ASSUME Next, NEW p \in Alerting, p \in Storing,
                    pc[p] = "upsert", pc'[p] \notin {"upsert", "idle"}
             PROVE  pc'[p] \in {"insert", "notify"}
                    <=> /\ previous[p] # NoRow
                        /\ Breach(previous[p])
                        /\ Breach(deviation[p])
  BY DEF Raised
<1>1. p \in Procs
  BY RolesAssumption DEF RolesAssumption
<1>2. pc \in [Procs -> Labels]
  BY DEF CallInv
<1>3. Upsert(p) \/ UpsertFails(p)
  <2>1. Upsert(p) \/ UpsertFails(p) \/ Crash(p)
    BY <1>1, LeavesUpsert
  <2>2. ~Crash(p)
    BY <1>1, <1>2 DEF Crash
  <2> QED
    BY <2>1, <2>2
<1>4. Evaluate(p, deviation[p])
  BY <1>3 DEF Upsert, UpsertFails
<1>5. pc'[p] \in {"insert", "notify"} <=> Count(p, deviation[p]) >= 2
  BY <1>1, <1>2, <1>4, EvaluateDecides
<1>6. Count(p, deviation[p]) >= 2 <=> Breach(deviation[p]) /\ breaches[p] >= 1
  BY <1>1, <1>4, EvaluateDecides
<1>7. breaches[p] >= 1 <=> previous[p] # NoRow /\ Breach(previous[p])
  BY <1>1 DEF CountInv, Evaluated, TypeInv, Has
<1> QED
  BY <1>5, <1>6, <1>7

\* An alert is raised exactly for the second breach in a row that the same
\* process evaluates, whatever fails or is skipped in between.
THEOREM Confirmed == Spec => AlertConfirmed
<1>1. CountInv /\ TypeInv /\ CallInv /\ [Next]_vars
      => [\A p \in Alerting \cap Storing : Raised(p)]_vars
  BY RaisedInTime
<1> QED
  BY <1>1, TypeInvariance, CallInvariance, CountInvariance, PTL
  DEF Spec, AlertConfirmed, Raised

\* An alert is written only with a breach.
LEMMA RecordsStep ==
    ASSUME AlertRowsShowBreach, CountInv, TypeInv, CallInv, [Next]_vars
    PROVE  AlertRowsShowBreach'
<1> USE DEF tables, locals, observers, callVars, work
<1>1. \/ alerts' = alerts
      \/ \E p \in Procs : pc[p] = "insert" /\ WriteAlert(p)
  <2>1. CASE \/ AdvanceTime \/ ChainGrows \/ Environment \/ UNCHANGED vars
             \/ \E p \in Procs : StepHostClock(p)
    BY <2>1 DEF AdvanceTime, ChainGrows, Environment, LockEnvironment, StepHostClock,
                vars, serviceVars
  <2>2. ASSUME NEW p \in Procs, Process(p)
        PROVE  alerts' = alerts \/ (pc[p] = "insert" /\ WriteAlert(p))
    <3>1. CASE Tick(p) \/ TickReturns(p) \/ Signal(p) \/ Shutdown(p) \/ Restart(p)
      BY <3>1 DEF Tick, Call, TickReturns, Return, Signal, Shutdown, Restart
    <3>2. CASE Crash(p)
      BY <3>2 DEF Crash, LateEffect, WriteSample, UpsertRateSample
    <3>3. CASE CallProgress(p)
      BY <3>3 DEF CallProgress, CallStep, ConnectFails, Connect, LockGranted,
                  LockRefused, TryLockFails, FetchFails, FetchOfficial, FetchHead,
                  FetchMarket, Upsert, UpsertFails, RecordAlert, RecordAlertFails,
                  Notify, NotifyFails, Notified, ReleaseLock, ReturnEarly,
                  WriteSample, UpsertRateSample
    <3> QED
      BY <2>2, <3>1, <3>2, <3>3 DEF Process
  <2> QED
    BY <2>1, <2>2 DEF Next
<1>2. CASE alerts' = alerts
  BY <1>2 DEF AlertRowsShowBreach
<1>3. ASSUME NEW p \in Procs, pc[p] = "insert", WriteAlert(p)
      PROVE  AlertRowsShowBreach'
  <2>1. bucket[p] \in Buckets /\ deviation[p] \in Int /\ Breach(deviation[p])
    BY <1>3, DeviationsAssumption DEF TypeInv, Has, CountInv, DeviationsAssumption
  <2>2. alerts' = [alerts EXCEPT ![bucket[p]] = AlertRow(deviation[p], Threshold)]
    BY <1>3 DEF WriteAlert, InsertAlert
  <2>3. alerts \in [Buckets -> AlertRows \cup {NoRow}]
    BY DEF TypeInv, WorldTypes, TablesTypeOK
  <2> DEFINE Shows(row) == /\ Magnitude(row.deviation) >= row.threshold
                           /\ row.direction # "flat"
                           /\ row.deviation # 0 => row.direction = Direction(row.deviation)
  <2>4. Shows(AlertRow(deviation[p], Threshold))
    BY <2>1, RecordShowsBreach
  <2>5. \A b \in Buckets : alerts[b] # NoRow => Shows(alerts[b])
    BY DEF AlertRowsShowBreach
  <2> HIDE DEF Shows
  <2>6. \A b \in Buckets : alerts'[b] # NoRow => Shows(alerts'[b])
    BY <2>1, <2>2, <2>3, <2>4, <2>5
  <2> QED
    BY <2>6 DEF Shows, AlertRowsShowBreach, Magnitude, Direction
<1> QED
  BY <1>1, <1>2, <1>3

LEMMA RowsInit == Init => AlertRowsShowBreach
BY DEF Init, ServiceInit, TablesInit, AlertRowsShowBreach

\* What the alerts table says of a breach shows one, for any scale of its
\* columns, any deviation and any threshold.
THEOREM RecordsShowBreach == Spec => []AlertRowsShowBreach
<1>1. Init => AlertRowsShowBreach
  BY RowsInit
<1>2. AlertRowsShowBreach /\ CountInv /\ TypeInv /\ CallInv /\ [Next]_vars
      => AlertRowsShowBreach'
  BY RecordsStep
<1> QED
  BY <1>1, <1>2, TypeInvariance, CallInvariance, CountInvariance, PTL DEF Spec

-------------------------------------------------------------------------------
(* Records and the order of samples.  Both follow from ExclusiveExecution:    *)
(* whoever is past its first fetch is alone with the tables.                  *)

OnRecord(p) ==
    sessionLosses = 0
    => /\ pc[p] \in {"head", "market", "upsert"} => ~overtaken[p]
       /\ p \in Auditing /\ clean[p] /\ pc[p] \in {"insert", "notify"}
          => samples[bucket[p]] = SampleRow(deviation[p], block[p])
       /\ p \in Auditing /\ clean[p] /\ pc[p] = "notify"
          => alerts[bucket[p]] = AlertRow(deviation[p], Threshold)

RecordInv ==
    /\ \A p \in Procs : /\ lost[p] => sessionLosses # 0
                        /\ pc[p] \in {"upsert", "insert"} => p \in Storing
    /\ \A p \in Locking : OnRecord(p)

\* Whatever p does with its own call: if it writes, no other process is
\* executing.
LEMMA OthersKeep ==
    ASSUME Storing \subseteq Locking, RecordInv, ExecutionExclusive, NEW p \in Procs,
           \A q \in Procs \ {p} : /\ pc'[q] = pc[q]
                                  /\ bucket'[q] = bucket[q]
                                  /\ deviation'[q] = deviation[q]
                                  /\ block'[q] = block[q]
                                  /\ clean'[q] = clean[q],
           sessionLosses' = sessionLosses,
           \/ /\ UNCHANGED <<samples, alerts>>
              /\ \A q \in Procs \ {p} : overtaken'[q] = overtaken[q]
           \/ pc[p] \in {"upsert", "insert"}
    PROVE  \A q \in Locking \ {p} : OnRecord(q)'
<1> SUFFICES ASSUME NEW q \in Locking, q # p, sessionLosses = 0
             PROVE  OnRecord(q)'
  BY DEF OnRecord
<1>1. q \in Procs
  BY RolesAssumption DEF RolesAssumption
<1>2. CASE /\ UNCHANGED <<samples, alerts>>
           /\ \A r \in Procs \ {p} : overtaken'[r] = overtaken[r]
  <2>1. OnRecord(q)
    BY DEF RecordInv
  <2> QED
    BY <1>1, <1>2, <2>1 DEF OnRecord, SampleRow, Rounded, Units, AlertRow, Direction
<1>3. CASE pc[p] \in {"upsert", "insert"}
  <2>1. p \in Locking /\ pc[p] \in Executing /\ ~lost[p] /\ ~lost[q]
    BY <1>1, <1>3 DEF RecordInv, Executing
  <2>2. pc[q] \notin Executing
    BY <2>1 DEF ExecutionExclusive
  <2> QED
    BY <1>1, <2>2 DEF OnRecord, Executing
<1> QED
  BY <1>2, <1>3

\* A step of p's call that ends up outside the labels OnRecord speaks of.
LEMMA RecordMoves ==
    ASSUME Storing \subseteq Locking, RecordInv, ExecutionExclusive, CallInv,
           TypeInv, NEW p \in Procs, NEW l, pc' = [pc EXCEPT ![p] = l],
           l \notin {"head", "market", "upsert", "insert", "notify"},
           \A q \in Procs \ {p} : /\ bucket'[q] = bucket[q]
                                  /\ deviation'[q] = deviation[q]
                                  /\ block'[q] = block[q]
                                  /\ clean'[q] = clean[q],
           sessionLosses' = sessionLosses,
           \A q \in Procs : lost'[q] => lost[q],
           \/ /\ UNCHANGED <<samples, alerts>>
              /\ \A q \in Procs \ {p} : overtaken'[q] = overtaken[q]
           \/ pc[p] \in {"upsert", "insert"}
    PROVE  RecordInv'
<1>1. pc'[p] = l /\ \A q \in Procs \ {p} : pc'[q] = pc[q]
  BY DEF CallInv
<1>2. \A q \in Locking \ {p} : OnRecord(q)'
  BY <1>1, OthersKeep
<1>3. OnRecord(p)'
  BY <1>1 DEF OnRecord
<1>4. \A q \in Procs : /\ lost'[q] => sessionLosses' # 0
                       /\ pc'[q] \in {"upsert", "insert"} => q \in Storing
  BY <1>1 DEF RecordInv
<1> QED
  BY <1>2, <1>3, <1>4 DEF RecordInv

\* A call loses no session.
LEMMA CallKeepsSessions ==
    ASSUME NEW p \in Procs, Lock!TypeOK, CallStep(p)
    PROVE  sessionLosses' = sessionLosses /\ \A q \in Procs : lost'[q] => lost[q]
<1> USE DEF lockVars
<1>1. CASE \/ ConnectFails(p) \/ FetchFails(p) \/ FetchOfficial(p) \/ FetchHead(p)
           \/ FetchMarket(p) \/ Upsert(p) \/ UpsertFails(p) \/ RecordAlert(p)
           \/ RecordAlertFails(p) \/ Notify(p) \/ NotifyFails(p)
  BY <1>1 DEF ConnectFails, FetchFails, FetchOfficial, FetchHead, FetchMarket, Upsert,
              UpsertFails, RecordAlert, RecordAlertFails, Notify, NotifyFails, Notified
<1>2. CASE Connect(p) \/ LockGranted(p) \/ LockRefused(p) \/ TryLockFails(p)
  BY <1>2 DEF Connect, LockGranted, LockRefused, TryLockFails, Lock!AcquireConn,
              Lock!Grant, Lock!Refuse, Lock!TryFails
<1>3. CASE ReleaseLock(p)
  <2>1. Lock!ReleaseConn(p)
    BY <1>3 DEF ReleaseLock, Lock!UnlockReturns, Lock!Unlock, Lock!UnlockTimesOut,
                Lock!UnlockRejected, Lock!UnlockAfterLoss
  <2> QED
    BY <2>1 DEF Lock!ReleaseConn, Lock!TypeOK
<1> QED
  BY <1>1, <1>2, <1>3 DEF CallStep

LEMMA RecordCallStep ==
    ASSUME Storing \subseteq Locking, RecordInv, ExecutionExclusive, CallInv, TypeInv,
           Lock!TypeOK, NEW p \in Procs, CallStep(p)
    PROVE  RecordInv'
<1> USE DEF tables, locals, observers, work
<1>1. sessionLosses' = sessionLosses /\ \A q \in Procs : lost'[q] => lost[q]
  BY CallKeepsSessions
<1>2. /\ pc \in [Procs -> Labels] /\ clean \in [Procs -> BOOLEAN]
      /\ overtaken \in [Procs -> BOOLEAN] /\ block \in [Procs -> Nat]
      /\ deviation \in [Procs -> Deviations \cup {NoRow}]
      /\ samples \in [Buckets -> SampleRows \cup {NoRow}]
      /\ alerts \in [Buckets -> AlertRows \cup {NoRow}]
  BY DEF CallInv, TypeInv, DataTypes, WorldTypes, TablesTypeOK
<1>3. p \in Storing => p \in Locking
  OBVIOUS
<1>4. CASE \/ ConnectFails(p) \/ Connect(p) \/ LockGranted(p) \/ LockRefused(p)
           \/ TryLockFails(p) \/ FetchFails(p) \/ Notify(p) \/ NotifyFails(p)
           \/ ReleaseLock(p)
  <2>1. UNCHANGED <<tables, locals, overtaken, clean>>
    BY <1>4 DEF ConnectFails, Connect, LockGranted, LockRefused, TryLockFails,
                FetchFails, Notify, NotifyFails, Notified, ReleaseLock, ReturnEarly
  <2>2. \E l \in {"returned", "trylock", "official", "unlock"} : pc' = [pc EXCEPT ![p] = l]
    BY <1>4 DEF ConnectFails, Connect, LockGranted, LockRefused, TryLockFails,
                FetchFails, Notify, NotifyFails, Notified, ReleaseLock, ReturnEarly,
                Finish, NextCall
  <2> QED
    BY <1>1, <2>1, <2>2, RecordMoves
<1>5. ASSUME \A q \in Procs \ {p} : /\ pc'[q] = pc[q]
                                   /\ bucket'[q] = bucket[q]
                                   /\ deviation'[q] = deviation[q]
                                   /\ block'[q] = block[q]
                                   /\ clean'[q] = clean[q],
             \/ /\ UNCHANGED <<samples, alerts>>
                /\ \A q \in Procs \ {p} : overtaken'[q] = overtaken[q]
             \/ pc[p] \in {"upsert", "insert"},
             p \in Locking => OnRecord(p)',
             pc'[p] \in {"upsert", "insert"} => p \in Storing
      PROVE  RecordInv'
  <2>1. \A q \in Locking \ {p} : OnRecord(q)'
    BY <1>1, <1>5, OthersKeep
  <2>2. \A q \in Procs : /\ lost'[q] => sessionLosses' # 0
                         /\ pc'[q] \in {"upsert", "insert"} => q \in Storing
    BY <1>1, <1>5 DEF RecordInv
  <2> QED
    BY <1>5, <2>1, <2>2 DEF RecordInv
<1>6. CASE FetchOfficial(p) \/ FetchHead(p)
  <2>1. /\ UNCHANGED <<tables, bucket, deviation, clean>>
        /\ \A q \in Procs \ {p} : block'[q] = block[q] /\ overtaken'[q] = overtaken[q]
    BY <1>2, <1>6 DEF FetchOfficial, FetchHead
  <2>2. \/ pc' = [pc EXCEPT ![p] = "head"] /\ overtaken' = [overtaken EXCEPT ![p] = FALSE]
        \/ /\ pc[p] = "head" /\ pc' = [pc EXCEPT ![p] = "market"]
           /\ overtaken' = overtaken
    BY <1>6 DEF FetchOfficial, FetchHead, NextCall
  <2>3. p \in Locking => OnRecord(p)'
    BY <1>1, <1>2, <2>2 DEF RecordInv, OnRecord
  <2> QED
    BY <1>2, <1>5, <2>1, <2>2, <2>3
<1>7. CASE FetchMarket(p)
  <2>1. /\ UNCHANGED <<tables, bucket, block, clean, overtaken>> /\ pc[p] = "market"
        /\ \A q \in Procs \ {p} : deviation'[q] = deviation[q]
    BY <1>2, <1>7 DEF FetchMarket
  <2>2. PICK r \in MarketReplies :
          IF p \in Storing
          THEN NextCall(p, "upsert") /\ UNCHANGED <<breaches, result>>
          ELSE Evaluate(p, Deviation(official[p], r.buy))
    BY <1>7 DEF FetchMarket
  <2>3. CASE p \in Storing
    <3>1. pc' = [pc EXCEPT ![p] = "upsert"]
      BY <2>2, <2>3 DEF NextCall
    <3>2. p \in Locking => OnRecord(p)'
      BY <1>1, <1>2, <2>1, <3>1 DEF RecordInv, OnRecord
    <3> QED
      BY <1>2, <1>5, <2>1, <2>3, <3>1, <3>2
  <2>4. CASE p \notin Storing
    <3>1. Evaluate(p, Deviation(official[p], r.buy))
      BY <2>2, <2>4
    <3>2. p \notin Auditing /\ p \notin Locking
      BY <2>4, RolesAssumption DEF RolesAssumption
    <3>3. \E l \in {"notify", Ended(p)} : pc' = [pc EXCEPT ![p] = l]
      BY <3>1, <3>2 DEF Evaluate, Finish, NextCall, Ended
    <3>4. pc'[p] \notin {"upsert", "insert"} /\ \A q \in Procs \ {p} : pc'[q] = pc[q]
      BY <1>2, <3>3 DEF Ended
    <3> QED
      BY <1>5, <2>1, <3>2, <3>4
  <2> QED
    BY <2>3, <2>4
<1>8. CASE Upsert(p) \/ UpsertFails(p)
  <2>1. pc[p] = "upsert" /\ UNCHANGED locals
    BY <1>8 DEF Upsert, UpsertFails
  <2>2. \E l \in {IF p \in Auditing THEN "insert" ELSE "notify", Ended(p)} :
          pc' = [pc EXCEPT ![p] = l]
    <3>1. Evaluate(p, deviation[p])
      BY <1>8 DEF Upsert, UpsertFails
    <3> QED
      BY <3>1 DEF Evaluate, Finish, NextCall, Ended
  <2>3. /\ \A q \in Procs \ {p} : clean'[q] = clean[q] /\ pc'[q] = pc[q]
        /\ pc'[p] # "upsert" /\ pc'[p] \notin {"head", "market"}
        /\ p \in Auditing => pc'[p] # "notify"
    BY <1>2, <1>8, <2>2 DEF Upsert, UpsertFails, Ended
  <2>4. clean'[p] => samples'[bucket'[p]] = SampleRow(deviation'[p], block'[p])
    <3>1. CASE Upsert(p)
      <4>1. samples' = [samples EXCEPT ![bucket[p]] = SampleRow(deviation[p], block[p])]
        BY <3>1 DEF Upsert, WriteSample, UpsertRateSample
      <4>2. bucket[p] \in Buckets
        BY <2>1 DEF TypeInv, Has
      <4> QED
        BY <1>2, <2>1, <4>1, <4>2
    <3>2. CASE UpsertFails(p)
      BY <1>2, <3>2 DEF UpsertFails
    <3> QED
      BY <1>8, <3>1, <3>2
  <2>5. p \in Locking => OnRecord(p)'
    BY <2>3, <2>4 DEF OnRecord, SampleRow, Rounded, Units
  <2>6. p \in Storing
    BY <2>1 DEF RecordInv
  <2> QED
    BY <1>5, <2>1, <2>3, <2>5, <2>6
<1>9. CASE RecordAlert(p) \/ RecordAlertFails(p)
  <2>1. pc[p] = "insert" /\ UNCHANGED locals /\ pc' = [pc EXCEPT ![p] = "notify"]
    BY <1>9 DEF RecordAlert, RecordAlertFails, NextCall
  <2>2. samples' = samples
    BY <1>9 DEF RecordAlert, RecordAlertFails, WriteAlert, InsertAlert
  <2>3. \A q \in Procs \ {p} : clean'[q] = clean[q]
    BY <1>2, <1>9 DEF RecordAlert, RecordAlertFails
  <2>4. clean'[p] => clean[p] /\ alerts'[bucket'[p]] = AlertRow(deviation'[p], Threshold)
    <3>1. CASE RecordAlert(p)
      <4>1. /\ alerts' = [alerts EXCEPT ![bucket[p]] = AlertRow(deviation[p], Threshold)]
            /\ clean' = clean
        BY <3>1 DEF RecordAlert, WriteAlert, InsertAlert
      <4>2. bucket[p] \in Buckets
        BY <2>1 DEF TypeInv, Has
      <4> QED
        BY <1>2, <2>1, <4>1, <4>2
    <3>2. CASE RecordAlertFails(p)
      BY <1>2, <3>2 DEF RecordAlertFails
    <3> QED
      BY <1>9, <3>1, <3>2
  <2>5. p \in Locking => OnRecord(p)'
    <3> SUFFICES ASSUME p \in Locking, sessionLosses = 0 PROVE OnRecord(p)'
      BY <1>1 DEF OnRecord
    <3>1. p \in Auditing /\ clean[p] => samples[bucket[p]] = SampleRow(deviation[p], block[p])
      BY <2>1 DEF RecordInv, OnRecord
    <3>2. pc'[p] = "notify"
      BY <1>2, <2>1
    <3>3. p \in Auditing /\ clean'[p]
          => samples'[bucket'[p]] = SampleRow(deviation'[p], block'[p])
      BY <2>1, <2>2, <2>4, <3>1
    <3> QED
      BY <2>4, <3>2, <3>3 DEF OnRecord, SampleRow, Rounded, Units, AlertRow, Direction
  <2> QED
    BY <1>2, <1>5, <2>1, <2>3, <2>5
<1> QED
  BY <1>4, <1>6, <1>7, <1>8, <1>9 DEF CallStep

LEMMA RecordStep ==
    ASSUME Storing \subseteq Locking, RecordInv, ExecutionExclusive, CallInv, TypeInv,
           Lock!TypeOK, [Next]_vars
    PROVE  RecordInv'
<1> USE DEF tables, locals, observers, lockVars, callVars
<1>1. /\ pc \in [Procs -> Labels] /\ lost \in [Procs -> BOOLEAN]
      /\ sessionLosses \in Nat
      /\ DataTypes
  BY LockAssumption DEF CallInv, TypeInv, Lock!TypeOK, LockAssumption
<1>2. CASE AdvanceTime \/ ChainGrows \/ UNCHANGED vars \/ \E p \in Procs : StepHostClock(p)
  BY <1>2 DEF AdvanceTime, ChainGrows, StepHostClock, vars, serviceVars, RecordInv,
              OnRecord, SampleRow, Rounded, Units, AlertRow, Direction
<1>3. CASE Environment
  <2>1. UNCHANGED <<samples, alerts, pc, bucket, deviation, block, overtaken, clean>>
    BY <1>3 DEF Environment, LockEnvironment
  <2>2. \/ sessionLosses' # 0
        \/ sessionLosses' = sessionLosses /\ lost' = lost
    BY <1>1, <1>3 DEF Environment, LockEnvironment, Lock!ReapOrphan, Lock!LoseSession,
                      Lock!RetireConn
  <2> QED
    BY <2>1, <2>2 DEF RecordInv, OnRecord, SampleRow, Rounded, Units, AlertRow, Direction
<1>4. ASSUME NEW p \in Procs, Process(p) PROVE RecordInv'
  <2>1. CASE Tick(p)
    <3>1. /\ \E l \in {"connect", "official"} : pc' = [pc EXCEPT ![p] = l]
          /\ UNCHANGED <<tables, lost, sessionLosses, deviation, block, overtaken, clean>>
          /\ \A q \in Procs \ {p} : bucket'[q] = bucket[q]
      BY <1>1, <2>1 DEF Tick, Call, NextCall, DataTypes
    <3> QED
      BY <3>1, RecordMoves
  <2>2. CASE TickReturns(p)
    <3>1. /\ pc' = [pc EXCEPT ![p] = "idle"]
          /\ UNCHANGED <<tables, lost, sessionLosses, deviation>>
          /\ \A q \in Procs \ {p} : /\ bucket'[q] = bucket[q]
                                   /\ block'[q] = block[q]
                                   /\ overtaken'[q] = overtaken[q]
                                   /\ clean'[q] = clean[q]
      BY <1>1, <2>2 DEF TickReturns, Return, ForgetLocals, DataTypes
    <3> QED
      BY <3>1, RecordMoves
  <2>3. CASE CallProgress(p)
    BY <2>3, RecordCallStep DEF CallProgress
  <2>4. CASE Signal(p)
    BY <2>4 DEF Signal, RecordInv, OnRecord, SampleRow, Rounded, Units, AlertRow, Direction
  <2>5. CASE Shutdown(p)
    BY <2>5 DEF Shutdown, Lock!ClosePool, RecordInv, OnRecord, SampleRow, Rounded, Units,
                AlertRow, Direction
  <2>6. CASE Crash(p)
    <3>1. /\ pc' = [pc EXCEPT ![p] = "idle"]
          /\ sessionLosses' = sessionLosses
          /\ \A q \in Procs : lost'[q] => lost[q]
          /\ \A q \in Procs \ {p} : /\ bucket'[q] = bucket[q]
                                   /\ deviation'[q] = deviation[q]
                                   /\ block'[q] = block[q]
                                   /\ clean'[q] = clean[q]
      BY <1>1, <2>6 DEF Crash, ForgetLocals, Lock!Die, DataTypes
    <3>2. \/ UNCHANGED <<samples, alerts, overtaken>>
          \/ pc[p] \in {"upsert", "insert"}
      BY <2>6 DEF Crash, LateEffect
    <3> QED
      BY <3>1, <3>2, RecordMoves
  <2>7. CASE Restart(p)
    <3>1. /\ UNCHANGED <<tables, lost, sessionLosses, pc, bucket, block, overtaken, clean>>
          /\ \A q \in Procs \ {p} : deviation'[q] = deviation[q]
      BY <1>1, <2>7 DEF Restart, DataTypes
    <3>2. pc[p] = "idle" /\ pc' = [pc EXCEPT ![p] = "idle"]
      BY <1>1, <2>7, <3>1 DEF Restart, TypeInv, Has
    <3> QED
      BY <3>1, <3>2, RecordMoves
  <2> QED
    BY <1>4, <2>1, <2>2, <2>3, <2>4, <2>5, <2>6, <2>7 DEF Process
<1> QED
  BY <1>2, <1>3, <1>4 DEF Next

LEMMA RecordInit == Init => RecordInv
BY RolesAssumption
DEF Init, ServiceInit, Lock!Init, RecordInv, OnRecord, RolesAssumption

\* What is on record throughout, when all that store take the lock.
LEMMA RecordInvariance ==
    ASSUME Storing \subseteq Locking
    PROVE  Spec => []RecordInv
<1>1. RecordInv /\ ExecutionExclusive /\ CallInv /\ TypeInv /\ Lock!TypeOK /\ [Next]_vars
      => RecordInv'
  BY RecordStep
<1> QED
  BY <1>1, RecordInit, ExclusiveExecution, CallInvariance, TypeInvariance, LockHolds, PTL
  DEF Spec

\* Whoever is told of a breach finds the sample and the alert in the database,
\* unless a statement of the call failed or a session was lost.
THEOREM ToldIsOnRecord ==
    ASSUME Storing \subseteq Locking
    PROVE  Spec => []NotificationIsOnRecord
<1>1. RecordInv => NotificationIsOnRecord
  BY DEF RecordInv, OnRecord, NotificationIsOnRecord
<1> QED
  BY <1>1, RecordInvariance, PTL

\* Whoever stores a sample has not been overtaken since it read its rates.
LEMMA NotOvertaken ==
    ASSUME RecordInv, Lock!TypeOK
    PROVE  [\A p \in Locking :
              pc[p] = "upsert" /\ pc'[p] # "upsert" /\ samples' # samples
              => ~overtaken[p] \/ sessionLosses > 0]_vars
<1> SUFFICES ASSUME NEW p \in Locking, pc[p] = "upsert", overtaken[p]
             PROVE  sessionLosses > 0
  OBVIOUS
<1>1. sessionLosses # 0
  BY DEF RecordInv, OnRecord
<1>2. sessionLosses \in Nat
  BY LockAssumption DEF Lock!TypeOK, LockAssumption
<1> QED
  BY <1>1, <1>2

\* Every sample is newer than the one it replaces, unless a session was lost.
THEOREM SamplesGetNewer ==
    ASSUME Storing \subseteq Locking
    PROVE  Spec => NoStaleOverwrite
<1>1. RecordInv /\ Lock!TypeOK
      => [\A p \in Locking :
            pc[p] = "upsert" /\ pc'[p] # "upsert" /\ samples' # samples
            => ~overtaken[p] \/ sessionLosses > 0]_vars
  BY NotOvertaken
<1> QED
  BY <1>1, RecordInvariance, LockHolds, PTL DEF NoStaleOverwrite
===============================================================================
