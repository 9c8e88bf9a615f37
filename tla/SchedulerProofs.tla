---------------------------- MODULE SchedulerProofs ----------------------------
(***************************************************************************)
(* Proofs about Scheduler, for every interval, both modes, every startup   *)
(* delay, any steps of the clock and any bounds.                           *)
(***************************************************************************)
EXTENDS Scheduler, TLAPS

\* The remainder is what Truncate takes away.
LEMMA TruncateBounds ==
    ASSUME NEW t \in Int
    PROVE  /\ Truncate(t) \in Int
           /\ Truncate(t) <= t
           /\ t < Truncate(t) + Interval
BY IntervalAssumption, t % Interval \in 0 .. Interval - 1 DEF Truncate, IntervalAssumption

\* NextTick is strictly after now, and at most one interval after it.
LEMMA NextTickBounds ==
    ASSUME wall \in Int
    PROVE  /\ NextTick \in Int
           /\ wall < NextTick
           /\ NextTick - Interval <= wall
BY TruncateBounds, IntervalAssumption DEF NextTick, IntervalAssumption
-------------------------------------------------------------------------------
(* Types. *)

\* The initial states have the types.
LEMMA InitTypes == Init => TypeOK
<1> SUFFICES ASSUME Init PROVE TypeOK
  OBVIOUS
<1>1. pc \in {"startup", "init"}
  BY DEF Init
<1>2. wall \in Int /\ timer \in Int /\ next \in Int
  BY IntervalAssumption DEF Init, IntervalAssumption
<1>3. steps \in 0 .. MaxClockSteps /\ lag \in 0 .. MaxLag
  BY BoundsAssumption DEF Init, BoundsAssumption
<1> QED
  BY <1>1, <1>2, <1>3 DEF Init, TypeOK

\* Every step keeps the types.
LEMMA TypeStep ==
    ASSUME TypeOK, [Next]_vars
    PROVE  TypeOK'
<1> USE IntervalAssumption, BoundsAssumption, NoBucketAssumption
    DEF IntervalAssumption, BoundsAssumption, NoBucketAssumption, TypeOK
<1>1. CASE StartupElapsed
  BY <1>1 DEF StartupElapsed, observers
<1>2. CASE FirstNext
  BY <1>2, NextTickBounds DEF FirstNext, FreshWait
<1>3. CASE ArmOnTime
  BY <1>3 DEF ArmOnTime, FreshWait, Until, observers
<1>4. CASE Overrun
  BY <1>4 DEF Overrun, observers
<1>5. CASE Recompute
  BY <1>5, NextTickBounds DEF Recompute, FreshWait
<1>6. CASE ArmRecomputed
  BY <1>6 DEF ArmRecomputed, Until, observers
<1>7. CASE Fire
  BY <1>7, TruncateBounds DEF Fire, BucketStart, observers
<1>8. CASE FinishTick
  BY <1>8 DEF FinishTick, observers
<1>9. CASE StopWaiting
  BY <1>9 DEF StopWaiting, observers
<1>10. CASE Advance
  BY <1>10 DEF Advance
<1>11. CASE StepClock
  BY <1>11 DEF StepClock
<1>12. CASE Cancel
  BY <1>12 DEF Cancel, observers
<1>13. CASE UNCHANGED vars
  BY <1>13 DEF vars
<1> QED
  BY <1>1, <1>2, <1>3, <1>4, <1>5, <1>6, <1>7, <1>8, <1>9, <1>10, <1>11,
     <1>12, <1>13 DEF Next, Loop

\* The variables keep their types: in particular no behaviour of the clocks
\* makes a wait longer than MaxLag count for more.
THEOREM Typing == Spec => []TypeOK
<1>1. Init => TypeOK
  BY InitTypes
<1>2. TypeOK /\ [Next]_vars => TypeOK'
  BY TypeStep
<1> QED
  BY <1>1, <1>2, PTL DEF Spec

-------------------------------------------------------------------------------
(* Order of ticks.  The loop never compares an instant with the last bucket; *)
(* that the next bucket is later follows from how `next`, the bucket and the *)
(* two clocks relate between one reading of a clock and the next.            *)

\* Run has made its first `next` and has not returned.
InLoop == pc \in {"loop", "overrun", "rearm", "waiting"}

Order ==
    /\ pc \in {"startup", "init"} => bucket = NoBucket
    /\ pc = "ticking" => bucket # NoBucket /\ bucket <= next
    /\ InLoop /\ ~rewound /\ bucket # NoBucket => bucket + Interval <= next

\* What an overrun has observed stays true, although time goes on: the clock
\* has passed `next`.
Passed == pc = "overrun" /\ ~rewound => next < wall

IInv == TypeOK /\ Order /\ Passed

\* Nothing has been ordered yet.
LEMMA OrderInit == Init => Order /\ Passed
BY BoundsAssumption DEF Init, Order, Passed, InLoop, BoundsAssumption

\* Every step keeps `next` ahead of the last bucket.
LEMMA OrderStep ==
    ASSUME IInv, [Next]_vars
    PROVE  Order' /\ Passed'
<1> USE IntervalAssumption, BoundsAssumption, NoBucketAssumption
    DEF IntervalAssumption, BoundsAssumption, NoBucketAssumption, IInv, TypeOK, Order, Passed, InLoop
<1>1. CASE StartupElapsed
  BY <1>1 DEF StartupElapsed, observers
<1>2. CASE FirstNext
  BY <1>2, NextTickBounds DEF FirstNext, FreshWait
<1>3. CASE ArmOnTime
  BY <1>3 DEF ArmOnTime, FreshWait, observers
<1>4. CASE Overrun
  BY <1>4 DEF Overrun, Until, observers
<1>5. CASE Recompute
  BY <1>5, NextTickBounds DEF Recompute, FreshWait
<1>6. CASE ArmRecomputed
  BY <1>6 DEF ArmRecomputed, observers
<1>7. CASE Fire
  BY <1>7, TruncateBounds DEF Fire, BucketStart, observers
<1>8. CASE FinishTick
  BY <1>8 DEF FinishTick, observers
<1>9. CASE StopWaiting
  BY <1>9 DEF StopWaiting, observers
<1>10. CASE Advance
  BY <1>10 DEF Advance
<1>11. CASE StepClock
  <2>1. PICK d \in ClockSteps :
          /\ wall' = wall + d
          /\ rewound' = (rewound \/ (d < 0 /\ pc = "overrun"))
    BY <1>11 DEF StepClock
  <2>2. UNCHANGED <<pc, next, bucket>>
    BY <1>11 DEF StepClock
  <2>3. ~rewound' => ~rewound /\ ~(d < 0 /\ pc = "overrun")
    BY <2>1, Zenon
  <2> QED
    BY <2>1, <2>2, <2>3
<1>12. CASE Cancel
  BY <1>12 DEF Cancel, observers
<1>13. CASE UNCHANGED vars
  BY <1>13 DEF vars
<1> QED
  BY <1>1, <1>2, <1>3, <1>4, <1>5, <1>6, <1>7, <1>8, <1>9, <1>10, <1>11,
     <1>12, <1>13 DEF Next, Loop

\* The inductive invariant of the order of ticks.
LEMMA Invariance == Spec => []IInv
<1>1. Init => IInv
  <2>1. Init => Order /\ Passed
    BY OrderInit
  <2> QED
    BY <2>1, InitTypes DEF IInv
<1>2. IInv /\ [Next]_vars => IInv'
  BY TypeStep, OrderStep DEF IInv
<1> QED
  BY <1>1, <1>2, PTL DEF Spec

\* A step of the loop is a step of TickSource or leaves its variables alone.
LEMMA StepIsTick ==
    ASSUME IInv, [Next]_vars
    PROVE  [Ticks!Next]_(Ticks!vars)
<1> USE IntervalAssumption, NoBucketAssumption
    DEF IntervalAssumption, NoBucketAssumption, IInv, TypeOK, Order, InLoop,
        Ticks!Next, Ticks!vars
<1>1. CASE Fire
  <2>1. BucketStart(next) \in Int
    BY TruncateBounds DEF BucketStart
  <2>2. bucket # NoBucket /\ ~rewound => BucketStart(next) > bucket
    BY <1>1, TruncateBounds DEF BucketStart, Fire
  <2> QED
    BY <1>1, <2>1, <2>2 DEF Fire, observers, Ticks!Begin
<1>2. CASE FinishTick
  BY <1>2 DEF FinishTick, observers, Ticks!End
<1>3. CASE StopWaiting
  BY <1>3 DEF StopWaiting, observers, Ticks!Stop
<1>4. CASE StepClock
  BY <1>4 DEF StepClock, Ticks!Rewind
<1>5. CASE StartupElapsed \/ FirstNext \/ ArmOnTime \/ Overrun \/ Recompute \/ ArmRecomputed
  BY <1>5 DEF StartupElapsed, FirstNext, ArmOnTime, Overrun, Recompute,
              ArmRecomputed, FreshWait, observers
<1>6. CASE Advance \/ Cancel \/ UNCHANGED vars
  BY <1>6 DEF Advance, Cancel, observers, vars
<1> QED
  BY <1>1, <1>2, <1>3, <1>4, <1>5, <1>6 DEF Next, Loop

\* Scheduler implements TickSource: ticks run one at a time and each is for a
\* later bucket than the one before, for every interval, with and without
\* alignment, however long a tick takes and however the clock is stepped,
\* save for steps back where the promise excludes them.
THEOREM TicksAreInOrder == Spec => TicksInOrder
<1>1. Init => Ticks!Init
  BY DEF Init, Ticks!Init
<1>2. IInv /\ [Next]_vars => [Ticks!Next]_(Ticks!vars)
  BY StepIsTick
<1> QED
  BY <1>1, <1>2, Invariance, PTL DEF Spec, TicksInOrder, Ticks!Spec

\* After an overrun Run goes on at the first boundary after now: it neither
\* replays a boundary that has passed nor skips one that is still to come.
THEOREM ResumesAtFirst == Spec => ResumesAtFirstBoundary
<1>1. TypeOK /\ [Next]_vars
      => [pc = "overrun" /\ pc' = "rearm"
            => /\ next' > wall
               /\ next' - Interval <= wall]_vars
  <2> SUFFICES ASSUME TypeOK, Next, pc = "overrun", pc' = "rearm"
               PROVE  next' > wall /\ next' - Interval <= wall
    OBVIOUS
  <2>1. Recompute
    BY DEF Next, Loop, StartupElapsed, FirstNext, ArmOnTime, Overrun, Recompute,
           ArmRecomputed, Fire, FinishTick, StopWaiting, Advance, StepClock, Cancel
  <2> QED
    BY <2>1, NextTickBounds, IntervalAssumption
    DEF Recompute, TypeOK, IntervalAssumption
<1> QED
  BY <1>1, Typing, PTL DEF Spec, ResumesAtFirstBoundary

-------------------------------------------------------------------------------
(* Ticks on time.  How far the clock is from `next` when the timer fires     *)
(* follows from how the two clocks have drifted apart since the wait began.  *)

\* The instant is a boundary.
Aligned(t) == \E k \in Int : t = Interval * k

\* How long ago `next` was, by the wall clock, and the timer's instant, by the
\* monotonic one.
SinceNext == wall - next
SinceTimer == mono - timer

\* The loop has its first `next`.
AfterFirst == {"loop", "overrun", "rearm", "waiting", "ticking"}

Timing ==
    /\ pc \in AfterFirst /\ opts.alignToStart => Aligned(next)
    /\ pc = "rearm" => SinceNext <= lag + forth
    /\ pc = "waiting" =>
         /\ -back <= SinceNext - SinceTimer /\ SinceNext - SinceTimer <= forth
         /\ SinceTimer >= 0 => SinceNext <= lag + forth

LEMMA TruncateAligns ==
    ASSUME NEW t \in Int
    PROVE  Aligned(Truncate(t))
<1> DEFINE q == t \div Interval  r == t % Interval
<1>1. q \in Int /\ r \in Int /\ t = Interval * q + r
  BY IntervalAssumption, SMT DEF IntervalAssumption
<1>2. Interval * q \in Int
  BY <1>1, IntervalAssumption, SMT DEF IntervalAssumption
<1>3. Truncate(t) = Interval * q
  <2> HIDE DEF q
  <2> QED
    BY <1>1, <1>2 DEF Truncate
<1> QED
  BY <1>1, <1>3 DEF Aligned

LEMMA NextBoundary ==
    ASSUME NEW t \in Int, Aligned(t)
    PROVE  Aligned(t + Interval)
<1>1. PICK k \in Int : t = Interval * k
  BY DEF Aligned
<1>2. t + Interval = Interval * (k + 1)
  BY <1>1, IntervalAssumption, SMT DEF IntervalAssumption
<1> QED
  BY <1>2 DEF Aligned

\* Truncate keeps boundaries.
LEMMA TruncateKeeps ==
    ASSUME NEW t \in Int, Aligned(t)
    PROVE  Truncate(t) = t
<1> DEFINE q == t \div Interval  r == t % Interval
<1>1. PICK k \in Int : t = Interval * k
  BY DEF Aligned
<1>2. q \in Int /\ r \in 0 .. Interval - 1 /\ t = Interval * q + r
  BY IntervalAssumption, SMT DEF IntervalAssumption
<1>3. \A m, n \in Int : m <= n => Interval * m <= Interval * n
  BY IntervalAssumption, SMT DEF IntervalAssumption
<1>4. \A m \in Int : Interval * m \in Int /\ Interval * (m + 1) = Interval * m + Interval
  BY IntervalAssumption, SMT DEF IntervalAssumption
<1> HIDE DEF q, r
<1>5. ~(k >= q + 1)
  <2> SUFFICES ASSUME k >= q + 1 PROVE FALSE
    OBVIOUS
  <2>1. Interval * (q + 1) <= Interval * k
    BY <1>2, <1>3
  <2> QED
    BY <1>1, <1>2, <1>4, <2>1, IntervalAssumption DEF IntervalAssumption
<1>6. k >= q
  <2> SUFFICES ASSUME k + 1 <= q PROVE FALSE
    BY <1>2
  <2>1. Interval * (k + 1) <= Interval * q
    BY <1>2, <1>3
  <2> QED
    BY <1>1, <1>2, <1>4, <2>1, IntervalAssumption DEF IntervalAssumption
<1>7. k = q
  BY <1>2, <1>5, <1>6
<1>8. r = 0
  BY <1>1, <1>2, <1>4, <1>7
<1> QED
  BY <1>8 DEF Truncate, r

\* In aligned mode NextTick is a boundary.
LEMMA NextTickAligned ==
    ASSUME wall \in Int, opts.alignToStart
    PROVE  Aligned(NextTick)
BY TruncateBounds, TruncateAligns, NextBoundary DEF NextTick

LEMMA TimingStep ==
    ASSUME TypeOK, Timing, [Next]_vars
    PROVE  Timing'
<1> USE IntervalAssumption, BoundsAssumption
    DEF IntervalAssumption, BoundsAssumption, AfterFirst, SinceNext, SinceTimer
<1>1. /\ wall \in Int /\ mono \in Nat /\ next \in Int /\ timer \in Int
      /\ back \in Nat /\ forth \in Nat /\ lag \in Nat
  BY DEF TypeOK
<1>2. opts' = opts
  BY DEF vars, Next, Loop, StartupElapsed, FirstNext, ArmOnTime, Overrun, Recompute,
         ArmRecomputed, Fire, FinishTick, StopWaiting, Advance, StepClock, Cancel
<1>3. \A t : Aligned(t)' <=> Aligned(t)
  BY DEF Aligned
<1>4. CASE StartupElapsed \/ StopWaiting
  BY <1>4 DEF StartupElapsed, StopWaiting, Timing
<1>5. CASE FirstNext
  <2>1. pc' = "loop" /\ next' = NextTick
    BY <1>5 DEF FirstNext
  <2> QED
    BY <1>1, <1>2, <1>3, <2>1, NextTickAligned DEF Timing
<1>6. CASE ArmOnTime
  <2>1. /\ pc = "loop" /\ pc' = "waiting" /\ next' = next /\ wall' = wall /\ mono' = mono
        /\ timer' = mono + (next - wall) /\ next - wall >= 0
        /\ back' = 0 /\ forth' = 0 /\ lag' = 0
    BY <1>6 DEF ArmOnTime, Until, FreshWait
  <2> QED
    BY <1>1, <1>2, <1>3, <2>1 DEF Timing
<1>7. CASE Overrun
  BY <1>2, <1>3, <1>7 DEF Overrun, Timing
<1>8. CASE Recompute
  <2>1. /\ pc' = "rearm" /\ next' = NextTick /\ wall' = wall
        /\ back' = 0 /\ forth' = 0 /\ lag' = 0
    BY <1>8 DEF Recompute, FreshWait
  <2>2. opts.alignToStart => Aligned(next')
    BY <1>1, <2>1, NextTickAligned
  <2>3. NextTick \in Int /\ wall < NextTick
    BY <1>1, NextTickBounds
  <2> QED
    BY <1>1, <1>2, <1>3, <2>1, <2>2, <2>3 DEF Timing
<1>9. CASE ArmRecomputed
  <2>1. /\ pc = "rearm" /\ pc' = "waiting" /\ next' = next /\ wall' = wall /\ mono' = mono
        /\ timer' = mono + (next - wall)
        /\ back' = back /\ forth' = forth /\ lag' = lag
    BY <1>9 DEF ArmRecomputed, Until, observers
  <2> QED
    BY <1>1, <1>2, <1>3, <2>1 DEF Timing
<1>10. CASE Fire
  BY <1>2, <1>3, <1>10 DEF Fire, Timing
<1>11. CASE FinishTick
  <2>1. pc = "ticking" /\ pc' = "loop" /\ next' = next + Interval
    BY <1>11 DEF FinishTick
  <2>2. opts.alignToStart => Aligned(next + Interval)
    BY <1>1, <2>1, NextBoundary DEF Timing
  <2> QED
    BY <1>2, <1>3, <2>1, <2>2 DEF Timing
<1>12. CASE Advance
  <2>1. /\ pc' = pc /\ next' = next /\ timer' = timer /\ back' = back /\ forth' = forth
        /\ wall' = wall + 1 /\ mono' = mono + 1
        /\ lag' = IF Delayed THEN lag + 1 ELSE lag
    BY <1>12 DEF Advance
  <2>2. pc \in AfterFirst /\ opts.alignToStart => Aligned(next)
    BY DEF Timing
  <2>3. CASE pc = "rearm"
    BY <1>1, <1>2, <1>3, <2>1, <2>2, <2>3 DEF Timing, Delayed
  <2>4. CASE pc = "waiting"
    BY <1>1, <1>2, <1>3, <2>1, <2>2, <2>4 DEF Timing, Delayed
  <2> QED
    BY <1>2, <1>3, <2>1, <2>2, <2>3, <2>4 DEF Timing
<1>13. CASE StepClock
  <2>1. PICK d \in ClockSteps :
          /\ wall' = wall + d
          /\ IF d < 0
             THEN back' = back - d /\ forth' = forth
             ELSE back' = back /\ forth' = forth + d
    BY <1>13 DEF StepClock
  <2>2. UNCHANGED <<pc, mono, next, timer, lag>>
    BY <1>13 DEF StepClock
  <2>3. pc \in AfterFirst /\ opts.alignToStart => Aligned(next)
    BY DEF Timing
  <2>4. d \in Int
    BY <2>1
  <2> QED
    BY <1>1, <1>2, <1>3, <2>1, <2>2, <2>3, <2>4 DEF Timing
<1>14. CASE Cancel \/ UNCHANGED vars
  BY <1>2, <1>3, <1>14 DEF Cancel, vars, observers, Timing
<1> QED
  BY <1>4, <1>5, <1>6, <1>7, <1>8, <1>9, <1>10, <1>11, <1>12, <1>13, <1>14
  DEF Next, Loop

\* A tick starts neither before its bucket nor, unless the clock is set
\* forward during the wait, more than MaxLag after it: whatever the interval,
\* the overrun and the steps of the clock.
THEOREM TicksAreOnTime == Spec => TickOnTime
<1>1. Init => Timing
  BY DEF Init, Timing, AfterFirst
<1>2. TypeOK /\ Timing /\ [Next]_vars => Timing'
  BY TimingStep
<1>3. TypeOK /\ Timing /\ [Next]_vars
      => [pc = "waiting" /\ pc' = "ticking"
            => wall - bucket' \in -back .. MaxLag + forth]_vars
  <2> SUFFICES ASSUME TypeOK, Timing, Next, pc = "waiting", pc' = "ticking"
               PROVE  wall - bucket' \in -back .. MaxLag + forth
    OBVIOUS
  <2>1. Fire
    BY DEF Next, Loop, StartupElapsed, FirstNext, ArmOnTime, Overrun, Recompute,
           ArmRecomputed, Fire, FinishTick, StopWaiting, Advance, StepClock, Cancel
  <2>2. bucket' = next
    BY <2>1, TruncateKeeps DEF Fire, BucketStart, Timing, AfterFirst, TypeOK
  <2>3. /\ wall \in Int /\ mono \in Nat /\ next \in Int /\ timer \in Int
        /\ back \in Nat /\ forth \in Nat /\ lag \in 0 .. MaxLag /\ MaxLag \in Nat
    BY BoundsAssumption DEF TypeOK, BoundsAssumption
  <2>4. mono >= timer
    BY <2>1 DEF Fire
  <2> QED
    BY <2>2, <2>3, <2>4 DEF Timing, SinceNext, SinceTimer
<1> QED
  BY <1>1, <1>2, <1>3, Typing, PTL DEF Spec, TickOnTime
===============================================================================
