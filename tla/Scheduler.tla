------------------------------- MODULE Scheduler -------------------------------
(***************************************************************************)
(* internal/scheduler/scheduler.go: the loop that waits for the next       *)
(* aligned instant, runs the tick function for its bucket and goes on.     *)
(*                                                                         *)
(* There are two clocks.  `wall` is the host's UTC clock, which an         *)
(* administrator or NTP may step; `mono` is the monotonic clock that Go    *)
(* timers count on.  time.Now() reads both, but UTC() and Truncate() drop  *)
(* the monotonic reading: `next` is a wall reading in either mode, and     *)
(* time.Until(next) compares it with the wall clock.                       *)
(*                                                                         *)
(* One unit of time is an arbitrary fraction of the interval.              *)
(***************************************************************************)
EXTENDS Integers

CONSTANTS
    Interval,          \* Options.Interval, in units of time
    MaxStartupDelay,   \* bound: greatest Options.StartupDelay
    ClockSteps,        \* amounts by which the wall clock may be stepped
    MaxClockSteps,     \* bound: how many steps a behaviour may hold
    MaxLag,            \* bound: units a runnable goroutine waits for the CPU
                       \* between computing a wait and starting its tick
    Horizon,           \* bound: no wait is begun later than this
    NoBucket

\* New panics on an interval that is not positive (scheduler.go:28).
ASSUME IntervalAssumption == Interval \in Nat \ {0}
ASSUME BoundsAssumption ==
    /\ MaxStartupDelay \in Nat
    /\ ClockSteps \subseteq Int
    /\ MaxClockSteps \in Nat
    /\ MaxLag \in Nat
    /\ Horizon \in Nat
ASSUME NoBucketAssumption == NoBucket \notin Int

VARIABLES
    opts,              \* Scheduler.opts: AlignToStart and StartupDelay
    pc,                \* where Run is
    wall,              \* time.Now().UTC(), the wall reading
    mono,              \* time.Now(), the monotonic reading
    next,              \* Run's local variable next
    timer,             \* monotonic instant at which the armed timer fires
    bucket,            \* Run's local variable bucket; NoBucket before a tick
    cancelled,         \* ctx is done
    steps,             \* clock steps so far
    back,              \* observer: clock set back by this since the wait began
    forth,             \* observer: clock set forward by this since then
    lag,               \* observer: units lost to a slow goroutine since then
    rewound            \* observer: the clock was set back between the two
                       \* readings of an overrun

vars == <<opts, pc, wall, mono, next, timer, bucket, cancelled, steps,
          back, forth, lag, rewound>>

observers == <<back, forth, lag, rewound>>

-------------------------------------------------------------------------------
(* Time arithmetic. *)

\* time.Time.Truncate
Truncate(t) == t - (t % Interval)

\* time.Until
Until(t) == t - wall

\* A variant that returns the boundary the clock stands on.
NextTickOnBoundary ==
    IF opts.alignToStart
    THEN IF wall % Interval = 0 THEN wall ELSE Truncate(wall) + Interval
    ELSE wall + Interval

\* Scheduler.nextTick(time.Now().UTC()): the first boundary strictly after
\* now.  Truncate never exceeds its argument, so the code's test
\* `!bucket.After(now)` always succeeds.
NextTick == (IF opts.alignToStart THEN Truncate(wall) ELSE wall) + Interval

\* A variant that labels the tick by the clock instead of by `next`.
BucketStartOfNow(t) == IF opts.alignToStart THEN Truncate(wall) ELSE t

\* Scheduler.bucketStart
BucketStart(t) == IF opts.alignToStart THEN Truncate(t) ELSE t

-------------------------------------------------------------------------------
(* The loop. *)

Init ==
    /\ opts \in [alignToStart : BOOLEAN, startupDelay : 0 .. MaxStartupDelay]
    /\ pc = IF opts.startupDelay > 0 THEN "startup" ELSE "init"
    /\ wall \in 0 .. Interval - 1
    /\ mono = 0
    /\ next = 0
    /\ timer = opts.startupDelay
    /\ bucket = NoBucket
    /\ cancelled = FALSE
    /\ steps = 0
    /\ back = 0
    /\ forth = 0
    /\ lag = 0
    /\ rewound = FALSE

\* The observers start anew with a wait.
FreshWait ==
    /\ back' = 0
    /\ forth' = 0
    /\ lag' = 0
    /\ UNCHANGED rewound

\* The startup timer fires.
StartupElapsed ==
    /\ pc = "startup"
    /\ mono >= timer
    /\ pc' = "init"
    /\ UNCHANGED <<opts, wall, mono, next, timer, bucket, cancelled, steps, observers>>

\* next := s.nextTick(time.Now().UTC())
FirstNext ==
    /\ pc = "init"
    /\ next' = NextTick
    /\ pc' = "loop"
    /\ FreshWait
    /\ UNCHANGED <<opts, wall, mono, timer, bucket, cancelled, steps>>

\* delay := time.Until(next) is not negative: arm a timer for it.
ArmOnTime ==
    /\ pc = "loop"
    /\ mono <= Horizon
    /\ Until(next) >= 0
    /\ timer' = mono + Until(next)
    /\ pc' = "waiting"
    /\ FreshWait
    /\ UNCHANGED <<opts, wall, mono, next, bucket, cancelled, steps>>

\* delay := time.Until(next) is negative: the last tick overran.
Overrun ==
    /\ pc = "loop"
    /\ mono <= Horizon
    /\ Until(next) < 0
    /\ pc' = "overrun"
    /\ UNCHANGED <<opts, wall, mono, next, timer, bucket, cancelled, steps, observers>>

\* next = s.nextTick(time.Now().UTC()), on a second reading of the clock.
Recompute ==
    /\ pc = "overrun"
    /\ next' = NextTick
    /\ pc' = "rearm"
    /\ FreshWait
    /\ UNCHANGED <<opts, wall, mono, timer, bucket, cancelled, steps>>

\* delay = time.Until(next), on a third reading: the delay may be negative
\* again, and such a timer fires at once.
ArmRecomputed ==
    /\ pc = "rearm"
    /\ timer' = mono + Until(next)
    /\ pc' = "waiting"
    /\ UNCHANGED <<opts, wall, mono, next, bucket, cancelled, steps, observers>>

\* A variant that misses a timer it does not see at its very instant.
FireOnTheInstant ==
    /\ pc = "waiting"
    /\ mono = timer
    /\ bucket' = BucketStart(next)
    /\ pc' = "ticking"
    /\ UNCHANGED <<opts, wall, mono, next, timer, cancelled, steps, observers>>

\* select: the timer case.
Fire ==
    /\ pc = "waiting"
    /\ mono >= timer
    /\ bucket' = BucketStart(next)
    /\ pc' = "ticking"
    /\ UNCHANGED <<opts, wall, mono, next, timer, cancelled, steps, observers>>

\* select: the ctx.Done case, at startup and in the loop.
StopWaiting ==
    /\ pc \in {"startup", "waiting"}
    /\ cancelled
    /\ pc' = "stopped"
    /\ UNCHANGED <<opts, wall, mono, next, timer, bucket, cancelled, steps, observers>>

\* A variant that derives the next instant from the clock after each tick.
FinishTickFromClock ==
    /\ pc = "ticking"
    /\ next' = NextTick
    /\ pc' = "loop"
    /\ UNCHANGED <<opts, wall, mono, timer, bucket, cancelled, steps, observers>>

\* A variant that hands the tick's error to the caller.
FinishTickWithError ==
    /\ pc = "ticking"
    /\ next' = next + Interval
    /\ pc' \in {"loop", "failed"}
    /\ UNCHANGED <<opts, wall, mono, timer, bucket, cancelled, steps, observers>>

\* The tick function returns; its error is only logged.
FinishTick ==
    /\ pc = "ticking"
    /\ next' = next + Interval
    /\ pc' = "loop"
    /\ UNCHANGED <<opts, wall, mono, timer, bucket, cancelled, steps, observers>>

-------------------------------------------------------------------------------
(* The environment. *)

\* The goroutine could run but has not been given the CPU.
Delayed == pc = "rearm" \/ (pc \in {"startup", "waiting"} /\ mono >= timer)

\* One unit of time passes.
Advance ==
    /\ pc # "stopped"
    /\ mono < Horizon \/ pc \in {"startup", "waiting"}
    /\ Delayed => lag < MaxLag
    /\ mono' = mono + 1
    /\ wall' = wall + 1
    /\ lag' = IF Delayed THEN lag + 1 ELSE lag
    /\ UNCHANGED <<opts, pc, next, timer, bucket, cancelled, steps, back, forth, rewound>>

\* The wall clock is stepped.  Between the two readings of an overrun a step
\* back counts for the order of ticks.
StepClock ==
    /\ pc # "stopped"
    /\ steps < MaxClockSteps
    /\ \E d \in ClockSteps :
         /\ wall + d >= 0
         /\ wall' = wall + d
         /\ IF d < 0
            THEN back' = back - d /\ forth' = forth
            ELSE back' = back /\ forth' = forth + d
         /\ rewound' = (rewound \/ (d < 0 /\ pc = "overrun"))
    /\ steps' = steps + 1
    /\ UNCHANGED <<opts, pc, mono, next, timer, bucket, cancelled, lag>>

\* SIGINT or SIGTERM cancels the context (app.go:79).
Cancel ==
    /\ ~cancelled
    /\ cancelled' = TRUE
    /\ UNCHANGED <<opts, pc, wall, mono, next, timer, bucket, steps, observers>>

Loop ==
    \/ StartupElapsed \/ FirstNext
    \/ ArmOnTime \/ Overrun \/ Recompute \/ ArmRecomputed
    \/ Fire \/ FinishTick

Next == Loop \/ StopWaiting \/ Advance \/ StepClock \/ Cancel

Spec == Init /\ [][Next]_vars

\* Time passes, the goroutine is scheduled and the tick function returns
\* (Watcher's TickCompletes).
Fairness == WF_vars(Advance) /\ WF_vars(Loop)

FairSpec == Spec /\ Fairness

-------------------------------------------------------------------------------
(* Properties. *)

\* Type invariant of the loop's variables.
TypeOK ==
    /\ opts \in [alignToStart : BOOLEAN, startupDelay : 0 .. MaxStartupDelay]
    /\ pc \in {"startup", "init", "loop", "overrun", "rearm", "waiting", "ticking", "stopped"}
    /\ wall \in Int
    /\ mono \in Nat
    /\ next \in Int
    /\ timer \in Int
    /\ bucket \in Int \cup {NoBucket}
    /\ cancelled \in BOOLEAN
    /\ steps \in 0 .. MaxClockSteps
    /\ back \in Nat
    /\ forth \in Nat
    /\ lag \in 0 .. MaxLag
    /\ rewound \in BOOLEAN

\* The scheduler implements TickSource: one tick at a time, for strictly
\* later buckets, whatever steps the clock makes and however long a tick
\* takes.  The code compares each new instant with a clock, never with the
\* last bucket, so the order rests on how the readings relate.
Ticks == INSTANCE TickSource WITH
    phase <- IF pc \in {"ticking", "stopped"} THEN pc ELSE "idle"

TicksInOrder == Ticks!Spec

\* A tick starts neither before its bucket nor long after it: unless the
\* clock is stepped during the wait, it starts within MaxLag of its bucket.
\* So no bucket that was missed is run late.
TickOnTime ==
    [][pc = "waiting" /\ pc' = "ticking"
         => wall - bucket' \in -back .. MaxLag + forth]_vars

\* After an overrun the loop resumes at the first boundary after now: it
\* neither replays a boundary that passed nor skips one still to come.
ResumesAtFirstBoundary ==
    [][pc = "overrun" /\ pc' = "rearm"
         => /\ next' > wall
            /\ next' - Interval <= wall]_vars

\* Every wait ends: a tick starts or Run returns.
WaitEnds == pc = "waiting" ~> pc \in {"ticking", "stopped"}
===============================================================================
