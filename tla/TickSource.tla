------------------------------ MODULE TickSource ------------------------------
(***************************************************************************)
(* What the sampling loop promises to the tick function it drives          *)
(* (internal/scheduler): ticks run one at a time, every tick is for a      *)
(* later bucket than the one before it, and after the loop has returned no *)
(* tick runs.  Missed buckets may be skipped; none is ever replayed.  The  *)
(* order is promised only as long as the host's clock is not set back      *)
(* where the loop depends on it.                                           *)
(*                                                                         *)
(* Scheduler is shown to implement this module.                            *)
(***************************************************************************)
EXTENDS Integers

CONSTANT NoBucket      \* "no tick has run yet"

VARIABLES
    phase,             \* "idle", "ticking" or "stopped"
    bucket,            \* the bucket of the last tick, or NoBucket
    rewound            \* the clock was set back under the loop

vars == <<phase, bucket, rewound>>

Init ==
    /\ phase = "idle"
    /\ bucket = NoBucket
    /\ rewound = FALSE

Begin ==
    /\ phase = "idle"
    /\ phase' = "ticking"
    /\ bucket' \in Int
    /\ bucket # NoBucket /\ ~rewound => bucket' > bucket
    /\ UNCHANGED rewound

End ==
    /\ phase = "ticking"
    /\ phase' = "idle"
    /\ UNCHANGED <<bucket, rewound>>

Stop ==
    /\ phase = "idle"
    /\ phase' = "stopped"
    /\ UNCHANGED <<bucket, rewound>>

Rewind ==
    /\ phase # "stopped"
    /\ rewound' = TRUE
    /\ UNCHANGED <<phase, bucket>>

Next == Begin \/ End \/ Stop \/ Rewind

Spec == Init /\ [][Next]_vars
===============================================================================
