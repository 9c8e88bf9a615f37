-------------------------------- MODULE Simulate --------------------------------
(***************************************************************************)
(* `usdewatcher simulate-alert` (internal/cli/simulate.go and              *)
(* internal/app/simulate.go): one call of ProcessBucket in a fresh Service *)
(* with two rates from the command line, no store and the real notifier.   *)
(***************************************************************************)
EXTENDS Service

CONSTANT Simulator     \* the process that runs the command

VARIABLES
    outcome,           \* "new", "running" or what SimulateAlert returned
    attempted          \* observer: Notify was called

vars == <<serviceVars, outcome, attempted>>

Init ==
    /\ ServiceInit
    /\ outcome = "new"
    /\ attempted = FALSE

\* svc.ProcessBucket(ctx, bucket), for the current bucket
SimulateAlert ==
    /\ outcome = "new"
    /\ outcome' = "running"
    /\ \E b \in Buckets : Call(Simulator, b)
    /\ UNCHANGED <<head, attempted>>

\* The static fetchers cannot fail, and the rates are positive.
SimulateStep ==
    /\ \/ FetchOfficial(Simulator) \/ FetchHead(Simulator) \/ FetchMarket(Simulator)
       \/ Notify(Simulator) \/ NotifyFails(Simulator)
    /\ attempted' = (attempted \/ pc[Simulator] = "notify")
    /\ UNCHANGED <<head, outcome>>

SimulateReturns ==
    /\ Return(Simulator)
    /\ outcome' = result[Simulator]
    /\ UNCHANGED <<head, attempted>>

Next == SimulateAlert \/ SimulateStep \/ SimulateReturns

Spec == Init /\ [][Next]_vars

\* cli/simulate.go: the command simulates one deviation and triggers an
\* alert.  If the rates deviate by more than the threshold, the command does
\* not return without having called the notifier.
SimulationReachesNotifier ==
    outcome = "ok" /\ Breach(deviation[Simulator]) => attempted
===============================================================================
