------------------------------ MODULE MCScheduler ------------------------------
(* Constants for checking Scheduler with TLC. *)
EXTENDS Scheduler

\* A step back of more than an interval, a small one, and one forward.
MCStepsBothWays == {-4, -1, 2}
===============================================================================
