---------------------------- MODULE MCAdvisoryLock ----------------------------
(* Constants for checking AdvisoryLock with TLC.  Processes and connections *)
(* are interchangeable.                                                     *)
EXTENDS AdvisoryLock, TLC

MCSymmetry == Permutations(Procs) \cup Permutations(Conns)
===============================================================================
