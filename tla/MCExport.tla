-------------------------------- MODULE MCExport --------------------------------
(* Constants for checking Export with TLC. *)
EXTENDS Export

\* Six aligned buckets, two units of time apart.
MCBuckets == {0, 2, 4, 6, 8, 10}

\* Instants on a boundary and between two.
MCTimes == {0, 3, 8, 11}

\* Not given, one point, fewer than the window has, so many that the window's
\* length just fits when negated, and so many that it overflows.
MCOverrides == {0, 1, 3, 4, 16, 20, 36}

\* All rows hold the same deviation.
MCDeviations == {1}
===============================================================================
