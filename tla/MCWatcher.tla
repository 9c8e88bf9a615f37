-------------------------------- MODULE MCWatcher --------------------------------
(* Constants for checking Watcher with TLC.  All processes are instances of  *)
(* the same program, configured alike, and so are interchangeable; so are    *)
(* the connections.                                                          *)
EXTENDS Watcher, TLC

MCBuckets == 0 .. LastBucket

\* A broken contract answers zero.
MCShares == {0, 100}

\* With threshold 9, which is exclusive, and columns that count in eights up to
\* 16: the deviation 9 is calm, 10 is a breach but is stored as 8 like the
\* threshold, and -20 does not fit the column.
MCAmounts == {0, 109, 110, 80}

\* Only breaches, in both directions.
MCAmountsBothWays == {0, 90, 110}

\* The deviations the rates can have.
MCDeviations == {Deviation(o, m) : o \in Shares \ {0}, m \in BuyAtoms \ {0}}

\* One bucket back or forth.
MCStepsBothWays == {-1, 1}

MCSymmetry == Permutations(Procs) \cup Permutations(Conns)
===============================================================================
