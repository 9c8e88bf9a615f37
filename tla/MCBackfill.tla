------------------------------ MODULE MCBackfill ------------------------------
(* Constants for checking Backfill with TLC: one watcher, one backfill. *)
EXTENDS Backfill

MCBuckets == 0 .. LastBucket

MCShares == {0, 100}

\* Two deviations, so that a row that is replaced shows.
MCAmounts == {90, 110}

\* The deviations the rates can have.
MCDeviations == {Deviation(o, m) : o \in Shares \ {0}, m \in BuyAtoms \ {0}}
===============================================================================
