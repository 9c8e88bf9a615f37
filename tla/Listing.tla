-------------------------------- MODULE Listing ---------------------------------
(***************************************************************************)
(* ORDER BY bucket_ts: the rows a statement of internal/storage selects,   *)
(* each once and by their bucket.  The sequence is defined by the rank of  *)
(* its elements, so that ListingProofs can reason about it.                *)
(***************************************************************************)
EXTENDS Integers, FiniteSets

\* How many elements of S are below n.
Rank(S, n) == Cardinality({m \in S : m < n})

\* The elements of S in ascending order.
Ascending(S) == [i \in 1 .. Cardinality(S) |-> CHOOSE n \in S : Rank(S, n) = i - 1]
===============================================================================
