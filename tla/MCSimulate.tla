------------------------------ MODULE MCSimulate ------------------------------
(* Constants for checking Simulate with TLC. *)
EXTENDS Simulate

\* The static fetchers return the rates of the command line.
MCShares == {100}

MCAmounts == {90, 100, 109, 110}

\* The deviations the rates can have.
MCDeviations == {Deviation(o, m) : o \in Shares \ {0}, m \in BuyAtoms \ {0}}
===============================================================================
