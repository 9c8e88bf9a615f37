-------------------------------- MODULE Remotes --------------------------------
(***************************************************************************)
(* The three remote services and what their clients make of the answers:   *)
(* an Ethereum node (internal/fetcher/official.go), the CoW Protocol quote *)
(* service (internal/fetcher/market.go) and the Telegram Bot API           *)
(* (internal/alerting/notifier.go).                                        *)
(*                                                                         *)
(* A reply names the step of the call that failed, or holds the answer.    *)
(* Rates are integers: shares and atoms per hundred units sold, chosen so  *)
(* that the deviation is an integer too.                                   *)
(***************************************************************************)
EXTENDS Integers

CONSTANTS
    Shares,            \* answers of previewDeposit
    BuyAtoms,          \* amounts a quote may offer
    ReplicaLag         \* blocks by which a node behind the RPC endpoint may
                       \* be behind the chain

ASSUME RatesAssumption == Shares \subseteq Nat /\ BuyAtoms \subseteq Int
ASSUME ReplicaAssumption == ReplicaLag \in Nat

-------------------------------------------------------------------------------
(* Official.FetchOfficial makes two calls: the contract's answer as of the   *)
(* latest block, and then the number of the latest block.                    *)

\* The latest block of the node that happens to answer, when the chain is at
\* `head`.
LatestBlocks(head) == {h \in 0 .. head : head - ReplicaLag <= h}

\* The client cannot be dialled, the contract call fails, or its output does
\* not decode.
PreviewReplies ==
    {[failed |-> step, shares |-> 0] : step \in {"dial", "call", "unpack"}}
      \cup {[failed |-> "nothing", shares |-> s] : s \in Shares}

\* What ends in an error is the fetch; executeBucket turns down a rate of
\* zero, but only once the block number is there too.
PreviewSucceeds(r) == r.failed = "nothing"

-------------------------------------------------------------------------------
(* Market.FetchMarket. *)

\* The request or reading its body fails, the status is not 200, the body is
\* no quote, or its amount is no number.
MarketReplies ==
    {[failed |-> step, buy |-> 0] : step \in {"request", "status", "json", "amount"}}
      \cup {[failed |-> "nothing", buy |-> a] : a \in BuyAtoms}

\* A variant that takes a quote of zero for a rate.
MarketSucceedsWithZero(r) == r.failed = "nothing"

MarketSucceeds(r) == r.failed = "nothing" /\ r.buy # 0

\* (market / official - 1) * 100, in executeBucket
Deviation(official, market) == (market * 100) \div official - 100

-------------------------------------------------------------------------------
(* TelegramNotifier.Notify. *)

\* No answer arrives, its status is not 2xx, or its body says ok, not ok or
\* nothing that decodes.  Unless Telegram itself said ok or not ok, the
\* message may have been delivered or not.
NotifyReplies ==
    [answer : {"none", "status", "undecodable"}, delivered : BOOLEAN]
      \cup {[answer |-> "ok", delivered |-> TRUE],
            [answer |-> "not ok", delivered |-> FALSE]}

\* Notify returns an error except for a 2xx answer that does not say ok=false.
NotifySucceeds(r) == r.answer \in {"ok", "undecodable"}
===============================================================================
