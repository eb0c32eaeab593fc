-------------------------- MODULE EngineRefinement --------------------------
(***************************************************************************)
(* MatchingEngine implements Exchange.  The resting orders are those in    *)
(* the levels, except the one whose call still runs: addOrder may rest an  *)
(* IOC remainder that submitOrder then takes off, and no caller sees it.   *)
(***************************************************************************)
EXTENDS MatchingEngine

Promise == INSTANCE Exchange WITH
    next   <- next_order_id_,
    sent   <- [i \in Submitted |-> order[i]],
    open   <- [i \in {x \in Id \ {taker} : Resting(x)} |-> remaining_qty[i]],
    active <- taker,
    need   <- remaining,
    filled <- [i \in Submitted |-> filled[i]],
    reply  <- <<result.id, result.status>>

(* Without icebergs, every behaviour of the engine is one of Exchange:     *)
(* levels, queues, index and cached totals together give exactly the best  *)
(* price first and the oldest order at it, each trade once, and every call *)
(* is answered and returns.  The answers are those the code gives, what    *)
(* order.hpp:15 says of Accepted aside: the rest of a market order is      *)
(* Accepted and stands nowhere, which Exchange permits (see its Verdict).  *)
ImplementsExchange == Promise!Spec
=============================================================================
