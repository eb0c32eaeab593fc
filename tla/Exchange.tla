------------------------------ MODULE Exchange ------------------------------
(***************************************************************************)
(* What a matching engine without icebergs promises its callers, with no   *)
(* levels, queues, index or cached totals: the book is the set of resting  *)
(* orders and the quantity each still offers.  An order that arrives       *)
(* trades with the best acceptable resting order, the oldest first, until  *)
(* it wants no more or nothing acceptable is left; then it rests or goes.  *)
(***************************************************************************)
EXTENDS Integers, FiniteSetsExt

CONSTANTS
    MaxOrders,   \* bound: number of orders
    Request      \* the orders callers may send

VARIABLES
    next,        \* the id of the next order
    sent,        \* [1 .. next - 1 -> Request]
    open,        \* [resting ids -> the quantity each offers]
    active,      \* the order trading now, 0 if none
    need,        \* the quantity it still wants
    filled,      \* [1 .. next - 1 -> Nat]: the quantity each order has traded
    reply        \* <<id, status>>, what the last call was told

vars == <<next, sent, open, active, need, filled, reply>>

Waiting == <<0, "None">>
Extend(f, k, v) == [x \in DOMAIN f \cup {k} |-> IF x = k THEN v ELSE f[x]]
Drop(f, k) == [x \in DOMAIN f \ {k} |-> f[x]]

Init ==
    /\ next = 1
    /\ sent = <<>>
    /\ open = <<>>
    /\ active = 0
    /\ need = 0
    /\ filled = <<>>
    /\ reply = Waiting

(* The resting orders that r may trade with, and those among them that     *)
(* nothing beats on price or, at the same price, on age                    *)
Acceptable(r) ==
    {m \in DOMAIN open :
        /\ sent[m].side # r.side
        /\ \/ r.type = "Market"
           \/ r.side = "Bid" /\ sent[m].price <= r.price
           \/ r.side = "Ask" /\ sent[m].price >= r.price}

Beats(x, m, r) ==
    \/ IF r.side = "Bid" THEN sent[x].price < sent[m].price ELSE sent[x].price > sent[m].price
    \/ sent[x].price = sent[m].price /\ x < m

Offered(r) == MapThenSumSet(LAMBDA m : open[m], Acceptable(r))

Arrive(r) ==
    /\ active = 0
    /\ next <= MaxOrders
    /\ next' = next + 1
    /\ sent' = Extend(sent, next, r)
    /\ filled' = Extend(filled, next, 0)

(* Post-only: rest without trading, or be turned away *)
ArrivePassive(r) ==
    /\ r.type = "PostOnly"
    /\ Arrive(r)
    /\ IF Acceptable(r) = {}
         THEN /\ open' = Extend(open, next, r.total_qty)
              /\ reply' = <<next, "Accepted">>
         ELSE /\ reply' = <<next, "Rejected">>
              /\ UNCHANGED open
    /\ UNCHANGED <<active, need>>

(* Fill-or-kill: turned away unless all of it is on offer *)
Kill(r) ==
    /\ r.type = "FOK"
    /\ Offered(r) < r.total_qty
    /\ Arrive(r)
    /\ reply' = <<next, "Cancelled">>
    /\ UNCHANGED <<open, active, need>>

ArriveActive(r) ==
    /\ r.type # "PostOnly"
    /\ r.type = "FOK" => Offered(r) >= r.total_qty
    /\ Arrive(r)
    /\ active' = next
    /\ need' = r.total_qty
    /\ reply' = Waiting
    /\ UNCHANGED open

Trade ==
    /\ active # 0
    /\ need > 0
    /\ \E m \in Acceptable(sent[active]) :
          /\ \A x \in Acceptable(sent[active]) : ~Beats(x, m, sent[active])
          /\ LET q == Min({need, open[m]}) IN
                /\ need' = need - q
                /\ open' = IF q = open[m] THEN Drop(open, m) ELSE [open EXCEPT ![m] = @ - q]
                /\ filled' = [filled EXCEPT ![m] = @ + q, ![active] = @ + q]
    /\ UNCHANGED <<next, sent, active, reply>>

(* What an order whose trading is over is told.  No case covers a          *)
(* fill-or-kill order with a rest: there is none.  A market order with a   *)
(* rest is Accepted although nothing of it enters the book (Finish): that  *)
(* is what the engine answers, not what order.hpp:15 says of Accepted.     *)
Verdict(r, rest) ==
    CASE rest = 0                                        -> "Filled"
      [] rest > 0 /\ r.type = "IOC" /\ rest = r.total_qty -> "Cancelled"
      [] rest > 0 /\ r.type = "IOC" /\ rest < r.total_qty -> "PartialFill"
      [] rest > 0 /\ r.type \in {"Limit", "Market"}       -> "Accepted"

Finish ==
    LET r == sent[active] IN
    /\ active # 0
    /\ need = 0 \/ Acceptable(r) = {}
    /\ reply' = <<active, Verdict(r, need)>>
    /\ open' = IF need > 0 /\ r.type = "Limit" THEN Extend(open, active, need) ELSE open
    /\ active' = 0
    /\ need' = 0
    /\ UNCHANGED <<next, sent, filled>>

Cancel(i) ==
    /\ active = 0
    /\ i \in DOMAIN open
    /\ open' = Drop(open, i)
    /\ reply' = <<0, "CancelTrue">>
    /\ UNCHANGED <<next, sent, active, need, filled>>

(* Of an order that is not resting the caller may be told either: the     *)
(* engine never forgets where an order stood that was filled there.        *)
CancelNothing(i) ==
    /\ active = 0
    /\ i \notin DOMAIN open
    /\ \/ reply' = <<0, "CancelFalse">>
       \/ i < next /\ filled[i] = sent[i].total_qty /\ reply' = <<0, "CancelTrue">>
    /\ UNCHANGED <<next, sent, open, active, need, filled>>

Next ==
    \/ \E r \in Request : ArrivePassive(r) \/ Kill(r) \/ ArriveActive(r)
    \/ Trade
    \/ Finish
    \/ \E i \in 1 .. MaxOrders : Cancel(i) \/ CancelNothing(i)

Spec == Init /\ [][Next]_vars /\ WF_vars(Trade \/ Finish)
=============================================================================
