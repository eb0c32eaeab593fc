--------------------------- MODULE MatchingEngine ---------------------------
(***************************************************************************)
(* The matching engine: MatchingEngine::submitOrder / cancelOrder on top   *)
(* of OrderBook (two price-ordered maps of FIFO levels, an id index and    *)
(* the iceberg table).  One call runs at a time; submitOrder is cut at     *)
(* each iteration of its two loops (one maker filled, one iceberg          *)
(* refreshed), because server_main.cpp's broadcast thread reads the book   *)
(* with no lock between any two of them.  A call is therefore              *)
(*                                                                         *)
(*   Submit*  ->  MatchStep*  ->  EndMatch  ->  RefreshStep*  ->  Return*  *)
(*                                                                         *)
(* and while pc # "idle" nothing but the call itself changes the book.     *)
(* An order id stands for the object the code copies around; `order' keeps *)
(* its immutable fields, `remaining_qty' the quantity of its copy in the   *)
(* book.                                                                   *)
(***************************************************************************)
EXTENDS Integers, Sequences, FiniteSets, SequencesExt

CONSTANTS
    MaxOrders,   \* bound: number of submitOrder calls
    Price,       \* the limit prices offered, in ticks
    Qty,         \* the order quantities offered
    OrderTypes,  \* the order types offered
    QMod,        \* 2^w for the width w of Quantity (uint32_t)
    MaxRecent    \* MAX_RECENT_TRADES, scaled down

Side == {"Bid", "Ask"}
OrderType == {"Limit", "Market", "PostOnly", "FOK", "IOC", "Iceberg"}
SubmitStatus == {"Accepted", "PartialFill", "Filled", "Rejected", "Cancelled"}

ASSUME ConstantsAssumption ==
    /\ MaxOrders \in Nat
    /\ Price \subseteq Int
    /\ QMod \in Nat \ {0}
    /\ Qty \subseteq 0 .. (QMod - 1)
    /\ OrderTypes \subseteq OrderType
    /\ MaxRecent \in Nat \ {0}

Id == 1 .. MaxOrders
MarketPrice == 0                 \* "0 for market orders"
NoLoc == <<"None", 0>>           \* not a key of orders_index_
Location == Side \X Price

(* What a caller can ask for.  Only icebergs read visible_qty, only priced *)
(* orders read price.                                                      *)
Request ==
    {r \in [side : Side, type : OrderTypes, price : Price \cup {MarketPrice},
            total_qty : Qty, visible_qty : Qty \cup {0}] :
        /\ r.type # "Iceberg" => r.visible_qty = 0
        /\ r.type = "Market" => r.price = MarketPrice
        /\ r.type # "Market" => r.price \in Price}

Order == [side : Side, type : OrderType, price : Int, total_qty : Nat, visible_qty : Nat]
Trade == [maker : Id, taker : Id, price : Price, qty : Nat]
NoOrder == [side |-> "Bid", type |-> "Limit", price |-> 0, total_qty |-> 0, visible_qty |-> 0]

VARIABLES
    next_order_id_,     \* the id the next submitOrder takes
    order,              \* [Id -> Order], the parameters of every order submitted
    queue,              \* [Side -> [Price -> Seq(Id)]]: bids_ / asks_; a level exists iff not empty
    remaining_qty,      \* [Id -> Nat]: remaining_qty of the order's copy in the book
    total_quantity,     \* [Side -> [Price -> Quantity]]: PriceLevel::total_quantity
    orders_index_,      \* [Id -> Location or NoLoc]
    icebergs_,          \* the ids tracked as icebergs
    hidden_remaining,   \* [Id -> Nat]: IcebergState::hidden_remaining
    pc,                 \* where the running call is
    taker,              \* id of the call's order
    remaining,          \* addOrder's local
    iceberg_consumed,   \* addOrder's local
    trades,             \* addOrder's local
    result,             \* what the last call returned, none while one runs
    total_trades_,
    recent_trades_,
    filled,             \* history: quantity each order has traded so far
    took                \* history: quantity each order traded on entry, as taker

book  == <<queue, remaining_qty, total_quantity, orders_index_>>
bergs == <<icebergs_, hidden_remaining>>
call  == <<taker, remaining, iceberg_consumed, trades>>
tape  == <<total_trades_, recent_trades_>>
hist  == <<filled, took>>
vars  == <<next_order_id_, order, book, bergs, pc, call, result, tape, hist>>

NoResult == [id |-> 0, status |-> "None", trades |-> <<>>]

Init ==
    /\ next_order_id_ = 1
    /\ order = [i \in Id |-> NoOrder]
    /\ queue = [s \in Side |-> [p \in Price |-> <<>>]]
    /\ remaining_qty = [i \in Id |-> 0]
    /\ total_quantity = [s \in Side |-> [p \in Price |-> 0]]
    /\ orders_index_ = [i \in Id |-> NoLoc]
    /\ icebergs_ = {}
    /\ hidden_remaining = [i \in Id |-> 0]
    /\ pc = "idle"
    /\ taker = 0
    /\ remaining = 0
    /\ iceberg_consumed = <<>>
    /\ trades = <<>>
    /\ result = NoResult
    /\ total_trades_ = 0
    /\ recent_trades_ = <<>>
    /\ filled = [i \in Id |-> 0]
    /\ took = [i \in Id |-> 0]

-----------------------------------------------------------------------------
(* Reading the book. *)

Larger(a, b) == IF a >= b THEN a ELSE b                  \* fault
MinOf(a, b) == IF a <= b THEN a ELSE b
Opposite(s) == IF s = "Bid" THEN "Ask" ELSE "Bid"

(* BidComparator / AskComparator: p comes before q in the map of side s. *)
Better(s, p, q) == IF s = "Bid" THEN p > q ELSE p < q

Levels(s) == {p \in Price : queue[s][p] # <<>>}
IsAnyLevel(s, p) == p \in Levels(s)                       \* fault: not begin()
IsBest(s, p) == p \in Levels(s) /\ \A q \in Levels(s) : ~Better(s, q, p)   \* p is begin()->first

(* bestBid, bestAsk: a price, or none *)
BestPrice(s) == {p \in Levels(s) : IsBest(s, p)}

(* totalBidQty, totalAskQty *)
TotalQty(s) == MapThenSumSet(LAMBDA p : total_quantity[s][p], Levels(s)) % QMod

(* A taker of side s with limit l trades with the opposite level p. *)
PriceCrosses(s, l, p) == IF s = "Bid" THEN p <= l ELSE p >= l

(* Fault: an equal price is not seen as a cross *)
WouldMatchStrictly(s, l) ==
    \E p \in Levels(Opposite(s)) : PriceCrosses(s, l, p) /\ p # l

(* wouldMatch: the best opposite level crosses, that is, some level does *)
WouldMatch(s, l) == \E p \in Levels(Opposite(s)) : PriceCrosses(s, l, p)

(* Order::isIceberg, displayQty *)
IsIceberg(o) == o.visible_qty > 0 /\ o.visible_qty < o.total_qty
DisplayQty(o, rem) == IF o.visible_qty = 0 THEN rem ELSE MinOf(o.visible_qty, rem)

(* availableQty: the opposite levels the limit reaches, plus the hidden    *)
(* quantity of tracked icebergs.  `original.side != side' skips the        *)
(* icebergs of the side OPPOSITE to the taker and counts those on its own. *)
AvailableAtBest(s, l) ==                                 \* fault: one level only
    MapThenSumSet(LAMBDA p : total_quantity[Opposite(s)][p],
        {p \in Levels(Opposite(s)) : PriceCrosses(s, l, p) /\ IsBest(Opposite(s), p)}) % QMod
AvailableQty(s, l) ==
    LET o == Opposite(s)
        reach == {p \in Levels(o) : PriceCrosses(s, l, p)}
        hidden == {i \in icebergs_ : /\ order[i].side = s
                                     /\ PriceCrosses(s, l, order[i].price)}
    IN  (MapThenSumSet(LAMBDA p : total_quantity[o][p], reach)
           + MapThenSumSet(LAMBDA i : hidden_remaining[i], hidden)) % QMod

WithoutAtFront(q, id) == IF q # <<>> /\ Head(q) = id THEN Tail(q) ELSE q   \* fault

(* orders.erase of id, wherever it is in the level *)
Without(q, id) ==
    IF Contains(q, id)
      THEN RemoveAt(q, CHOOSE k \in 1 .. Len(q) : q[k] = id)
      ELSE q

-----------------------------------------------------------------------------
(* Writing the book. *)

(* PriceLevel::addOrder / addOrderRaw of q units of order o, whose id is   *)
(* id, and the index entry                                                 *)
AddCountingHidden(id, o, q) ==                           \* fault: the total counts all of o
    /\ queue' = [queue EXCEPT ![o.side][o.price] = Append(@, id)]
    /\ remaining_qty' = [remaining_qty EXCEPT ![id] = q]
    /\ total_quantity' = [total_quantity EXCEPT ![o.side][o.price] = (@ + o.total_qty) % QMod]
    /\ orders_index_' = [orders_index_ EXCEPT ![id] = <<o.side, o.price>>]
AddToLevel(id, o, q) ==
    LET s == o.side
        p == o.price
    IN  /\ queue' = [queue EXCEPT ![s][p] = Append(@, id)]
        /\ remaining_qty' = [remaining_qty EXCEPT ![id] = q]
        /\ total_quantity' = [total_quantity EXCEPT ![s][p] = (@ + q) % QMod]
        /\ orders_index_' = [orders_index_ EXCEPT ![id] = <<s, p>>]

(* OrderBook::cancelOrder of an id the index knows.  A level that becomes  *)
(* empty is erased with its total.                                         *)
RemoveFromBook(id) ==
    LET s == orders_index_[id][1]
        p == orders_index_[id][2]
        rest == Without(queue[s][p], id)
    IN  /\ queue' = [queue EXCEPT ![s][p] = rest]
        /\ total_quantity' = [total_quantity EXCEPT ![s][p] =
                                 IF rest = <<>> THEN 0 ELSE (@ - remaining_qty[id]) % QMod]
        /\ remaining_qty' = [remaining_qty EXCEPT ![id] = 0]
        /\ orders_index_' = [orders_index_ EXCEPT ![id] = NoLoc]
        /\ icebergs_' = icebergs_ \ {id}
        /\ hidden_remaining' = [hidden_remaining EXCEPT ![id] = 0]

(* recordTrades: a deque that keeps the newest MaxRecent trades *)
LastN(s, n) == IF Len(s) <= n THEN s ELSE SubSeq(s, Len(s) - n + 1, Len(s))
RecordTradesOfLastCall ==                                \* fault: = for +=
    /\ total_trades_' = Len(trades)
    /\ recent_trades_' = LastN(trades, MaxRecent)
RecordTrades ==
    /\ total_trades_' = total_trades_ + Len(trades)
    /\ recent_trades_' = LastN(recent_trades_ \o trades, MaxRecent)

-----------------------------------------------------------------------------
(* submitOrder, up to addOrder's matching loop *)

NewOrder(r) ==
    /\ pc = "idle"
    /\ next_order_id_ \in Id
    /\ next_order_id_' = next_order_id_ + 1
    /\ order' = [order EXCEPT ![next_order_id_] = r]

(* Return from submitOrder without having entered the book's matching *)
ReturnAtOnce(status) ==
    /\ result' = [id |-> next_order_id_, status |-> status, trades |-> <<>>]
    /\ UNCHANGED <<bergs, pc, call, tape, hist>>

(* Enter addOrder(order) *)
BeginMatching(r) ==
    /\ pc' = "match"
    /\ taker' = next_order_id_
    /\ remaining' = r.total_qty
    /\ iceberg_consumed' = <<>>
    /\ trades' = <<>>
    /\ result' = NoResult
    /\ UNCHANGED <<book, tape, hist>>

SubmitPostOnly(r) ==
    /\ r.type = "PostOnly"
    /\ NewOrder(r)
    /\ \/ /\ WouldMatch(r.side, r.price)
          /\ ReturnAtOnce("Rejected")
          /\ UNCHANGED book
       \/ /\ ~WouldMatch(r.side, r.price)
          /\ AddToLevel(next_order_id_, r, r.total_qty)
          /\ ReturnAtOnce("Accepted")

SubmitFOK(r) ==
    /\ r.type = "FOK"
    /\ NewOrder(r)
    /\ \/ /\ AvailableQty(r.side, r.price) < r.total_qty
          /\ ReturnAtOnce("Cancelled")
          /\ UNCHANGED book
       \/ /\ AvailableQty(r.side, r.price) >= r.total_qty
          /\ BeginMatching(r)
          /\ UNCHANGED bergs

(* Limit, Market and IOC go straight to addOrder *)
SubmitStandard(r) ==
    /\ r.type \in {"Limit", "Market", "IOC"}
    /\ NewOrder(r)
    /\ BeginMatching(r)
    /\ UNCHANGED bergs

(* An invalid visible_qty makes a plain limit order; a valid one is        *)
(* tracked, with its hidden part computed, BEFORE any matching.            *)
SubmitIceberg(r) ==
    LET invalid == r.visible_qty = 0 \/ r.visible_qty >= r.total_qty
        o == [r EXCEPT !.visible_qty = IF invalid THEN 0 ELSE @]
    IN  /\ r.type = "Iceberg"
        /\ NewOrder(o)
        /\ IF invalid
             THEN UNCHANGED bergs
             ELSE /\ icebergs_' = icebergs_ \cup {next_order_id_}
                  /\ hidden_remaining' = [hidden_remaining EXCEPT ![next_order_id_] =
                                             o.total_qty - DisplayQty(o, o.total_qty)]
        /\ BeginMatching(o)

-----------------------------------------------------------------------------
(* OrderBook::addOrder *)

(* The opposite levels addOrder's while condition lets the taker trade with *)
Reach ==
    LET o == order[taker] IN
    {p \in Levels(Opposite(o.side)) : o.type = "Market" \/ PriceCrosses(o.side, o.price, p)}

(* One iteration of fillWithTrades on the best level: the front order is   *)
(* filled, popped when nothing is left of it, the level erased when it was *)
(* the last.                                                               *)
FillFront(p) ==
    LET s == Opposite(order[taker].side)
        m == Head(queue[s][p])
        can_fill == MinOf(remaining, remaining_qty[m])
        gone == can_fill = remaining_qty[m]
        rest == IF gone THEN Tail(queue[s][p]) ELSE queue[s][p]
    IN  /\ queue' = [queue EXCEPT ![s][p] = rest]
        /\ remaining_qty' = [remaining_qty EXCEPT ![m] = @ - can_fill]
        /\ total_quantity' = [total_quantity EXCEPT ![s][p] =
                                 IF rest = <<>> THEN 0 ELSE (@ - can_fill) % QMod]
        /\ remaining' = remaining - can_fill
        /\ iceberg_consumed' = IF gone /\ IsIceberg(order[m])
                                 THEN Append(iceberg_consumed, m) ELSE iceberg_consumed
        /\ trades' = Append(trades, [maker |-> m, taker |-> taker, price |-> p, qty |-> can_fill])
        /\ filled' = [filled EXCEPT ![m] = @ + can_fill, ![taker] = @ + can_fill]
        /\ UNCHANGED <<next_order_id_, order, orders_index_, bergs, pc, taker, result, tape, took>>

MatchStep ==
    /\ pc = "match"
    /\ remaining > 0
    /\ \E p \in Reach : IsBest(Opposite(order[taker].side), p) /\ FillFront(p)

(* The loop ends; what is left of anything but a market order rests. *)
EndMatch ==
    LET o == order[taker] IN
    /\ pc = "match"
    /\ remaining = 0 \/ Reach = {}
    /\ IF remaining > 0 /\ o.type # "Market"
         THEN AddToLevel(taker, o, DisplayQty(o, remaining))
         ELSE UNCHANGED book
    /\ took' = [took EXCEPT ![taker] = o.total_qty - remaining]
    /\ pc' = "refresh"
    /\ UNCHANGED <<next_order_id_, order, bergs, call, result, tape, filled>>

(* Fault: the consumed iceberg is not left behind *)
RefreshExhaustedAgain ==
    /\ pc = "refresh"
    /\ iceberg_consumed # <<>>
    /\ Head(iceberg_consumed) \notin icebergs_ \/ hidden_remaining[Head(iceberg_consumed)] = 0
    /\ icebergs_' = icebergs_ \ {Head(iceberg_consumed)}
    /\ UNCHANGED <<next_order_id_, order, book, hidden_remaining, pc, call, result, tape, hist>>

(* One iteration of refreshIcebergs: nothing hidden is left ... *)
RefreshExhausted ==
    LET id == Head(iceberg_consumed) IN
    /\ pc = "refresh"
    /\ iceberg_consumed # <<>>
    /\ id \notin icebergs_ \/ hidden_remaining[id] = 0
    /\ icebergs_' = icebergs_ \ {id}
    /\ orders_index_' = IF id \in icebergs_ THEN [orders_index_ EXCEPT ![id] = NoLoc]
                                            ELSE orders_index_
    /\ iceberg_consumed' = Tail(iceberg_consumed)
    /\ UNCHANGED <<next_order_id_, order, queue, remaining_qty, total_quantity,
                   hidden_remaining, pc, taker, remaining, trades, result, tape, hist>>

(* Fault: the new slice is not taken from the hidden quantity *)
RefreshSliceForFree ==
    LET id == Head(iceberg_consumed) IN
    /\ pc = "refresh"
    /\ iceberg_consumed # <<>>
    /\ id \in icebergs_
    /\ hidden_remaining[id] > 0
    /\ AddToLevel(id, order[id], MinOf(order[id].visible_qty, hidden_remaining[id]))
    /\ iceberg_consumed' = Tail(iceberg_consumed)
    /\ UNCHANGED <<next_order_id_, order, bergs, pc, taker, remaining, trades, result, tape, hist>>

(* ... or the next visible slice goes to the back of the level's queue. *)
RefreshSlice ==
    LET id == Head(iceberg_consumed)
        new_visible == MinOf(order[id].visible_qty, hidden_remaining[id])
    IN  /\ pc = "refresh"
        /\ iceberg_consumed # <<>>
        /\ id \in icebergs_
        /\ hidden_remaining[id] > 0
        /\ hidden_remaining' = [hidden_remaining EXCEPT ![id] = @ - new_visible]
        /\ AddToLevel(id, order[id], new_visible)
        /\ iceberg_consumed' = Tail(iceberg_consumed)
        /\ UNCHANGED <<next_order_id_, order, icebergs_, pc, taker, remaining, trades,
                       result, tape, hist>>

-----------------------------------------------------------------------------
(* submitOrder, after addOrder *)

(* addOrder is back, in a call for one of these order types *)
Returning(types) ==
    /\ pc = "refresh"
    /\ iceberg_consumed = <<>>
    /\ order[taker].type \in types

Return(status) ==
    /\ pc' = "idle"
    /\ RecordTrades
    /\ result' = [id |-> taker, status |-> status, trades |-> trades]
    /\ taker' = 0
    /\ remaining' = 0
    /\ trades' = <<>>
    /\ UNCHANGED <<next_order_id_, order, iceberg_consumed, hist>>

ReturnStandard ==
    /\ Returning({"Limit", "Market"})
    /\ Return(IF remaining = 0 THEN "Filled" ELSE "Accepted")
    /\ UNCHANGED <<book, bergs>>

ReturnFOK ==
    /\ Returning({"FOK"})
    /\ Return(IF remaining = 0 THEN "Filled" ELSE "Cancelled")
    /\ UNCHANGED <<book, bergs>>

(* addOrder rested the remainder: take it off again *)
ReturnIOC ==
    /\ Returning({"IOC"})
    /\ Return(CASE trades = <<>> -> "Cancelled"
                [] trades # <<>> /\ remaining = 0 -> "Filled"
                [] trades # <<>> /\ remaining > 0 -> "PartialFill")
    /\ IF remaining > 0 THEN RemoveFromBook(taker) ELSE UNCHANGED <<book, bergs>>

ReturnIcebergTracked ==                                  \* fault: removeIcebergTracking forgotten
    /\ Returning({"Iceberg"})
    /\ Return(IF remaining = 0 THEN "Filled" ELSE "Accepted")
    /\ UNCHANGED <<book, bergs>>

ReturnIceberg ==
    /\ Returning({"Iceberg"})
    /\ Return(IF remaining = 0 THEN "Filled" ELSE "Accepted")
    /\ IF remaining = 0
         THEN /\ icebergs_' = icebergs_ \ {taker}
              /\ hidden_remaining' = [hidden_remaining EXCEPT ![taker] = 0]
         ELSE UNCHANGED bergs
    /\ UNCHANGED book

-----------------------------------------------------------------------------
(* The other calls *)

CancelFound(id) ==
    /\ pc = "idle"
    /\ orders_index_[id] # NoLoc
    /\ RemoveFromBook(id)
    /\ result' = [NoResult EXCEPT !.status = "CancelTrue"]
    /\ UNCHANGED <<next_order_id_, order, pc, call, tape, hist>>

CancelUnknown(id) ==
    /\ pc = "idle"
    /\ orders_index_[id] = NoLoc
    /\ result' = [NoResult EXCEPT !.status = "CancelFalse"]
    /\ UNCHANGED <<next_order_id_, order, book, bergs, pc, call, tape, hist>>

ClearRecentTrades ==
    /\ pc = "idle"
    /\ recent_trades_' = <<>>
    /\ UNCHANGED <<next_order_id_, order, book, bergs, pc, call, result, total_trades_, hist>>

SubmitOrder(r) == SubmitPostOnly(r) \/ SubmitFOK(r) \/ SubmitStandard(r) \/ SubmitIceberg(r)
Submit == \E r \in Request : SubmitOrder(r)
CancelOrder(id) == CancelFound(id) \/ CancelUnknown(id)

(* The steps of a call that has begun *)
Engine ==
    \/ MatchStep \/ EndMatch
    \/ RefreshExhausted \/ RefreshSlice
    \/ ReturnStandard \/ ReturnFOK \/ ReturnIOC \/ ReturnIceberg

Next ==
    \/ Submit
    \/ Engine
    \/ \E id \in Id : CancelOrder(id)
    \/ ClearRecentTrades

Spec == Init /\ [][Next]_vars

(* A call that has begun runs to its end: it is one thread executing C++.  *)
(* Nothing obliges a caller to submit or cancel.                           *)
FairSpec == Spec /\ WF_vars(Engine)

-----------------------------------------------------------------------------
(* What the properties talk about *)

Submitted == 1 .. (next_order_id_ - 1)
Resting(i) == \E s \in Side, p \in Price : Contains(queue[s][p], i)
Consumed(i) == Contains(iceberg_consumed, i)

(* The sum of a sequence of numbers, by its partial sums: a recursive      *)
(* function, which the proofs can reason about.                            *)
PartialSums(w) ==
    LET sum[n \in 0 .. Len(w)] == IF n = 0 THEN 0 ELSE sum[n - 1] + w[n] IN sum
SumOf(w) == PartialSums(w)[Len(w)]

(* What order i has in each of the trades ts *)
Shares(i, ts) ==
    [k \in DOMAIN ts |-> IF i \in {ts[k].maker, ts[k].taker} THEN ts[k].qty ELSE 0]

(* An iceberg that traded on entry keeps the whole hidden part computed    *)
(* before the match (SubmitIceberg), so it can trade this much too much.   *)
Excess(i) ==
    LET o == order[i] IN
    IF IsIceberg(o) /\ took[i] < o.total_qty
      THEN MinOf(took[i], o.total_qty - o.visible_qty) ELSE 0

TypeOK ==
    /\ next_order_id_ \in 1 .. (MaxOrders + 1)
    /\ order \in [Id -> Order]
    /\ queue \in [Side -> [Price -> Seq(Id)]]
    /\ remaining_qty \in [Id -> Nat]
    /\ total_quantity \in [Side -> [Price -> 0 .. (QMod - 1)]]
    /\ orders_index_ \in [Id -> Location \cup {NoLoc}]
    /\ icebergs_ \subseteq Id
    /\ hidden_remaining \in [Id -> Nat]
    /\ pc \in {"idle", "match", "refresh"}
    /\ taker \in Id \cup {0}
    /\ remaining \in Nat
    /\ iceberg_consumed \in Seq(Id)
    /\ trades \in Seq(Trade)
    /\ result.id \in Id \cup {0}
    /\ result.status \in SubmitStatus \cup {"CancelTrue", "CancelFalse", "None"}
    /\ result.trades \in Seq(Trade)
    /\ total_trades_ \in Nat
    /\ recent_trades_ \in Seq(Trade)
    /\ filled \in [Id -> Nat]
    /\ took \in [Id -> Nat]

(* Every order in the book stands once, in the level of its own side and   *)
(* price, and the index finds it there, so a cancel reaches it.            *)
IndexCoversBook ==
    \A s \in Side, p \in Price :
        /\ IsInjective(queue[s][p])
        /\ \A i \in Id : Contains(queue[s][p], i) =>
              /\ i \in Submitted
              /\ order[i].side = s /\ order[i].price = p
              /\ orders_index_[i] = <<s, p>>

(* Hidden quantity is never stranded: between calls an iceberg is tracked  *)
(* exactly while a slice of it is in the book, and every tracked iceberg   *)
(* keeps an index entry to cancel it by.                                   *)
IcebergsBacked ==
    /\ pc = "idle" => \A i \in Id :
           i \in icebergs_ <=> IsIceberg(order[i]) /\ Resting(i)
    /\ \A i \in Id : hidden_remaining[i] > 0 => i \in icebergs_
    /\ \A i \in icebergs_ \ {taker} : orders_index_[i] # NoLoc

Conserved(i) ==
    IF i = taker /\ pc = "match"
      THEN filled[i] + remaining = order[i].total_qty
    ELSE IF Resting(i) \/ Consumed(i)
      THEN filled[i] + remaining_qty[i] + hidden_remaining[i] = order[i].total_qty + Excess(i)
    ELSE filled[i] <= order[i].total_qty + Excess(i)

(* No quantity is lost or traded twice: what an order in the book has      *)
(* traded, shows and hides is its size, plus Excess for an iceberg that    *)
(* traded on entry; an order out of the book never traded more than that.  *)
Conservation == \A i \in Submitted : Conserved(i)

(* A level's cached total is the sum of the orders standing in it, however *)
(* fills, cancels and refreshes interleave (modulo the width of Quantity). *)
LevelTotals ==
    \A s \in Side, p \in Price :
        total_quantity[s][p] =
            SumOf([k \in DOMAIN queue[s][p] |-> remaining_qty[queue[s][p][k]]]) % QMod

(* Price-time priority over the history of a book: a maker is filled only  *)
(* while no order of its side rests at a better price, and, among orders   *)
(* that never lose their place (no icebergs), no older one at its price.   *)
PriceTimePriority ==
    [][\A m \in Id \ {taker} : filled'[m] > filled[m] =>
          \A x \in Id \ {m} : Resting(x) /\ order[x].side = order[m].side =>
              /\ ~Better(order[m].side, order[x].price, order[m].price)
              /\ order[x].price = order[m].price /\ ~IsIceberg(order[x]) /\ ~IsIceberg(order[m])
                   => m < x]_vars

(* The bids stay below the asks, also in the middle of a call *)
Uncrossed ==
    \A b \in Levels("Bid"), a \in Levels("Ask") : b < a

(* Fill-or-kill: all of the order or none of it, and never in the book     *)
FOKAllOrNothing ==
    pc = "idle" => \A i \in Submitted : order[i].type = "FOK" =>
        filled[i] \in {0, order[i].total_qty} /\ ~Resting(i)

(* The trade tape is complete: while nothing was evicted or cleared, each  *)
(* order's trades on it add up to what the order has traded.               *)
TapeAccountsForFills ==
    pc = "idle" /\ Len(recent_trades_) = total_trades_ =>
        \A i \in Submitted :
            filled[i] = SumOf(Shares(i, recent_trades_))

(* A fill-or-kill order is turned away only if the opposite levels within  *)
(* its limit really hold less than it asks for.                            *)
FOKCancelJustified ==
    [][\A i \in Id : order'[i] # order[i] /\ order'[i].type = "FOK" /\ pc' = "idle" =>
          LET o == order'[i]
              opp == Opposite(o.side)
              reach == {p \in Levels(opp) : PriceCrosses(o.side, o.price, p)}
              makers == {x \in Id : \E p \in reach : Contains(queue[opp][p], x)}
          IN  MapThenSumSet(LAMBDA x : remaining_qty[x], makers) < o.total_qty]_vars

(* What the repository says and the code does not do: each of these is     *)
(* refuted by a run of its own.                                            *)

(* A cancel is answered true only for an order in the book: between calls  *)
(* every key of orders_index_ is the id of a resting order.                *)
OnlyRestingCancellable ==
    pc = "idle" => \A i \in Id : orders_index_[i] # NoLoc => Resting(i)

(* "tracks the *real* remaining qty for each iceberg order": what the level *)
(* shows and icebergs_ hides is what the order has not traded yet.         *)
IcebergRealRemaining ==
    pc = "idle" => \A i \in icebergs_ :
        remaining_qty[i] + hidden_remaining[i] = order[i].total_qty - filled[i]

(* A call, once begun, returns. *)
CallReturns == pc # "idle" ~> pc = "idle"

-----------------------------------------------------------------------------
(* The inductive invariant of MatchingEngineProofs *)

OrdersWellFormed ==
    \A i \in Submitted :
        /\ order[i].type \in OrderTypes
        /\ order[i].type # "Market" => order[i].price \in Price
        /\ order[i].visible_qty > 0 => /\ order[i].type = "Iceberg"
                                       /\ order[i].visible_qty < order[i].total_qty

FreshUntouched ==
    \A i \in Id \ Submitted :
        /\ orders_index_[i] = NoLoc
        /\ i \notin icebergs_
        /\ hidden_remaining[i] = 0 /\ filled[i] = 0 /\ took[i] = 0

CallCoherent ==
    /\ pc = "idle" => taker = 0 /\ iceberg_consumed = <<>>
    /\ pc # "idle" => taker \in Submitted /\ order[taker].type # "PostOnly"
    /\ pc = "match" =>
          /\ orders_index_[taker] = NoLoc
          /\ took[taker] = 0
          /\ hidden_remaining[taker] =
                 IF IsIceberg(order[taker]) THEN order[taker].total_qty - order[taker].visible_qty ELSE 0
    /\ pc = "refresh" =>
          IF remaining > 0 /\ order[taker].type # "Market"
            THEN orders_index_[taker] = <<order[taker].side, order[taker].price>>
            ELSE orders_index_[taker] = NoLoc

ConsumedCoherent ==
    /\ IsInjective(iceberg_consumed)
    /\ \A i \in Id : Consumed(i) =>
          /\ i \in Submitted \ {taker}
          /\ IsIceberg(order[i])
          /\ remaining_qty[i] = 0
          /\ ~Resting(i)

IInv ==
    /\ TypeOK
    /\ OrdersWellFormed
    /\ FreshUntouched
    /\ CallCoherent
    /\ ConsumedCoherent
    /\ IndexCoversBook
    /\ Conservation
=============================================================================
