----------------------------- MODULE MarketData -----------------------------
(***************************************************************************)
(* Market data of the server: the UDP thread ticks the perpetual engine    *)
(* and broadcasts a snapshot, over and over; the TCP thread runs the       *)
(* engine's calls and broadcasts after each call that traded.  Both read   *)
(* the book getter by getter and take no lock, so the UDP thread's reads   *)
(* fall anywhere between the steps of a call.  A read that overlaps a call *)
(* races with its writes: it may return anything of the right type.        *)
(* Nothing in the server calls PerpetualEngine::onTrade.                   *)
(***************************************************************************)
EXTENDS Integers, Sequences, FiniteSets

CONSTANTS
    MaxOrders, Price, Qty, OrderTypes, QMod, MaxRecent,   \* as in MatchingEngine
    Orders,                       \* the orders the clients send
    PerpConfig                                            \* the PerpetualConfig

VARIABLES
    next_order_id_, order, queue, remaining_qty, total_quantity, orders_index_,
    icebergs_, hidden_remaining, pc, taker, remaining, iceberg_consumed, trades,
    result, total_trades_, recent_trades_, filled, took,  \* as in MatchingEngine
    mark_price_,
    funding_rate_,
    at,          \* [Thread -> where its tick or broadcast is]
    local,       \* [Thread -> what its getters have returned]
    disturbed,   \* history: a call was running, or began, since the broadcast's first read
    last_msg_    \* the last datagram given to sendto

ME == INSTANCE MatchingEngine

Thread == {"udp", "tcp"}
engine == <<next_order_id_, order, queue, remaining_qty, total_quantity, orders_index_,
            icebergs_, hidden_remaining, pc, taker, remaining, iceberg_consumed, trades,
            result, total_trades_, recent_trades_, filled, took>>
vars == <<engine, mark_price_, funding_rate_, at, local, disturbed, last_msg_>>

LastTradePrice == 0
NothingRead == [bid |-> {}, ask |-> {}]

Perp == INSTANCE Perpetual WITH
    Config <- {PerpConfig}, BookPrice <- Price, BookQty <- 0 .. (QMod - 1), TradePrice <- Price,
    book_ <- 0, cfg_ <- PerpConfig, last_trade_price_ <- LastTradePrice

ASSUME MarketDataAssumption ==
    /\ MaxOrders \in Nat
    /\ Price \subseteq Int
    /\ QMod \in Nat \ {0}
    /\ Qty \subseteq 0 .. (QMod - 1)
    /\ OrderTypes \subseteq ME!OrderType
    /\ MaxRecent \in Nat \ {0}
    /\ Orders \subseteq ME!Request
    /\ PerpConfig \in Perp!ConfigType /\ PerpConfig.num < PerpConfig.den

(* imbalance() stands here for two totals (bids, asks) that have it:       *)
(* (bids - asks) / (bids + asks), and 0 for an empty book                  *)
Imbalance(bids, asks) ==
    CASE bids = asks              -> <<0, 0>>
      [] bids # asks /\ asks = 0  -> <<1, 0>>
      [] bids # asks /\ bids = 0  -> <<0, 1>>
      [] OTHER                    -> <<bids, asks>>

(* What bestBid() and bestAsk() would return now *)
Now == [bid |-> ME!BestPrice("Bid"), ask |-> ME!BestPrice("Ask")]
ImbalanceNow == Imbalance(ME!TotalQty("Bid"), ME!TotalQty("Ask"))

(* MarketDataMsg: optional prices as value_or(0).  The message's imbalance *)
(* is left out: one more getter, read after the ask.                       *)
Message(read, funding) ==
    [best_bid |-> Perp!ValueOrZero(read.bid), best_ask |-> Perp!ValueOrZero(read.ask),
     last_price |-> LastTradePrice, funding_rate |-> funding]

Init ==
    /\ ME!Init
    /\ mark_price_ = 0
    /\ funding_rate_ = <<0, 1>>
    /\ at = [udp |-> "tick bid", tcp |-> "none"]
    /\ local = [t \in Thread |-> NothingRead]
    /\ disturbed = FALSE
    /\ last_msg_ = Message(NothingRead, <<0, 1>>)

-----------------------------------------------------------------------------
(* The TCP thread: the steps of engine calls, and the callback's broadcast *)
(* when a call returns with trades.  A cancel of an id that the index does *)
(* not know changes nothing a getter reads, and is left out.               *)

Broadcasting(t) == at[t] \in {"ask", "send"}

CallAnyTime ==                          \* fault: calls go on under the callback's broadcast
    /\ (\E r \in Orders : ME!SubmitOrder(r)) \/ ME!Engine \/ \E id \in ME!Id : ME!CancelFound(id)
    /\ at' = [at EXCEPT !.tcp = IF pc # "idle" /\ pc' = "idle" /\ result'.trades # <<>>
                                   THEN "bid" ELSE @]
    /\ disturbed' = (disturbed \/ Broadcasting("udp"))
    /\ UNCHANGED <<mark_price_, funding_rate_, local, last_msg_>>

Call ==
    /\ at["tcp"] = "none"
    /\ (\E r \in Orders : ME!SubmitOrder(r)) \/ ME!Engine \/ \E id \in ME!Id : ME!CancelFound(id)
    /\ at' = [at EXCEPT !.tcp = IF pc # "idle" /\ pc' = "idle" /\ result'.trades # <<>>
                                   THEN "bid" ELSE "none"]
    /\ disturbed' = (disturbed \/ Broadcasting("udp"))
    /\ UNCHANGED <<mark_price_, funding_rate_, local, last_msg_>>

-----------------------------------------------------------------------------
(* One getter: what it returns to the UDP thread *)
Torn(values) == IF pc # "idle" THEN values ELSE {}
Sees(f) == {Now[f]} \cup Torn(Perp!Optional(Price))
SeesImbalance == {ImbalanceNow} \cup Torn({<<0, 0>>, <<1, 0>>, <<0, 1>>})

(* PerpetualEngine::tick on the UDP thread: computeMidPrice's two getters, *)
(* then imbalance()                                                        *)
TickBid ==
    /\ at["udp"] = "tick bid"
    /\ \E v \in Sees("bid") : local' = [local EXCEPT !["udp"].bid = v]
    /\ at' = [at EXCEPT !["udp"] = "tick ask"]
    /\ UNCHANGED <<engine, mark_price_, funding_rate_, disturbed, last_msg_>>

TickAsk ==
    /\ at["udp"] = "tick ask"
    /\ \E v \in Sees("ask") :
          LET mid == Perp!Mid([local["udp"] EXCEPT !.ask = v]) IN
          mark_price_' = Perp!Clamped(Perp!Unclamped(mid, mark_price_, LastTradePrice), LastTradePrice)
    /\ local' = [local EXCEPT !["udp"] = NothingRead]
    /\ at' = [at EXCEPT !["udp"] = "tick qty"]
    /\ UNCHANGED <<engine, funding_rate_, disturbed, last_msg_>>

TickQty ==
    /\ at["udp"] = "tick qty"
    /\ \E v \in SeesImbalance : funding_rate_' = Perp!FundingRate(v[1], v[2])
    /\ at' = [at EXCEPT !["udp"] = "bid"]
    /\ UNCHANGED <<engine, mark_price_, local, disturbed, last_msg_>>

(* UdpMarketFeed::broadcast on either thread *)
Get(t, f) ==
    /\ at[t] = f
    /\ \E v \in IF t = "udp" THEN Sees(f) ELSE {Now[f]} : local' = [local EXCEPT ![t][f] = v]
    /\ at' = [at EXCEPT ![t] = IF f = "bid" THEN "ask" ELSE "send"]
    /\ disturbed' = IF t = "udp" THEN (f # "bid" /\ disturbed) \/ pc # "idle" ELSE disturbed
    /\ UNCHANGED <<engine, mark_price_, funding_rate_, last_msg_>>

SendOnlyOnTrade(t) ==                   \* fault: the UDP thread does not broadcast
    /\ at[t] = "send"
    /\ last_msg_' = IF t = "tcp" THEN Message(local[t], funding_rate_) ELSE last_msg_
    /\ local' = [local EXCEPT ![t] = NothingRead]
    /\ at' = [at EXCEPT ![t] = IF t = "udp" THEN "tick bid" ELSE "none"]
    /\ UNCHANGED <<engine, mark_price_, funding_rate_, disturbed>>

(* fundingRate(), last_msg_ and sendto; then the UDP thread sleeps and     *)
(* ticks again, the TCP thread is back in processMessage                   *)
Send(t) ==
    /\ at[t] = "send"
    /\ last_msg_' = Message(local[t], funding_rate_)
    /\ local' = [local EXCEPT ![t] = NothingRead]
    /\ at' = [at EXCEPT ![t] = IF t = "udp" THEN "tick bid" ELSE "none"]
    /\ UNCHANGED <<engine, mark_price_, funding_rate_, disturbed>>

Broadcast(t) == Send(t) \/ \E f \in {"bid", "ask"} : Get(t, f)
UdpThread == TickBid \/ TickAsk \/ TickQty \/ Broadcast("udp")

Next == Call \/ UdpThread \/ Broadcast("tcp")

(* Both threads keep running, and a call that has begun runs to its end;   *)
(* no client has to send anything.                                         *)
Spec ==
    /\ Init /\ [][Next]_vars
    /\ WF_vars(UdpThread)
    /\ WF_vars(Broadcast("tcp") \/ (Call /\ pc # "idle"))

-----------------------------------------------------------------------------
(* The snapshot broadcast after a trade shows the book that trade left,    *)
(* its quotes of one moment, whatever the UDP thread does meanwhile;       *)
(* and so does a snapshot of the UDP thread that no call overlapped.  In   *)
(* either the bid is below the ask.                                        *)
SnapshotIsOneMoment ==
    [][\A t \in Thread : Send(t) /\ (t = "udp" => ~disturbed) =>
          /\ local[t] = Now
          /\ \A b \in Now.bid, a \in Now.ask : b < a]_vars

(* Once the book rests, the last datagram sent is and stays a snapshot of  *)
(* it with the funding rate of its imbalance, and the mark price is its    *)
(* mid price, if it has one: no late read and no late datagram of the      *)
(* other thread leaves the listeners with an old picture.                  *)
FeedConverges ==
    <>[](/\ last_msg_ = Message(Now, Perp!FundingRate(ImbalanceNow[1], ImbalanceNow[2]))
         /\ Perp!Mid(Now) # 0 => mark_price_ = Perp!Mid(Now))
=============================================================================
