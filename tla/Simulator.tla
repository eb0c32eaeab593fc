------------------------------ MODULE Simulator ------------------------------
(***************************************************************************)
(* Simulator: one thread that, tick after tick, lets every bot act on the  *)
(* matching engine, ticks the perpetual engine, feeds the tick's trades to *)
(* the VPIN calculator and takes a snapshot.  Between two runs the caller  *)
(* may send orders of its own to engine().  A bot's random draws are       *)
(* choices; the prices and quantities it draws from are constants.         *)
(***************************************************************************)
EXTENDS Integers, Sequences, FiniteSets

CONSTANTS
    MaxOrders, Price, Qty, OrderTypes, QMod, MaxRecent,   \* as in MatchingEngine
    PerpConfig,                  \* the Simulator's PerpetualConfig
    BucketVolume, Window,        \* of enableVPIN
    Setups,                      \* [bots : Seq(bot names), vpin : BOOLEAN]: addBot, enableVPIN
    SeedOrders, MaxSeeds,        \* what the caller submits, and bound: how often
    RandomPrice, RandomQty,      \* the random bot's draws
    MakerQty,                    \* the makers' draws
    MaxTicks                     \* bound

VARIABLES
    next_order_id_, order, queue, remaining_qty, total_quantity, orders_index_,
    icebergs_, hidden_remaining, pc, taker, remaining, iceberg_consumed, trades,
    result, total_trades_, recent_trades_, filled, took,            \* as in MatchingEngine
    mark_price_, funding_rate_,                                     \* as in Perpetual
    vpin_history, current_bucket_buy, current_bucket_sell, current_bucket_vol,
    fed, finalized, selling, overflowed,                            \* as in Vpin
    setup,       \* the element of Setups this simulator is
    phase,       \* "out" of run(), or where its loop is
    tick_,
    left,        \* ticks - t
    turn,        \* the next bot to act
    quotes,      \* the orders the acting bot has still to submit
    quoted,      \* history: ids of the orders of the last bot that acted
    feeding,     \* the next element of recentTrades() to feed
    snap         \* the last of snapshots_

engine == <<next_order_id_, order, queue, remaining_qty, total_quantity, orders_index_,
            icebergs_, hidden_remaining, pc, taker, remaining, iceberg_consumed, trades,
            result, total_trades_, recent_trades_, filled, took>>
perpetual == <<mark_price_, funding_rate_>>
vpin == <<vpin_history, current_bucket_buy, current_bucket_sell, current_bucket_vol,
          fed, finalized, selling, overflowed>>
loop == <<phase, tick_, left, turn, quotes, quoted, feeding, snap>>
vars == <<engine, perpetual, vpin, setup, loop>>

ME == INSTANCE MatchingEngine
V == INSTANCE Vpin WITH TradeQty <- 1 .. QMod, MaxFed <- 0

TopOfBook == [bid |-> ME!BestPrice("Bid"), ask |-> ME!BestPrice("Ask"),
              bid_qty |-> ME!TotalQty("Bid"), ask_qty |-> ME!TotalQty("Ask")]

Perp == INSTANCE Perpetual WITH
    Config <- {PerpConfig}, BookPrice <- Price, BookQty <- 0 .. (QMod - 1), TradePrice <- {},
    book_ <- TopOfBook, cfg_ <- PerpConfig, last_trade_price_ <- 0

(* The requests of the caller and the draws of the bots are requests of    *)
(* the engine; a maker's are never for nothing (simulator.cpp:45).         *)
ASSUME SimulatorAssumption ==
    /\ MaxOrders \in Nat
    /\ Price \subseteq Int
    /\ QMod \in Nat \ {0}
    /\ Qty \subseteq 0 .. (QMod - 1)
    /\ OrderTypes \subseteq ME!OrderType /\ "Limit" \in OrderTypes
    /\ MaxRecent \in Nat \ {0}
    /\ PerpConfig \in Perp!ConfigType /\ PerpConfig.num < PerpConfig.den
    /\ BucketVolume \in Nat \ {0}
    /\ Window \in Nat
    /\ Setups \subseteq [bots : Seq({"random", "maker", "adaptive"}), vpin : BOOLEAN]
    /\ SeedOrders \subseteq ME!Request
    /\ RandomPrice \subseteq Price /\ RandomQty \subseteq Qty /\ MakerQty \subseteq Qty \ {0}

Ratio0 == <<0, 1>>
NoSnapshot == [tick |-> 0, best_bid |-> 0, best_ask |-> 0, spread |-> 0, mark_price |-> 0,
               funding_rate |-> Ratio0, total_trades |-> 0, vpin |-> Ratio0, toxicity |-> Ratio0]

Init ==
    /\ ME!Init
    /\ mark_price_ = 0 /\ funding_rate_ = Ratio0
    /\ V!VpinInit
    /\ setup \in Setups
    /\ phase = "out" /\ tick_ = 0 /\ left = 0 /\ turn = 1
    /\ quotes = <<>> /\ quoted = <<>> /\ feeding = 1
    /\ snap = NoSnapshot

-----------------------------------------------------------------------------
(* The caller *)

Idle(p) == phase = p /\ pc = "idle"

Seed ==
    /\ Idle("out")
    /\ next_order_id_ <= MaxSeeds
    /\ \E r \in SeedOrders : ME!SubmitOrder(r)
    /\ UNCHANGED <<perpetual, vpin, setup, loop>>

Run(ticks) ==
    /\ Idle("out")
    /\ left' = ticks
    /\ tick_' = tick_ + 1
    /\ turn' = 1
    /\ phase' = "bots"
    /\ quoted' = <<>>
    /\ UNCHANGED <<engine, perpetual, vpin, setup, quotes, feeding, snap>>

-----------------------------------------------------------------------------
(* The bots: each decides on a sequence of orders, then submits them *)

Limit(side, price, qty) ==
    [side |-> side, type |-> "Limit", price |-> price, total_qty |-> qty, visible_qty |-> 0]

Bid == Perp!ValueOrZero(ME!BestPrice("Bid"))
Ask == Perp!ValueOrZero(ME!BestPrice("Ask"))
TwoSided == ME!Levels("Bid") # {} /\ ME!Levels("Ask") # {}

(* The spread a maker starts from: at least 2 *)
BaseSpread == ME!Larger(Ask - Bid, 2)

(* toxicity 1 makes the spread 4 times as wide; no one feeds the           *)
(* calculator of makeSharedVPIN, so that its history is empty.             *)
AdaptiveSpread ==
    LET tox == V!Toxicity(<<>>)
        base == BaseSpread
    IN  ME!MinOf(base + Perp!Trunc(base * tox[1] * 3, tox[2]), base * 4)

QuoteInverted(bid_px, ask_px, mid, half) == <<bid_px, ask_px>>      \* fault: no guard

(* Never an inverted quote *)
Quote(bid_px, ask_px, mid, half) ==
    IF bid_px >= ask_px THEN <<mid - half, mid + half>> ELSE <<bid_px, ask_px>>

MakerOrdersWaiting(spread, fallback) ==                  \* fault: waits for a two-sided book
    LET mid == Perp!Trunc(Bid + Ask, 2)
        half == Perp!Trunc(spread, 2)
        pairs == {Quote(mid - half + i, mid + half + j, mid, fallback) : i, j \in -1 .. 1}
    IN  IF TwoSided
          THEN {<<Limit("Bid", p[1], q), Limit("Ask", p[2], r)>> : p \in pairs, q, r \in MakerQty}
          ELSE {}

(* What a maker may submit: two orders half the spread off the mid price,  *)
(* each moved by a jitter; nothing if a side of the book is empty          *)
MakerOrders(spread, fallback) ==
    LET mid == Perp!Trunc(Bid + Ask, 2)
        half == Perp!Trunc(spread, 2)
        pairs == {Quote(mid - half + i, mid + half + j, mid, fallback) : i, j \in -1 .. 1}
    IN  IF TwoSided
          THEN {<<Limit("Bid", p[1], q), Limit("Ask", p[2], r)>> : p \in pairs, q, r \in MakerQty}
          ELSE {<<>>}

Decisions(bot) ==
    CASE bot = "random"   -> {<<Limit(s, p, q)>> : s \in ME!Side, p \in RandomPrice, q \in RandomQty}
      [] bot = "maker"    -> MakerOrders(BaseSpread, 1)
      [] bot = "adaptive" -> MakerOrders(AdaptiveSpread, Perp!Trunc(AdaptiveSpread, 2))

BotDecides ==
    /\ Idle("bots")
    /\ quotes = <<>>
    /\ turn <= Len(setup.bots)
    /\ quotes' \in Decisions(setup.bots[turn])
    /\ quoted' = <<>>
    /\ turn' = turn + 1
    /\ UNCHANGED <<engine, perpetual, vpin, setup, phase, tick_, left, feeding, snap>>

BotSubmits ==
    /\ Idle("bots")
    /\ quotes # <<>>
    /\ ME!SubmitOrder(Head(quotes))
    /\ quotes' = Tail(quotes)
    /\ quoted' = Append(quoted, next_order_id_)
    /\ UNCHANGED <<perpetual, vpin, setup, phase, tick_, left, turn, feeding, snap>>

(* submitOrder runs, called by a bot or by the caller of the simulator *)
EngineRuns == ME!Engine /\ UNCHANGED <<perpetual, vpin, setup, loop>>

-----------------------------------------------------------------------------
(* The rest of a tick *)

BotsDone == Idle("bots") /\ quotes = <<>> /\ turn > Len(setup.bots)

PerpetualTickStale ==                                    \* fault: the quotes of the last snapshot
    /\ BotsDone
    /\ mark_price_' = Perp!Trunc(snap.best_bid + snap.best_ask, 2)
    /\ funding_rate_' = Perp!FundingRate(TopOfBook.bid_qty, TopOfBook.ask_qty)
    /\ phase' = IF setup.vpin THEN "feed" ELSE "snap"
    /\ feeding' = 1
    /\ UNCHANGED <<engine, vpin, setup, tick_, left, turn, quotes, quoted, snap>>

PerpetualTick ==
    /\ BotsDone
    /\ Perp!Tick
    /\ phase' = IF setup.vpin THEN "feed" ELSE "snap"
    /\ feeding' = 1
    /\ UNCHANGED <<engine, vpin, setup, tick_, left, turn, quotes, quoted, snap>>

FeedOne ==
    /\ phase = "feed"
    /\ feeding <= Len(recent_trades_)
    /\ V!FeedTrade(recent_trades_[feeding].qty, recent_trades_[feeding].price, Perp!Mid(TopOfBook))
    /\ feeding' = feeding + 1
    /\ UNCHANGED <<engine, perpetual, setup, phase, tick_, left, turn, quotes, quoted, snap>>

FeedingKeepsTape ==                                      \* fault: clearRecentTrades forgotten
    /\ phase = "feed"
    /\ feeding > Len(recent_trades_)
    /\ phase' = "snap"
    /\ UNCHANGED <<engine, perpetual, vpin, setup, tick_, left, turn, quotes, quoted, feeding, snap>>

FeedingDone ==
    /\ phase = "feed"
    /\ feeding > Len(recent_trades_)
    /\ ME!ClearRecentTrades
    /\ phase' = "snap"
    /\ UNCHANGED <<perpetual, vpin, setup, tick_, left, turn, quotes, quoted, feeding, snap>>

Snapshot ==
    [tick |-> tick_, best_bid |-> Bid, best_ask |-> Ask,
     spread |-> IF TwoSided THEN Ask - Bid ELSE 0,
     mark_price |-> mark_price_, funding_rate |-> funding_rate_, total_trades |-> total_trades_,
     vpin |-> IF setup.vpin THEN V!CurrentVPIN(vpin_history) ELSE Ratio0,
     toxicity |-> IF setup.vpin THEN V!Toxicity(vpin_history) ELSE Ratio0]

(* The snapshot; then the loop goes on with the next tick, or run returns *)
EndTick ==
    /\ phase = "snap"
    /\ snap' = Snapshot
    /\ left' = left - 1
    /\ phase' = IF left > 1 THEN "bots" ELSE "out"
    /\ tick_' = IF left > 1 THEN tick_ + 1 ELSE tick_
    /\ turn' = 1
    /\ UNCHANGED <<engine, perpetual, vpin, setup, quotes, quoted, feeding>>

Working ==
    \/ BotDecides \/ BotSubmits \/ EngineRuns
    \/ PerpetualTick \/ FeedOne \/ FeedingDone \/ EndTick

Next ==
    \/ Seed
    \/ \E ticks \in 1 .. (MaxTicks - tick_) : Run(ticks)
    \/ Working

(* A call the caller has made runs: it is one thread executing C++.        *)
Spec == Init /\ [][Next]_vars /\ WF_vars(Working)

-----------------------------------------------------------------------------
MadeQuote == Len(quoted) = 2 /\ quotes = <<>> /\ pc = "idle"

(* "Prevent inverted quote": whatever the book looked like, the maker's    *)
(* bid makes.  It has not taken, and its own ask has not traded with it:   *)
(* when the maker's turn ends all of it rests, with an ask above it, so    *)
(* that the market keeps the two sides its mid price came from             *)
(* (test_simulation.cpp:37).                                               *)
MakerBidStands ==
    Idle("bots") /\ MadeQuote =>
        /\ filled[quoted[1]] = 0 /\ ME!Resting(quoted[1])
        /\ ME!Levels("Ask") # {}

(* Every trade reaches the VPIN calculator once: in each tick it is fed    *)
(* as many as were made since the last snapshot, or the newest MaxRecent   *)
(* if the tape could not hold them all.                                    *)
VpinSeesTape ==
    phase = "snap" /\ setup.vpin =>
        feeding - 1 = ME!MinOf(total_trades_ - snap.total_trades, MaxRecent)

(* A snapshot is of one moment: its mark price is the mid price of its own *)
(* quotes when it has both, its funding rate has no effect of orders that  *)
(* came later.                                                             *)
SnapshotCoherent ==
    /\ snap.best_bid # 0 /\ snap.best_ask # 0 =>
          /\ snap.best_bid < snap.best_ask
          /\ snap.mark_price = Perp!Trunc(snap.best_bid + snap.best_ask, 2)
    /\ snap.best_bid = 0 /\ snap.best_ask = 0 => snap.funding_rate = Ratio0

(* The simulator drives its PerpetualEngine as Perpetual says a book's     *)
(* owner does, so that what is proved of Perpetual holds in a simulation.  *)
DrivesPerpetual == Perp!PerpSpec

(* run() returns. *)
RunReturns == phase # "out" ~> phase = "out"
=============================================================================
