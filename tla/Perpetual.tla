------------------------------ MODULE Perpetual ------------------------------
(***************************************************************************)
(* PerpetualEngine: mark price and funding rate, recomputed by tick() from *)
(* what it reads of an order book, with the last trade price that          *)
(* onTrade() reports.  Real numbers are exact here: max_premium is a       *)
(* fraction, the funding rate a pair <<num, den>>, and Sensitivity and     *)
(* max_rate are counted in one common unit.                                *)
(***************************************************************************)
EXTENDS Integers

CONSTANTS
    Config,       \* the PerpetualConfigs a caller can set
    BookPrice,    \* prices at the top of the book (bound)
    BookQty,      \* totals of a side of the book (bound)
    TradePrice    \* prices of trades (bound)

(* max_premium = num / den, below 1; sensitivity stands for                *)
(* funding_sensitivity * tick_size                                         *)
ConfigType == [num : Nat, den : Nat \ {0}, sensitivity : Nat, max_rate : Nat]

ASSUME PerpetualAssumption ==
    /\ \A c \in Config : c \in ConfigType /\ c.num < c.den
    /\ BookPrice \subseteq Int
    /\ BookQty \subseteq Nat
    /\ TradePrice \subseteq Int

VARIABLES
    book_,              \* what tick() can read of *book_
    cfg_,
    mark_price_,
    last_trade_price_,
    funding_rate_

perp == <<cfg_, mark_price_, last_trade_price_, funding_rate_>>
perpVars == <<book_, perp>>

(* A price at the top of a side is an optional: a set of at most one price *)
Optional(S) == {{}} \cup {{x} : x \in S}
Book == {b \in [bid : Optional(BookPrice), ask : Optional(BookPrice),
                bid_qty : BookQty \cup {0}, ask_qty : BookQty \cup {0}] :
            (b.bid = {} => b.bid_qty = 0) /\ (b.ask = {} => b.ask_qty = 0)}

(* value_or(0) *)
ValueOrZero(S) == IF S = {} THEN 0 ELSE CHOOSE x \in S : TRUE

PerpInit ==
    /\ book_ \in Book
    /\ cfg_ \in Config
    /\ mark_price_ = 0
    /\ last_trade_price_ = 0
    /\ funding_rate_ = <<0, 1>>

-----------------------------------------------------------------------------
Magnitude(x) == IF x < 0 THEN -x ELSE x

(* C++ division and conversion to an integer: towards zero *)
Trunc(x, n) == IF x >= 0 THEN x \div n ELSE -((-x) \div n)

MidOfOneSide(b) ==                                       \* fault: an empty side counts as zero
    Trunc(ValueOrZero(b.bid) + ValueOrZero(b.ask), 2)

(* computeMidPrice: 0 when a side is empty *)
Mid(b) ==
    IF b.bid = {} \/ b.ask = {} THEN 0
    ELSE Trunc(ValueOrZero(b.bid) + ValueOrZero(b.ask), 2)

UnclampedOrZero(mid, mark, last) == IF mid # 0 THEN mid ELSE last    \* fault: no last mark price

(* The mid price, else the last trade price, else the last mark price *)
Unclamped(mid, mark, last) ==
    IF mid # 0 THEN mid
    ELSE IF last # 0 THEN last ELSE mark

Premium(last) == Trunc(last * cfg_.num, cfg_.den)        \* max_diff

ClampedAbove(m, last) ==                                 \* fault: one side only
    IF last # 0 /\ m - last > Premium(last) THEN last + Premium(last) ELSE m

(* The clamp around the last trade price.  For a negative one max_diff is  *)
(* negative too, so the clamp always acts.                                 *)
Clamped(m, last) ==
    LET max_diff == Premium(last) IN
    IF last = 0 \/ m = 0 \/ Magnitude(m - last) <= max_diff THEN m
    ELSE IF m > last THEN last + max_diff ELSE last - max_diff

RateOneSided(bids, asks) ==                              \* fault: only the top is clamped
    LET total == bids + asks
        raw == cfg_.sensitivity * (bids - asks)
    IN  IF bids = asks THEN <<0, 1>>
        ELSE IF raw > cfg_.max_rate * total THEN <<cfg_.max_rate, 1>>
        ELSE <<raw, total>>

RateUnguarded(bids, asks) == <<cfg_.sensitivity * (bids - asks), bids + asks>>   \* fault

(* imbalance() * sensitivity * tick_size, between -max_rate and max_rate;  *)
(* the imbalance of an empty book is 0                                     *)
FundingRate(bids, asks) ==
    LET total == bids + asks
        raw == cfg_.sensitivity * (bids - asks)
        bound == cfg_.max_rate * total
    IN  IF bids = asks THEN <<0, 1>>
        ELSE IF raw > bound THEN <<cfg_.max_rate, 1>>
        ELSE IF raw < -bound THEN <<-cfg_.max_rate, 1>>
        ELSE <<raw, total>>

-----------------------------------------------------------------------------
Tick ==
    /\ mark_price_' = Clamped(Unclamped(Mid(book_), mark_price_, last_trade_price_),
                              last_trade_price_)
    /\ funding_rate_' = FundingRate(book_.bid_qty, book_.ask_qty)
    /\ UNCHANGED <<cfg_, last_trade_price_>>

OnTrade(p) ==
    /\ last_trade_price_' = p
    /\ UNCHANGED <<cfg_, mark_price_, funding_rate_>>

SetConfig(c) ==
    /\ cfg_' = c
    /\ UNCHANGED <<mark_price_, last_trade_price_, funding_rate_>>

(* The book changes under the engine's eyes *)
BookMoves == book_' \in Book /\ UNCHANGED perp

PerpNext ==
    \/ Tick /\ UNCHANGED book_
    \/ \E p \in TradePrice : OnTrade(p) /\ UNCHANGED book_
    \/ \E c \in Config : SetConfig(c) /\ UNCHANGED book_
    \/ BookMoves

PerpSpec == PerpInit /\ [][PerpNext]_perpVars

-----------------------------------------------------------------------------
PerpTypeOK ==
    /\ book_ \in Book
    /\ cfg_ \in Config
    /\ mark_price_ \in Int
    /\ last_trade_price_ \in Int
    /\ funding_rate_ \in Int \X (Nat \ {0})

(* "maintain the last mark_price": whatever happens to the book, to the    *)
(* trades and to the configuration, a mark price once known is not lost.   *)
MarkNeverLost == [][mark_price_ # 0 => mark_price_' # 0]_perpVars

(* "1% max diff mark vs index": after every tick that knows a trade the    *)
(* mark price is at most the premium away from it, for prices of either    *)
(* sign and after a fallback too.                                          *)
PremiumHeld ==
    [][Tick /\ last_trade_price_ # 0 =>
          Magnitude(mark_price_' - last_trade_price_) <= Magnitude(Premium(last_trade_price_))
      ]_perpVars

(* While no trade is known and prices are positive, a tick on a two-sided  *)
(* book puts the mark price between the quotes, and a tick on any other    *)
(* keeps it.                                                               *)
MarkInsideQuotes ==
    [][Tick /\ last_trade_price_ = 0 =>
          LET bid == ValueOrZero(book_.bid)
              ask == ValueOrZero(book_.ask)
          IN  IF 0 < bid /\ bid <= ask THEN bid <= mark_price_' /\ mark_price_' <= ask
              ELSE book_.bid = {} \/ book_.ask = {} => mark_price_' = mark_price_]_perpVars

(* A funding payment has the sign of the imbalance and never exceeds the   *)
(* maximum the tick was configured with.                                   *)
FundingBounded ==
    [][Tick => LET n == funding_rate_'[1]
                   d == funding_rate_'[2]
               IN  /\ Magnitude(n) <= cfg_.max_rate * d
                   /\ n > 0 => book_.bid_qty > book_.ask_qty
                   /\ n < 0 => book_.bid_qty < book_.ask_qty]_perpVars
=============================================================================
