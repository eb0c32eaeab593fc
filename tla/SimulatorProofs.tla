-------------------------- MODULE SimulatorProofs --------------------------
(***************************************************************************)
(* The simulator, for every order of its bots, every draw and every        *)
(* request of its caller: the engine it owns is driven as MatchingEngine   *)
(* says, the perpetual engine as Perpetual says, the makers keep the       *)
(* market, VPIN is fed every trade the tape held, and snapshots are        *)
(* coherent.                                                               *)
(*                                                                         *)
(* What is proved of the engine is cited as MEP!...; Simulator itself      *)
(* calls the engine ME, and the first section shows that the two names     *)
(* mean the same.                                                          *)
(***************************************************************************)
EXTENDS Simulator, SequenceTheorems, TLAPS

MEP == INSTANCE ExchangeProofs

LEMMA EngineConstants == MEP!ConstantsAssumption
BY SimulatorAssumption DEF MEP!OrderType, ME!OrderType

LEMMA SameInit ==
    ME!Init <=> MEP!Init
BY Zenon DEF ME!Init, MEP!Init, ME!Id, MEP!Id, ME!NoOrder, MEP!NoOrder,
    ME!Side, MEP!Side, ME!NoLoc, MEP!NoLoc, ME!NoResult, MEP!NoResult

LEMMA SameRequest ==
    ME!Request = MEP!Request
BY Zenon DEF ME!Request, MEP!Request, ME!Side, MEP!Side,
    ME!MarketPrice, MEP!MarketPrice

LEMMA SamePostOnly ==
    \A r : ME!SubmitPostOnly(r) <=> MEP!SubmitPostOnly(r)
BY Zenon DEF ME!SubmitPostOnly, MEP!SubmitPostOnly,
    ME!NewOrder, MEP!NewOrder, ME!Id, MEP!Id, ME!WouldMatch, MEP!WouldMatch,
    ME!Levels, MEP!Levels, ME!Opposite, MEP!Opposite,
    ME!PriceCrosses, MEP!PriceCrosses, ME!ReturnAtOnce, MEP!ReturnAtOnce,
    ME!bergs, MEP!bergs, ME!call, MEP!call, ME!tape, MEP!tape,
    ME!hist, MEP!hist, ME!book, MEP!book, ME!AddToLevel, MEP!AddToLevel

LEMMA SameFOK ==
    \A r : ME!SubmitFOK(r) <=> MEP!SubmitFOK(r)
BY Zenon DEF ME!SubmitFOK, MEP!SubmitFOK, ME!NewOrder, MEP!NewOrder,
    ME!Id, MEP!Id, ME!AvailableQty, MEP!AvailableQty,
    ME!Opposite, MEP!Opposite, ME!Levels, MEP!Levels,
    ME!PriceCrosses, MEP!PriceCrosses, ME!ReturnAtOnce, MEP!ReturnAtOnce,
    ME!bergs, MEP!bergs, ME!call, MEP!call, ME!tape, MEP!tape,
    ME!hist, MEP!hist, ME!book, MEP!book,
    ME!BeginMatching, MEP!BeginMatching, ME!NoResult, MEP!NoResult,
    ME!MapThenSumSet, MEP!MapThenSumSet,
    ME!MapThenFoldSet, MEP!MapThenFoldSet

LEMMA SameStandard ==
    \A r : ME!SubmitStandard(r) <=> MEP!SubmitStandard(r)
BY Zenon DEF ME!SubmitStandard, MEP!SubmitStandard,
    ME!NewOrder, MEP!NewOrder, ME!Id, MEP!Id,
    ME!BeginMatching, MEP!BeginMatching, ME!NoResult, MEP!NoResult,
    ME!book, MEP!book, ME!tape, MEP!tape, ME!hist, MEP!hist,
    ME!bergs, MEP!bergs

LEMMA SameIceberg ==
    \A r : ME!SubmitIceberg(r) <=> MEP!SubmitIceberg(r)
BY Zenon DEF ME!SubmitIceberg, MEP!SubmitIceberg, ME!NewOrder, MEP!NewOrder,
    ME!Id, MEP!Id, ME!bergs, MEP!bergs, ME!DisplayQty, MEP!DisplayQty,
    ME!MinOf, MEP!MinOf, ME!BeginMatching, MEP!BeginMatching,
    ME!NoResult, MEP!NoResult, ME!book, MEP!book, ME!tape, MEP!tape,
    ME!hist, MEP!hist

LEMMA SameSubmit ==
    \A r : ME!SubmitOrder(r) <=> MEP!SubmitOrder(r)
BY SamePostOnly, SameFOK, SameStandard, SameIceberg, Zenon DEF ME!SubmitOrder, MEP!SubmitOrder

LEMMA SameMatchStep ==
    ME!MatchStep <=> MEP!MatchStep
BY Zenon DEF ME!MatchStep, MEP!MatchStep, ME!Reach, MEP!Reach,
    ME!Levels, MEP!Levels, ME!Opposite, MEP!Opposite,
    ME!PriceCrosses, MEP!PriceCrosses, ME!IsBest, MEP!IsBest,
    ME!Better, MEP!Better, ME!FillFront, MEP!FillFront, ME!MinOf, MEP!MinOf,
    ME!IsIceberg, MEP!IsIceberg, ME!bergs, MEP!bergs, ME!tape, MEP!tape

LEMMA SameEndMatch ==
    ME!EndMatch <=> MEP!EndMatch
BY Zenon DEF ME!EndMatch, MEP!EndMatch, ME!Reach, MEP!Reach,
    ME!Levels, MEP!Levels, ME!Opposite, MEP!Opposite,
    ME!PriceCrosses, MEP!PriceCrosses, ME!AddToLevel, MEP!AddToLevel,
    ME!DisplayQty, MEP!DisplayQty, ME!MinOf, MEP!MinOf, ME!book, MEP!book,
    ME!bergs, MEP!bergs, ME!call, MEP!call, ME!tape, MEP!tape

LEMMA SameRefreshExhausted ==
    ME!RefreshExhausted <=> MEP!RefreshExhausted
BY Zenon DEF ME!RefreshExhausted, MEP!RefreshExhausted, ME!NoLoc, MEP!NoLoc,
    ME!tape, MEP!tape, ME!hist, MEP!hist

LEMMA SameRefreshSlice ==
    ME!RefreshSlice <=> MEP!RefreshSlice
BY Zenon DEF ME!RefreshSlice, MEP!RefreshSlice, ME!MinOf, MEP!MinOf,
    ME!AddToLevel, MEP!AddToLevel, ME!tape, MEP!tape, ME!hist, MEP!hist

LEMMA SameReturnStandard ==
    ME!ReturnStandard <=> MEP!ReturnStandard
BY Zenon DEF ME!ReturnStandard, MEP!ReturnStandard,
    ME!Returning, MEP!Returning, ME!Return, MEP!Return,
    ME!RecordTrades, MEP!RecordTrades, ME!LastN, MEP!LastN,
    ME!hist, MEP!hist, ME!book, MEP!book, ME!bergs, MEP!bergs

LEMMA SameReturnFOK ==
    ME!ReturnFOK <=> MEP!ReturnFOK
BY Zenon DEF ME!ReturnFOK, MEP!ReturnFOK, ME!Returning, MEP!Returning,
    ME!Return, MEP!Return, ME!RecordTrades, MEP!RecordTrades,
    ME!LastN, MEP!LastN, ME!hist, MEP!hist, ME!book, MEP!book,
    ME!bergs, MEP!bergs

LEMMA SameReturnIOC ==
    ME!ReturnIOC <=> MEP!ReturnIOC
BY Zenon DEF ME!ReturnIOC, MEP!ReturnIOC, ME!Returning, MEP!Returning,
    ME!Return, MEP!Return, ME!RecordTrades, MEP!RecordTrades,
    ME!LastN, MEP!LastN, ME!hist, MEP!hist,
    ME!RemoveFromBook, MEP!RemoveFromBook, ME!Without, MEP!Without,
    ME!NoLoc, MEP!NoLoc, ME!book, MEP!book, ME!bergs, MEP!bergs,
    ME!Contains, MEP!Contains, ME!RemoveAt, MEP!RemoveAt

LEMMA SameReturnIceberg ==
    ME!ReturnIceberg <=> MEP!ReturnIceberg
BY Zenon DEF ME!ReturnIceberg, MEP!ReturnIceberg,
    ME!Returning, MEP!Returning, ME!Return, MEP!Return,
    ME!RecordTrades, MEP!RecordTrades, ME!LastN, MEP!LastN,
    ME!hist, MEP!hist, ME!bergs, MEP!bergs, ME!book, MEP!book

LEMMA SameClearRecentTrades ==
    ME!ClearRecentTrades <=> MEP!ClearRecentTrades
BY Zenon DEF ME!ClearRecentTrades, MEP!ClearRecentTrades, ME!book, MEP!book,
    ME!bergs, MEP!bergs, ME!call, MEP!call, ME!hist, MEP!hist

LEMMA SameEngine ==
    ME!Engine <=> MEP!Engine
BY SameMatchStep, SameEndMatch, SameRefreshExhausted, SameRefreshSlice, SameReturnStandard,
   SameReturnFOK, SameReturnIOC, SameReturnIceberg, Zenon DEF ME!Engine, MEP!Engine

LEMMA SameReads ==
    \A s : /\ ME!Levels(s) = MEP!Levels(s)
           /\ ME!BestPrice(s) = MEP!BestPrice(s)
           /\ ME!TotalQty(s) = MEP!TotalQty(s)
BY Zenon DEF ME!Levels, MEP!Levels, ME!BestPrice, MEP!BestPrice,
    ME!IsBest, MEP!IsBest, ME!Better, MEP!Better, ME!TotalQty, MEP!TotalQty,
    ME!MapThenSumSet, MEP!MapThenSumSet,
    ME!MapThenFoldSet, MEP!MapThenFoldSet

LEMMA SameReadsNext ==
    \A s : /\ ME!Levels(s)' = MEP!Levels(s)'
           /\ ME!BestPrice(s)' = MEP!BestPrice(s)'
           /\ ME!TotalQty(s)' = MEP!TotalQty(s)'
BY Zenon DEF ME!Levels, MEP!Levels, ME!BestPrice, MEP!BestPrice,
    ME!IsBest, MEP!IsBest, ME!Better, MEP!Better, ME!TotalQty, MEP!TotalQty,
    ME!MapThenSumSet, MEP!MapThenSumSet,
    ME!MapThenFoldSet, MEP!MapThenFoldSet

LEMMA SameCancel ==
    \A i : ME!CancelOrder(i) <=> MEP!CancelOrder(i)
BY Zenon DEF ME!CancelOrder, MEP!CancelOrder,
    ME!CancelFound, MEP!CancelFound, ME!NoLoc, MEP!NoLoc,
    ME!RemoveFromBook, MEP!RemoveFromBook, ME!Without, MEP!Without,
    ME!NoResult, MEP!NoResult, ME!call, MEP!call, ME!tape, MEP!tape,
    ME!hist, MEP!hist, ME!CancelUnknown, MEP!CancelUnknown,
    ME!book, MEP!book, ME!bergs, MEP!bergs, ME!Contains, MEP!Contains,
    ME!RemoveAt, MEP!RemoveAt

LEMMA SameResting ==
    \A i : ME!Resting(i) <=> MEP!Resting(i)
BY Zenon DEF ME!Resting, MEP!Resting, ME!Side, MEP!Side,
    ME!Contains, MEP!Contains

-----------------------------------------------------------------------------
(* The engine inside the simulator *)

(* Every order a bot is about to submit has a price the model knows: the   *)
(* makers have not quoted beyond Price.                                    *)
QuotesInPrice == \A k \in DOMAIN quotes : quotes[k].price \in Price

EngineInv == MEP!IInv /\ MEP!Uncrossed

LEMMA EngineInit == Init => EngineInv
<1>1. Init => MEP!Init
  BY SameInit, Zenon DEF Init
<1>2. MEP!Init => MEP!IInv
  BY EngineConstants, MEP!InitInv
<1>3. MEP!Init => MEP!Uncrossed
  BY EngineConstants, MEP!UncrossedInit
<1> QED
  BY <1>1, <1>2, <1>3, Zenon DEF EngineInv

LEMMA EngineKeeps ==
    ASSUME "Iceberg" \notin OrderTypes, EngineInv, [MEP!Next]_(MEP!vars)
    PROVE  EngineInv'
<1>1. MEP!IInv /\ [MEP!Next]_(MEP!vars) => MEP!IInv'
  BY EngineConstants, MEP!NextInv
<1>2. MEP!IInv /\ MEP!Uncrossed /\ [MEP!Next]_(MEP!vars) => MEP!Uncrossed'
  BY EngineConstants, MEP!NextUncrossed
<1> QED
  BY <1>1, <1>2, Zenon DEF EngineInv

LEMMA EngineUnchanged ==
    ASSUME UNCHANGED engine
    PROVE  UNCHANGED MEP!vars
BY DEF engine, MEP!vars, MEP!book, MEP!bergs, MEP!call, MEP!tape, MEP!hist

(* The four ways a step of the simulator moves its engine                  *)
LEMMA EngineMoves ==
    ASSUME [Next]_vars
    PROVE  \/ UNCHANGED engine
           \/ \E r \in SeedOrders : MEP!SubmitOrder(r)
           \/ BotSubmits /\ MEP!SubmitOrder(Head(quotes))
           \/ MEP!Engine
           \/ MEP!ClearRecentTrades
<1>1. CASE Seed
  BY <1>1, SameSubmit DEF Seed
<1>2. CASE BotSubmits
  BY <1>2, SameSubmit DEF BotSubmits
<1>3. CASE EngineRuns
  BY <1>3, SameEngine, Zenon DEF EngineRuns
<1>4. CASE FeedingDone
  BY <1>4, SameClearRecentTrades, Zenon DEF FeedingDone
<1>5. CASE \E ticks \in 1 .. (MaxTicks - tick_) : Run(ticks)
  BY <1>5 DEF Run
<1>6. CASE BotDecides \/ PerpetualTick \/ FeedOne \/ EndTick \/ UNCHANGED vars
  BY <1>6 DEF BotDecides, PerpetualTick, FeedOne, EndTick, vars
<1> QED
  BY <1>1, <1>2, <1>3, <1>4, <1>5, <1>6, Zenon DEF Next, Working

(* The orders waiting in quotes: a random bot's one, or a maker's bid and  *)
(* ask, of which the bid may be gone.                                      *)
BidAsk(b, a) ==
    /\ b.side = "Bid" /\ b.type = "Limit" /\ b.total_qty > 0
    /\ a.side = "Ask" /\ a.type = "Limit"
    /\ b.price < a.price
QuotesTyped ==
    \A k \in DOMAIN quotes :
        \E s \in ME!Side, p \in Int, q \in Qty : quotes[k] = Limit(s, p, q)

LEMMA LimitIsRequest ==
    ASSUME NEW s \in ME!Side, NEW p \in Price, NEW q \in Qty
    PROVE  Limit(s, p, q) \in ME!Request
BY SimulatorAssumption, Zenon DEF Limit, ME!Request, ME!MarketPrice

LEMMA QuotesAreRequests ==
    ASSUME QuotesTyped, QuotesInPrice
    PROVE  \A k \in DOMAIN quotes : quotes[k] \in MEP!Request
<1> SUFFICES ASSUME NEW k \in DOMAIN quotes PROVE quotes[k] \in ME!Request
  BY SameRequest
<1>1. PICK s \in ME!Side, p \in Int, q \in Qty : quotes[k] = Limit(s, p, q)
  BY DEF QuotesTyped
<1>2. p \in Price
  BY <1>1 DEF QuotesInPrice, Limit
<1> QED
  BY <1>1, <1>2, LimitIsRequest

-----------------------------------------------------------------------------
(* What a bot decides on *)

LEMMA TruncType ==
    ASSUME NEW x \in Int, NEW n \in Nat \ {0}
    PROVE  Perp!Trunc(x, n) \in Int
BY DEF Perp!Trunc

(* A side of the book that is not empty has one best price, and the bids   *)
(* are below the asks.                                                     *)
LEMMA OneBest ==
    ASSUME EngineInv, NEW s \in ME!Side, ME!Levels(s) # {}
    PROVE  \E p \in ME!Levels(s) :
              /\ ME!BestPrice(s) = {p} /\ Perp!ValueOrZero(ME!BestPrice(s)) = p
              /\ p \in Price /\ p \in Int
              /\ \A q \in ME!Levels(s) : ~MEP!Better(s, q, p)
<1>1. MEP!Levels(s) # {} /\ s \in MEP!Side /\ MEP!IInv
  BY SameReads DEF EngineInv, MEP!Side, ME!Side
<1>2. \E p \in MEP!Levels(s) : /\ MEP!BestPrice(s) = {p} /\ p \in Price /\ p \in Int
                               /\ \A q \in MEP!Levels(s) : ~MEP!Better(s, q, p)
  BY <1>1, EngineConstants, MEP!BestPriceIs
<1>3. \A p : Perp!ValueOrZero({p}) = p
  BY DEF Perp!ValueOrZero
<1> QED
  BY <1>2, <1>3, SameReads

LEMMA TwoBest ==
    ASSUME EngineInv, TwoSided
    PROVE  /\ Bid \in Price /\ Ask \in Price /\ Bid \in Int /\ Ask \in Int /\ Bid < Ask
           /\ ME!BestPrice("Bid") = {Bid} /\ ME!BestPrice("Ask") = {Ask}
           /\ \A p \in ME!Levels("Ask") : p \in Int /\ Ask <= p
<1>1. PICK b \in ME!Levels("Bid") :
          ME!BestPrice("Bid") = {b} /\ Perp!ValueOrZero(ME!BestPrice("Bid")) = b /\ b \in Price /\ b \in Int
  BY OneBest DEF TwoSided, ME!Side
<1>2. PICK a \in ME!Levels("Ask") :
          /\ ME!BestPrice("Ask") = {a} /\ Perp!ValueOrZero(ME!BestPrice("Ask")) = a
          /\ a \in Price /\ a \in Int
          /\ \A q \in ME!Levels("Ask") : ~MEP!Better("Ask", q, a)
  BY OneBest DEF TwoSided, ME!Side
<1>3. b < a
  BY SameReads DEF EngineInv, MEP!Uncrossed
<1>4. \A p \in ME!Levels("Ask") : p \in Int /\ a <= p
  <2>1. \A p \in ME!Levels("Ask") : p \in Int
    BY SimulatorAssumption DEF ME!Levels
  <2> QED
    BY <1>2, <2>1 DEF MEP!Better
<1> QED
  BY <1>1, <1>2, <1>3, <1>4 DEF Bid, Ask

(* The calculator the adaptive maker reads has an empty history: its       *)
(* toxicity is zero and the spread is not widened.                         *)
LEMMA SpreadNotWidened ==
    ASSUME EngineInv, TwoSided
    PROVE  /\ BaseSpread \in Int /\ BaseSpread >= 2 /\ AdaptiveSpread = BaseSpread
           /\ BaseSpread = IF Ask - Bid >= 2 THEN Ask - Bid ELSE 2
<1>1. /\ BaseSpread \in Int /\ BaseSpread >= 2
      /\ BaseSpread = IF Ask - Bid >= 2 THEN Ask - Bid ELSE 2
  BY TwoBest DEF BaseSpread, ME!Larger
<1> DEFINE base == BaseSpread
<1> HIDE DEF base
<1>2. V!Toxicity(<<>>) = <<0, 8>>
  <2>1. V!CurrentVPIN(<<>>) = <<0, 1>>
    BY Zenon DEF V!CurrentVPIN
  <2>2. 10 * 0 - 1 < 0 /\ 8 * 1 = 8
    OBVIOUS
  <2> QED
    BY <2>1, <2>2 DEF V!Toxicity
<1>3. AdaptiveSpread = ME!MinOf(base + Perp!Trunc(base * 0 * 3, 8), base * 4)
  BY <1>2 DEF AdaptiveSpread, base
<1>4. base \in Int /\ base >= 2
  BY <1>1 DEF base
<1>5. Perp!Trunc(base * 0 * 3, 8) = 0
  <2>1. base * 0 * 3 = 0
    BY <1>4
  <2>2. Perp!Trunc(0, 8) = 0
    BY DEF Perp!Trunc
  <2> QED
    BY <2>1, <2>2
<1>6. ME!MinOf(base + 0, base * 4) = base
  BY <1>4 DEF ME!MinOf
<1>7. AdaptiveSpread = base
  BY <1>3, <1>5, <1>6
<1> QED
  BY <1>1, <1>7 DEF base

(* Two quotes half a spread off the mid price: never inverted, and where   *)
(* prices are not negative the bid is below every ask of the book.         *)
LEMMA QuoteIs ==
    ASSUME EngineInv, TwoSided, NEW spread, spread = BaseSpread, NEW h \in Nat \ {0},
           NEW i \in -1 .. 1, NEW j \in -1 .. 1,
           NEW mid, mid = Perp!Trunc(Bid + Ask, 2), NEW half, half = Perp!Trunc(spread, 2)
    PROVE  \E b, a \in Int :
              /\ Quote(mid - half + i, mid + half + j, mid, h) = <<b, a>>
              /\ b < a
              /\ Price \subseteq Nat => \A p \in ME!Levels("Ask") : b < p
<1> DEFINE B == Bid
           A == Ask
<1>1. B \in Int /\ A \in Int /\ B < A /\ \A p \in ME!Levels("Ask") : p \in Int /\ A <= p
  BY TwoBest
<1>2. Price \subseteq Nat => B \in Nat /\ A \in Nat
  BY TwoBest
<1> HIDE DEF B, A
<1>3. mid = Perp!Trunc(B + A, 2) /\ half = Perp!Trunc(spread, 2)
      /\ spread \in Int /\ spread >= 2 /\ spread = IF A - B >= 2 THEN A - B ELSE 2
  BY SpreadNotWidened DEF A, B
<1>4. mid \in Int /\ half \in Int
  BY <1>1, <1>3, TruncType
<1>5. half = spread \div 2
  BY <1>3 DEF Perp!Trunc
<1>6. Price \subseteq Nat => mid = (B + A) \div 2
  BY <1>1, <1>2, <1>3 DEF Perp!Trunc
<1>7. Price \subseteq Nat => mid - half + i < A /\ mid - h < A
  <2> SUFFICES ASSUME Price \subseteq Nat PROVE mid - half + i < A /\ mid - h < A
    OBVIOUS
  <2>1. B \in Nat /\ A \in Nat /\ mid = (B + A) \div 2
    BY <1>2, <1>6
  <2>2. mid < A
    BY <1>1, <2>1
  <2>3. mid - half + i < A
    <3>1. CASE A - B >= 2
      <4>1. half = (A - B) \div 2
        BY <1>3, <1>5, <3>1
      <4>2. 2 * mid <= A + B /\ 2 * half >= A - B - 1
        BY <1>1, <1>4, <2>1, <4>1
      <4> QED
        BY <1>1, <1>4, <3>1, <4>2
    <3>2. CASE ~(A - B >= 2)
      <4>1. half = 1
        BY <1>3, <1>5, <3>2
      <4> QED
        BY <1>1, <1>4, <2>2, <4>1, <3>2, <2>1
    <3> QED
      BY <3>1, <3>2
  <2> QED
    BY <1>1, <1>4, <2>2, <2>3
<1>8. CASE mid - half + i >= mid + half + j
  <2>1. Quote(mid - half + i, mid + half + j, mid, h) = <<mid - h, mid + h>>
    BY <1>8 DEF Quote
  <2>2. mid - h \in Int /\ mid + h \in Int /\ mid - h < mid + h
    BY <1>4
  <2>3. Price \subseteq Nat => \A p \in ME!Levels("Ask") : mid - h < p
    BY <1>1, <1>7, <2>2
  <2> QED
    BY <2>1, <2>2, <2>3
<1>9. CASE ~(mid - half + i >= mid + half + j)
  <2>1. Quote(mid - half + i, mid + half + j, mid, h) = <<mid - half + i, mid + half + j>>
    BY <1>9 DEF Quote
  <2>2. /\ mid - half + i \in Int /\ mid + half + j \in Int
        /\ mid - half + i < mid + half + j
    BY <1>4, <1>9
  <2>3. Price \subseteq Nat => \A p \in ME!Levels("Ask") : mid - half + i < p
    BY <1>1, <1>7, <2>2
  <2> QED
    BY <2>1, <2>2, <2>3
<1> QED
  BY <1>8, <1>9

(* A maker's decision                                                      *)
Paired(d) ==
    \E b, a \in Int, q, r \in Qty \ {0} :
        /\ d = <<Limit("Bid", b, q), Limit("Ask", a, r)>>
        /\ b < a
        /\ ME!Levels("Ask") # {}
        /\ Price \subseteq Nat => \A p \in ME!Levels("Ask") : b < p

LEMMA MakerDecides ==
    ASSUME EngineInv, NEW spread, TwoSided => spread = BaseSpread,
           NEW h, TwoSided => h \in Nat \ {0}, NEW d \in MakerOrders(spread, h)
    PROVE  d = <<>> \/ Paired(d)
<1> DEFINE mid == Perp!Trunc(Bid + Ask, 2)
           half == Perp!Trunc(spread, 2)
<1>1. CASE ~TwoSided
  BY <1>1 DEF MakerOrders
<1>2. CASE TwoSided
  <2>1. PICK i, j, q, r, p :
            /\ i \in -1 .. 1 /\ j \in -1 .. 1 /\ q \in MakerQty /\ r \in MakerQty
            /\ p = Quote(mid - half + i, mid + half + j, mid, h)
            /\ d = <<Limit("Bid", p[1], q), Limit("Ask", p[2], r)>>
    <3> DEFINE pairs == {Quote(mid - half + x, mid + half + y, mid, h) : x, y \in -1 .. 1}
    <3>1. MakerOrders(spread, h) =
              {<<Limit("Bid", p[1], q), Limit("Ask", p[2], r)>> : p \in pairs, q, r \in MakerQty}
      BY <1>2 DEF MakerOrders
    <3>2. PICK p \in pairs, q \in MakerQty, r \in MakerQty :
              d = <<Limit("Bid", p[1], q), Limit("Ask", p[2], r)>>
      <4> HIDE DEF pairs
      <4> QED
        BY <3>1
    <3>3. PICK i \in -1 .. 1, j \in -1 .. 1 : p = Quote(mid - half + i, mid + half + j, mid, h)
      <4> HIDE DEF mid, half
      <4> QED
        BY <3>2
    <3> HIDE DEF mid, half
    <3> QED
      BY <3>2, <3>3
  <2>2. PICK b \in Int, a \in Int :
            /\ Quote(mid - half + i, mid + half + j, mid, h) = <<b, a>>
            /\ b < a
            /\ Price \subseteq Nat => \A l \in ME!Levels("Ask") : b < l
    <3> HIDE DEF mid, half
    <3> QED
      BY <1>2, <2>1, QuoteIs DEF mid, half
  <2> HIDE DEF mid, half
  <2>3. p[1] = b /\ p[2] = a
    BY <2>1, <2>2
  <2>4. q \in Qty \ {0} /\ r \in Qty \ {0}
    BY <2>1, SimulatorAssumption
  <2>5. ME!Levels("Ask") # {}
    BY <1>2 DEF TwoSided
  <2> QED
    BY <2>1, <2>2, <2>3, <2>4, <2>5, Zenon DEF Paired
<1> QED
  BY <1>1, <1>2

LEMMA BotsDecide ==
    ASSUME EngineInv, NEW bot \in {"random", "maker", "adaptive"}, NEW d \in Decisions(bot)
    PROVE  \/ d = <<>> \/ Paired(d)
           \/ \E s \in ME!Side, p \in Price, q \in Qty : d = <<Limit(s, p, q)>>
<1>1. CASE bot = "random"
  <2>1. PICK s \in ME!Side, p \in RandomPrice, q \in RandomQty : d = <<Limit(s, p, q)>>
    <3>1. Decisions(bot) = {<<Limit(s, p, q)>> : s \in ME!Side, p \in RandomPrice, q \in RandomQty}
      BY <1>1 DEF Decisions
    <3> QED
      BY <3>1
  <2>2. p \in Price /\ q \in Qty
    BY SimulatorAssumption
  <2> QED
    BY <2>1, <2>2
<1>2. CASE bot = "maker"
  <2>1. d \in MakerOrders(BaseSpread, 1)
    BY <1>2 DEF Decisions
  <2> QED
    BY <2>1, MakerDecides
<1>3. CASE bot = "adaptive"
  <2>1. d \in MakerOrders(AdaptiveSpread, Perp!Trunc(AdaptiveSpread, 2))
    BY <1>3 DEF Decisions
  <2>2. TwoSided => AdaptiveSpread = BaseSpread /\ Perp!Trunc(AdaptiveSpread, 2) \in Nat \ {0}
    BY SpreadNotWidened DEF Perp!Trunc
  <2> QED
    BY <2>1, <2>2, MakerDecides, Zenon
<1> QED
  BY <1>1, <1>2, <1>3

-----------------------------------------------------------------------------
(* The loop, and what the acting bot has submitted and has still to submit *)

LoopInv ==
    /\ setup \in Setups
    /\ phase \in {"out", "bots", "feed", "snap"}
    /\ turn \in Nat \ {0}
    /\ phase # "bots" => quotes = <<>>
    /\ phase \in {"feed", "snap"} => pc = "idle"

Shape ==
    \/ quotes = <<>> /\ (quoted = <<>> \/ (\E n : quoted = <<n>>) \/ \E n, m : quoted = <<n, m>>)
    \/ \E a : quotes = <<a>> /\ (quoted = <<>> \/ \E n : quoted = <<n>>)
    \/ \E b, a : quotes = <<b, a>> /\ quoted = <<>>

BaseInv == EngineInv /\ LoopInv /\ Shape /\ QuotesTyped

LEMMA AppendSecond ==
    ASSUME NEW n, NEW m
    PROVE  Append(<<n>>, m) = <<n, m>>
<1>1. /\ <<n>> \in Seq({n, m}) /\ <<n, m>> \in Seq({n, m})
      /\ Len(<<n, m>>) = 2 /\ <<n, m>>[1] = n /\ <<n, m>>[2] = m
  OBVIOUS
<1>2. /\ Append(<<n>>, m) \in Seq({n, m}) /\ Len(Append(<<n>>, m)) = 2
      /\ Append(<<n>>, m)[1] = n /\ Append(<<n>>, m)[2] = m
  BY <1>1
<1>3. \A i \in 1 .. 2 : Append(<<n>>, m)[i] = <<n, m>>[i]
  BY <1>1, <1>2
<1> QED
  BY <1>1, <1>2, <1>3, SeqEqual

LEMMA EngineAtWork == ME!Engine => pc # "idle"
BY DEF ME!Engine, ME!MatchStep, ME!EndMatch, ME!RefreshExhausted, ME!RefreshSlice, ME!ReturnStandard,
       ME!ReturnFOK, ME!ReturnIOC, ME!ReturnIceberg, ME!Returning

LEMMA LoopNext == LoopInv /\ [Next]_vars => LoopInv'
<1> SUFFICES ASSUME LoopInv, [Next]_vars PROVE LoopInv'
  OBVIOUS
<1>1. CASE Seed
  BY <1>1 DEF Seed, Idle, LoopInv, loop
<1>2. CASE \E ticks \in 1 .. (MaxTicks - tick_) : Run(ticks)
  BY <1>2 DEF Run, Idle, LoopInv, engine
<1>3. CASE BotDecides
  BY <1>3 DEF BotDecides, Idle, LoopInv
<1>4. CASE BotSubmits
  BY <1>4 DEF BotSubmits, Idle, LoopInv
<1>5. CASE EngineRuns
  <2>1. ME!Engine /\ UNCHANGED <<setup, loop>>
    BY <1>5 DEF EngineRuns
  <2> QED
    BY <2>1, EngineAtWork DEF LoopInv, loop
<1>6. CASE PerpetualTick
  BY <1>6 DEF PerpetualTick, BotsDone, Idle, LoopInv, engine
<1>7. CASE FeedOne
  BY <1>7 DEF FeedOne, LoopInv, engine
<1>8. CASE FeedingDone
  BY <1>8 DEF FeedingDone, LoopInv, ME!ClearRecentTrades
<1>9. CASE EndTick
  BY <1>9 DEF EndTick, LoopInv, engine
<1>10. CASE UNCHANGED vars
  BY <1>10 DEF LoopInv, vars, loop, engine
<1> QED
  BY <1>1, <1>2, <1>3, <1>4, <1>5, <1>6, <1>7, <1>8, <1>9, <1>10 DEF Next, Working

(* A bot decides as BotsDecide says.                                       *)
LEMMA Decided ==
    ASSUME EngineInv, LoopInv, BotDecides
    PROVE  \/ quotes' = <<>> \/ Paired(quotes')
           \/ \E s \in ME!Side, p \in Price, q \in Qty : quotes' = <<Limit(s, p, q)>>
<1>1. setup.bots[turn] \in {"random", "maker", "adaptive"}
  <2>1. setup.bots \in Seq({"random", "maker", "adaptive"})
    BY SimulatorAssumption DEF LoopInv
  <2>2. turn \in 1 .. Len(setup.bots)
    BY <2>1 DEF BotDecides, LoopInv
  <2> QED
    BY <2>1, <2>2
<1>2. quotes' \in Decisions(setup.bots[turn])
  BY DEF BotDecides
<1> QED
  BY <1>1, <1>2, BotsDecide

LEMMA ShapeNext ==
    ASSUME EngineInv, LoopInv, Shape, QuotesTyped, [Next]_vars
    PROVE  Shape' /\ QuotesTyped'
<1>1. CASE UNCHANGED <<quotes, quoted>>
  BY <1>1 DEF Shape, QuotesTyped
<1>2. CASE BotDecides
  <2>1. quoted' = <<>>
    BY <1>2 DEF BotDecides
  <2>2. CASE quotes' = <<>>
    BY <2>1, <2>2 DEF Shape, QuotesTyped
  <2>3. CASE Paired(quotes')
    <3>1. PICK b \in Int, a \in Int, q \in Qty, r \in Qty :
              quotes' = <<Limit("Bid", b, q), Limit("Ask", a, r)>>
      BY <2>3, Zenon DEF Paired
    <3>2. "Bid" \in ME!Side /\ "Ask" \in ME!Side
      BY DEF ME!Side
    <3>3. QuotesTyped'
      <4> SUFFICES ASSUME NEW k \in DOMAIN quotes'
                   PROVE  \E s \in ME!Side, p \in Int, z \in Qty : quotes'[k] = Limit(s, p, z)
        BY DEF QuotesTyped
      <4>1. k = 1 \/ k = 2
        BY <3>1
      <4> QED
        BY <3>1, <3>2, <4>1
    <3> QED
      BY <2>1, <3>1, <3>3 DEF Shape
  <2>4. CASE \E s \in ME!Side, p \in Price, q \in Qty : quotes' = <<Limit(s, p, q)>>
    <3>1. PICK s \in ME!Side, p \in Price, q \in Qty : quotes' = <<Limit(s, p, q)>>
      BY <2>4
    <3>2. p \in Int
      BY SimulatorAssumption
    <3> QED
      BY <2>1, <3>1, <3>2 DEF Shape, QuotesTyped
  <2> QED
    BY <1>2, <2>2, <2>3, <2>4, Decided
<1>3. CASE BotSubmits
  <2>1. quotes # <<>> /\ quotes' = Tail(quotes) /\ quoted' = Append(quoted, next_order_id_)
    BY <1>3 DEF BotSubmits
  <2>2. CASE \E a : quotes = <<a>> /\ (quoted = <<>> \/ \E n : quoted = <<n>>)
    <3>1. PICK a : quotes = <<a>> /\ (quoted = <<>> \/ \E n : quoted = <<n>>)
      BY <2>2
    <3>2. quotes' = <<>>
      BY <2>1, <3>1
    <3>3. (\E n : quoted' = <<n>>) \/ \E n, m : quoted' = <<n, m>>
      <4>1. CASE quoted = <<>>
        BY <2>1, <4>1
      <4>2. ASSUME NEW n, quoted = <<n>>
            PROVE  quoted' = <<n, next_order_id_>>
        BY <2>1, <4>2, AppendSecond
      <4> QED
        BY <3>1, <4>1, <4>2
    <3> QED
      BY <3>2, <3>3 DEF Shape, QuotesTyped
  <2>3. CASE \E b, a : quotes = <<b, a>> /\ quoted = <<>>
    <3>1. PICK b, a : quotes = <<b, a>> /\ quoted = <<>>
      BY <2>3
    <3>2. quotes' = <<a>> /\ quoted' = <<next_order_id_>> /\ quotes[2] = a /\ 2 \in DOMAIN quotes
      BY <2>1, <3>1
    <3>3. QuotesTyped'
      <4>1. \E s \in ME!Side, p \in Int, z \in Qty : a = Limit(s, p, z)
        BY <3>2 DEF QuotesTyped
      <4>2. \A k \in DOMAIN quotes' : quotes'[k] = a
        BY <3>2
      <4> QED
        BY <4>1, <4>2 DEF QuotesTyped
    <3> QED
      BY <3>2, <3>3 DEF Shape
  <2> QED
    BY <2>1, <2>2, <2>3 DEF Shape
<1>4. CASE \E ticks \in 1 .. (MaxTicks - tick_) : Run(ticks)
  <2>1. quotes = <<>> /\ quotes' = <<>> /\ quoted' = <<>>
    BY <1>4 DEF Run, Idle, LoopInv
  <2> QED
    BY <2>1 DEF Shape, QuotesTyped
<1>5. CASE \/ Seed \/ EngineRuns \/ PerpetualTick \/ FeedOne \/ FeedingDone \/ EndTick
           \/ UNCHANGED vars
  BY <1>1, <1>5 DEF Seed, EngineRuns, PerpetualTick, FeedOne, FeedingDone, EndTick, vars, loop
<1> QED
  BY <1>2, <1>3, <1>4, <1>5 DEF Next, Working

LEMMA BaseInit == Init => BaseInv
<1> SUFFICES ASSUME Init PROVE BaseInv
  OBVIOUS
<1>1. LoopInv /\ Shape /\ QuotesTyped
  BY DEF Init, LoopInv, Shape, QuotesTyped
<1> QED
  BY <1>1, EngineInit DEF BaseInv

(* Whatever the bots and the caller do, the engine makes a step of its own *)
(* specification.                                                          *)
LEMMA EngineDriven ==
    ASSUME BaseInv, QuotesInPrice, [Next]_vars
    PROVE  [MEP!Next]_(MEP!vars)
<1>1. CASE UNCHANGED engine
  BY <1>1, EngineUnchanged
<1>2. ASSUME NEW r \in MEP!Request, MEP!SubmitOrder(r)
      PROVE  MEP!Next
  BY <1>2, Zenon DEF MEP!Next, MEP!Submit
<1>3. CASE \E r \in SeedOrders : MEP!SubmitOrder(r)
  BY <1>2, <1>3, SimulatorAssumption, SameRequest
<1>4. CASE BotSubmits /\ MEP!SubmitOrder(Head(quotes))
  <2>1. quotes # <<>> /\ Shape
    BY <1>4 DEF BotSubmits, BaseInv
  <2>2. Head(quotes) = quotes[1] /\ 1 \in DOMAIN quotes
    BY <2>1 DEF Shape
  <2>3. Head(quotes) \in MEP!Request
    BY <2>2, QuotesAreRequests DEF BaseInv
  <2> QED
    BY <1>2, <1>4, <2>3
<1>5. CASE MEP!Engine \/ MEP!ClearRecentTrades
  BY <1>5, Zenon DEF MEP!Next
<1> QED
  BY <1>1, <1>3, <1>4, <1>5, EngineMoves

LEMMA BaseNext ==
    ASSUME "Iceberg" \notin OrderTypes, BaseInv, QuotesInPrice, [Next]_vars
    PROVE  BaseInv'
<1>1. EngineInv'
  BY EngineDriven, EngineKeeps DEF BaseInv
<1> QED
  BY <1>1, LoopNext, ShapeNext DEF BaseInv

(* The simulator owns its engine as MatchingEngine says, as long as its    *)
(* makers do not quote beyond Price: what is proved of MatchingEngine      *)
(* holds in every simulation.                                              *)
THEOREM SimulatorDrivesEngine ==
    ASSUME "Iceberg" \notin OrderTypes
    PROVE  Spec /\ []QuotesInPrice => ME!Spec
<1>1. Init => ME!Init
  BY DEF Init
<1>2. BaseInv /\ QuotesInPrice /\ [Next]_vars => [ME!Next]_(ME!vars)
  <2>1. MEP!Next => ME!Next
    BY SameSubmit, SameRequest, SameEngine, SameCancel, SameClearRecentTrades, Zenon
       DEF MEP!Next, ME!Next, MEP!Submit, ME!Submit, MEP!Id, ME!Id
  <2>2. UNCHANGED MEP!vars => UNCHANGED ME!vars
    BY DEF MEP!vars, MEP!book, MEP!bergs, MEP!call, MEP!tape, MEP!hist,
           ME!vars, ME!book, ME!bergs, ME!call, ME!tape, ME!hist
  <2> QED
    BY <2>1, <2>2, EngineDriven
<1>3. BaseInv /\ QuotesInPrice /\ [Next]_vars => BaseInv'
  BY BaseNext
<1> QED
  BY <1>1, <1>2, <1>3, BaseInit, PTL DEF Spec, ME!Spec

-----------------------------------------------------------------------------
(* The makers *)

(* What a maker has in hand: two orders to submit, of which the bid will   *)
(* meet nothing; the ask, while the bid enters the book; nothing, while    *)
(* the bid stands beside it.                                               *)
MakerInv ==
    /\ \A b, a : quotes = <<b, a>> =>
          /\ pc = "idle" /\ BidAsk(b, a)
          /\ MEP!Levels("Ask") # {} /\ \A p \in MEP!Levels("Ask") : b.price < p
    /\ \A a, n : quotes = <<a>> /\ quoted = <<n>> =>
          /\ a.side = "Ask" /\ a.type = "Limit" /\ order[n].price < a.price
          /\ MEP!BidMakes(n)
    /\ \A n, m : quotes = <<>> /\ quoted = <<n, m>> /\ phase # "out" => MEP!BidMakes(n)

LEMMA SameBookMakes ==
    ASSUME UNCHANGED engine, NEW n, MEP!BidMakes(n)
    PROVE  MEP!BidMakes(n)'
<1>1. UNCHANGED <<next_order_id_, order, queue, filled, taker, pc, remaining>>
  BY DEF engine
<1> QED
  BY <1>1, Zenon DEF MEP!BidMakes, MEP!Submitted, MEP!Levels, MEP!Reach, MEP!Resting

(* Nothing but submitting changes what is in hand: it is enough that the   *)
(* engine keeps its side.                                                  *)
LEMMA InHandKeeps ==
    ASSUME MakerInv, UNCHANGED <<quotes, quoted>>, phase' # "out" => phase # "out",
           \A b, a : quotes = <<b, a>> => UNCHANGED engine,
           \A n : MEP!BidMakes(n) => MEP!BidMakes(n)' /\ order'[n] = order[n]
    PROVE  MakerInv'
<1>1. ASSUME NEW b, NEW a, quotes' = <<b, a>>
      PROVE  /\ pc' = "idle" /\ BidAsk(b, a)
             /\ MEP!Levels("Ask")' # {} /\ \A p \in MEP!Levels("Ask")' : b.price < p
  <2>1. quotes = <<b, a>> /\ UNCHANGED engine
    BY <1>1
  <2>2. MEP!Levels("Ask")' = MEP!Levels("Ask") /\ pc' = pc
    BY <2>1 DEF engine, MEP!Levels
  <2> QED
    BY <2>1, <2>2, Zenon DEF MakerInv
<1>2. ASSUME NEW a, NEW n, quotes' = <<a>>, quoted' = <<n>>
      PROVE  /\ a.side = "Ask" /\ a.type = "Limit" /\ order'[n].price < a.price
             /\ MEP!BidMakes(n)'
  <2>1. /\ a.side = "Ask" /\ a.type = "Limit" /\ order[n].price < a.price
        /\ MEP!BidMakes(n)
    BY <1>2, Zenon DEF MakerInv
  <2> QED
    BY <2>1
<1>3. ASSUME NEW n, NEW m, quotes' = <<>>, quoted' = <<n, m>>, phase' # "out"
      PROVE  MEP!BidMakes(n)'
  <2>1. MEP!BidMakes(n)
    BY <1>3, Zenon DEF MakerInv
  <2> QED
    BY <2>1
<1> QED
  BY <1>1, <1>2, <1>3, Zenon DEF MakerInv

LEMMA DecideMaker ==
    ASSUME Price \subseteq Nat, EngineInv, LoopInv, BotDecides
    PROVE  MakerInv'
<1>1. UNCHANGED engine /\ pc = "idle" /\ pc' = "idle" /\ quoted' = <<>>
  BY DEF BotDecides, Idle, engine
<1>2. ASSUME NEW b, NEW a, quotes' = <<b, a>>
      PROVE  /\ pc' = "idle" /\ BidAsk(b, a)
             /\ MEP!Levels("Ask")' # {} /\ \A p \in MEP!Levels("Ask")' : b.price < p
  <2>1. Paired(quotes')
    <3>1. \A x : quotes' # <<x>> /\ quotes' # <<>>
      BY <1>2
    <3> QED
      BY <3>1, Decided
  <2>2. PICK x \in Int, y \in Int, q \in Qty \ {0}, r \in Qty \ {0} :
            /\ quotes' = <<Limit("Bid", x, q), Limit("Ask", y, r)>>
            /\ x < y
            /\ ME!Levels("Ask") # {}
            /\ Price \subseteq Nat => \A p \in ME!Levels("Ask") : x < p
    BY <2>1, Zenon DEF Paired
  <2>3. b = Limit("Bid", x, q) /\ a = Limit("Ask", y, r)
    BY <1>2, <2>2
  <2>4. q > 0
    BY SimulatorAssumption
  <2>5. BidAsk(b, a) /\ b.price = x
    BY <2>2, <2>3, <2>4 DEF BidAsk, Limit
  <2>6. MEP!Levels("Ask")' = ME!Levels("Ask")
    BY <1>1, SameReads DEF MEP!Levels, engine
  <2> QED
    BY <1>1, <2>2, <2>5, <2>6
<1>3. \A a : quoted' # <<a>>
  BY <1>1
<1>4. \A n, m : quoted' # <<n, m>>
  BY <1>1
<1> QED
  BY <1>2, <1>3, <1>4, Zenon DEF MakerInv

LEMMA SubmitMaker ==
    ASSUME BaseInv, MakerInv, QuotesInPrice, BotSubmits
    PROVE  MakerInv'
<1>1. PICK x : x = next_order_id_
  OBVIOUS
<1>2. /\ quotes # <<>> /\ quotes' = Tail(quotes) /\ quoted' = Append(quoted, x)
      /\ MEP!SubmitOrder(Head(quotes)) /\ Head(quotes) \in MEP!Request /\ MEP!IInv
  <2>1. quotes # <<>> /\ quotes' = Tail(quotes) /\ MEP!SubmitOrder(Head(quotes))
    BY SameSubmit DEF BotSubmits
  <2>2. Head(quotes) = quotes[1] /\ 1 \in DOMAIN quotes
    BY <2>1 DEF BaseInv, Shape
  <2>3. Head(quotes) \in MEP!Request
    BY <2>2, QuotesAreRequests DEF BaseInv
  <2> QED
    BY <1>1, <2>1, <2>3 DEF BotSubmits, BaseInv, EngineInv
<1>3. ASSUME NEW b, NEW a, quotes = <<b, a>>, quoted = <<>>
      PROVE  MakerInv'
  <2>1. quotes' = <<a>> /\ quoted' = <<x>> /\ Head(quotes) = b
    BY <1>2, <1>3
  <2>2. /\ BidAsk(b, a)
        /\ MEP!Levels("Ask") # {} /\ \A p \in MEP!Levels("Ask") : b.price < p
    BY <1>3, Zenon DEF MakerInv
  <2>3. b \in MEP!Request /\ MEP!SubmitOrder(b) /\ MEP!IInv
    BY <1>2, <2>1
  <2>4. MEP!BidMakes(x)'
    BY <1>1, <2>2, <2>3, EngineConstants, MEP!BidEnters DEF BidAsk
  <2>5. order'[x] = b
    BY <1>1, <2>2, <2>3, EngineConstants, MEP!LimitEnters DEF BidAsk
  <2>6. ASSUME NEW a1, NEW n, quotes' = <<a1>>, quoted' = <<n>>
        PROVE  /\ a1.side = "Ask" /\ a1.type = "Limit" /\ order'[n].price < a1.price
               /\ MEP!BidMakes(n)'
    <3>1. a1 = a /\ n = x
      BY <2>1, <2>6
    <3> QED
      BY <2>2, <2>4, <2>5, <3>1 DEF BidAsk
  <2>7. (\A b1, a1 : quotes' # <<b1, a1>>) /\ quotes' # <<>>
    BY <2>1
  <2> QED
    BY <2>6, <2>7, Zenon DEF MakerInv
<1>4. ASSUME NEW a, NEW n, quotes = <<a>>, quoted = <<n>>
      PROVE  MakerInv'
  <2>1. quotes' = <<>> /\ quoted' = <<n, x>> /\ Head(quotes) = a
    BY <1>2, <1>4, AppendSecond
  <2>2. /\ a.side = "Ask" /\ a.type = "Limit" /\ order[n].price < a.price
        /\ MEP!BidMakes(n)
    BY <1>4, Zenon DEF MakerInv
  <2>3. MEP!BidMakes(n)'
    BY <1>2, <2>1, <2>2, EngineConstants, MEP!AskEnters
  <2>4. \A n1, m1 : quoted' = <<n1, m1>> => n1 = n
    BY <2>1
  <2>5. (\A b1, a1 : quotes' # <<b1, a1>>) /\ (\A a1 : quotes' # <<a1>>)
    BY <2>1
  <2> QED
    BY <2>3, <2>4, <2>5, Zenon DEF MakerInv
<1>5. ASSUME NEW a, quotes = <<a>>, quoted = <<>>
      PROVE  MakerInv'
  <2>1. quotes' = <<>> /\ quoted' = <<x>>
    BY <1>2, <1>5
  <2>2. (\A n, m : quoted' # <<n, m>>) /\ (\A b, a1 : quotes' # <<b, a1>>) /\ (\A a1 : quotes' # <<a1>>)
    BY <2>1
  <2> QED
    BY <2>2, Zenon DEF MakerInv
<1> QED
  BY <1>2, <1>3, <1>4, <1>5, Zenon DEF BaseInv, Shape

LEMMA MakerInit == Init => MakerInv
<1> SUFFICES ASSUME Init PROVE MakerInv
  OBVIOUS
<1>1. quotes = <<>> /\ quoted = <<>>
  BY DEF Init
<1>2. (\A n, m : quoted # <<n, m>>) /\ (\A b, a : quotes # <<b, a>>) /\ (\A a : quotes # <<a>>)
  BY <1>1
<1> QED
  BY <1>2, Zenon DEF MakerInv

LEMMA MakerNext ==
    ASSUME "Iceberg" \notin OrderTypes, Price \subseteq Nat,
           BaseInv, MakerInv, QuotesInPrice, [Next]_vars
    PROVE  MakerInv'
<1>0. EngineInv /\ LoopInv /\ MEP!IInv
  BY DEF BaseInv, EngineInv
<1>1. CASE Seed
  <2>1. quotes' = <<>> /\ phase' = "out"
    BY <1>0, <1>1 DEF Seed, Idle, LoopInv, loop
  <2>2. (\A b, a : quotes' # <<b, a>>) /\ (\A a : quotes' # <<a>>)
    BY <2>1
  <2> QED
    BY <2>1, <2>2, Zenon DEF MakerInv
<1>2. CASE \E ticks \in 1 .. (MaxTicks - tick_) : Run(ticks)
  <2>1. quotes' = <<>> /\ quoted' = <<>>
    BY <1>0, <1>2 DEF Run, Idle, LoopInv
  <2>2. /\ \A b, a : quotes' # <<b, a>>
        /\ \A a : quotes' # <<a>>
        /\ \A n, m : quoted' # <<n, m>>
    BY <2>1
  <2> QED
    BY <2>2, Zenon DEF MakerInv
<1>3. CASE BotDecides
  BY <1>0, <1>3, DecideMaker
<1>4. CASE BotSubmits
  BY <1>4, SubmitMaker
<1>5. CASE EngineRuns
  <2>1. MEP!Engine /\ UNCHANGED loop /\ pc # "idle"
    BY <1>5, SameEngine, EngineAtWork, Zenon DEF EngineRuns
  <2>2. UNCHANGED <<phase, quotes, quoted>>
    BY <2>1 DEF loop
  <2>3. \A b, a : quotes # <<b, a>>
    BY <2>1, Zenon DEF MakerInv
  <2>4. UNCHANGED order
    BY <2>1, MEP!EngineKeepsOrders, EngineConstants
  <2>5. ASSUME NEW n, MEP!BidMakes(n)
        PROVE  MEP!BidMakes(n)'
    BY <1>0, <2>1, <2>5, EngineConstants, MEP!CallKeepsBid
  <2> QED
    BY <2>2, <2>3, <2>4, <2>5, InHandKeeps
<1>6. CASE PerpetualTick \/ FeedOne \/ EndTick \/ UNCHANGED vars
  <2>1. UNCHANGED <<engine, quotes, quoted>>
    BY <1>6 DEF PerpetualTick, FeedOne, EndTick, vars, loop
  <2>2. phase' # "out" => phase # "out"
    BY <1>6 DEF PerpetualTick, BotsDone, Idle, FeedOne, EndTick, vars, loop
  <2>3. UNCHANGED order
    BY <2>1 DEF engine
  <2> QED
    BY <2>1, <2>2, <2>3, SameBookMakes, InHandKeeps
<1>7. CASE FeedingDone
  <2>1. MEP!ClearRecentTrades /\ UNCHANGED <<quotes, quoted>> /\ phase = "feed"
    BY <1>7, SameClearRecentTrades DEF FeedingDone
  <2>2. UNCHANGED order
    BY <2>1 DEF MEP!ClearRecentTrades
  <2>3. ASSUME NEW n, MEP!BidMakes(n)
        PROVE  MEP!BidMakes(n)'
    BY <2>1, <2>3, EngineConstants, MEP!ClearKeepsBid
  <2>4. quotes = <<>>
    BY <1>0, <2>1 DEF LoopInv
  <2>5. \A b, a : quotes # <<b, a>>
    BY <2>4
  <2> QED
    BY <2>1, <2>2, <2>3, <2>5, InHandKeeps
<1> QED
  BY <1>1, <1>2, <1>3, <1>4, <1>5, <1>6, <1>7 DEF Next, Working

(* As long as no maker quotes below zero, the maker's bid makes: when its  *)
(* turn ends all of the bid rests, unfilled, with an ask opposite to it.   *)
(* The guard against inverted quotes is what it takes (simulator.cpp:50),  *)
(* and that nothing else trades between the bid and the ask.               *)
THEOREM MakersKeepTheMarket ==
    ASSUME "Iceberg" \notin OrderTypes, Price \subseteq Nat
    PROVE  Spec /\ []QuotesInPrice => []MakerBidStands
<1>1. BaseInv /\ MakerInv => MakerBidStands
  <2> SUFFICES ASSUME BaseInv, MakerInv, Idle("bots"), MadeQuote
               PROVE  /\ filled[quoted[1]] = 0 /\ ME!Resting(quoted[1])
                      /\ ME!Levels("Ask") # {}
    BY DEF MakerBidStands
  <2>1. Len(quoted) = 2 /\ quotes = <<>> /\ pc = "idle" /\ phase = "bots"
    BY DEF MadeQuote, Idle
  <2>2. PICK n, m : quoted = <<n, m>>
    BY <2>1 DEF BaseInv, Shape
  <2>3. MEP!BidMakes(n)
    BY <2>1, <2>2, Zenon DEF MakerInv
  <2>4. quoted[1] = n
    BY <2>2
  <2>5. filled[n] = 0 /\ MEP!Resting(n) /\ MEP!Levels("Ask") # {}
    BY <2>1, <2>3 DEF MEP!BidMakes
  <2> QED
    BY <2>4, <2>5, SameResting, SameReads
<1>2. BaseInv /\ MakerInv /\ QuotesInPrice /\ [Next]_vars => (BaseInv /\ MakerInv)'
  BY BaseNext, MakerNext
<1> QED
  BY <1>1, <1>2, BaseInit, MakerInit, PTL DEF Spec

-----------------------------------------------------------------------------
(* What VPIN is fed *)

(* The trades made since the last snapshot are the tape's, or as many of   *)
(* them as it holds, until they are fed and the tape is cleared.           *)
SinceSnapshot == ME!MinOf(total_trades_ - snap.total_trades, MaxRecent)

TapeInv ==
    /\ snap.total_trades \in Nat /\ snap.total_trades <= total_trades_
    /\ setup.vpin =>
          /\ phase # "snap" => Len(recent_trades_) = SinceSnapshot
          /\ phase = "feed" => feeding \in 1 .. (Len(recent_trades_) + 1)
          /\ phase = "snap" => Len(recent_trades_) = 0 /\ feeding - 1 = SinceSnapshot

LEMMA TapeTypes ==
    ASSUME BaseInv
    PROVE  total_trades_ \in Nat /\ Len(recent_trades_) \in Nat /\ MaxRecent \in Nat \ {0}
<1>1. total_trades_ \in Nat /\ recent_trades_ \in Seq(MEP!Trade)
  BY DEF BaseInv, EngineInv, MEP!IInv, MEP!TypeOK
<1> QED
  BY <1>1, SimulatorAssumption

LEMMA TapeInit == Init => TapeInv
<1> SUFFICES ASSUME Init PROVE TapeInv
  OBVIOUS
<1>1. /\ phase = "out" /\ snap.total_trades = 0
      /\ total_trades_ = 0 /\ recent_trades_ = <<>> /\ MaxRecent \in Nat \ {0}
  BY SimulatorAssumption DEF Init, ME!Init, NoSnapshot
<1> QED
  BY <1>1 DEF TapeInv, SinceSnapshot, ME!MinOf

(* The engine adds to the tape and to its count alike.                     *)
LEMMA TapeKeeps ==
    ASSUME BaseInv, TapeInv, UNCHANGED <<setup, phase, snap, feeding>>, phase \in {"out", "bots"},
           \/ UNCHANGED <<total_trades_, recent_trades_>>
           \/ \E n \in Nat : /\ total_trades_' = total_trades_ + n
                             /\ Len(recent_trades_') = ME!MinOf(Len(recent_trades_) + n, MaxRecent)
    PROVE  TapeInv'
<1>1. total_trades_ \in Nat /\ Len(recent_trades_) \in Nat /\ MaxRecent \in Nat \ {0}
  BY TapeTypes
<1>2. CASE UNCHANGED <<total_trades_, recent_trades_>>
  BY <1>2 DEF TapeInv, SinceSnapshot
<1>3. ASSUME NEW n \in Nat, total_trades_' = total_trades_ + n,
             Len(recent_trades_') = ME!MinOf(Len(recent_trades_) + n, MaxRecent)
      PROVE  TapeInv'
  <2>1. snap'.total_trades \in Nat /\ snap'.total_trades <= total_trades_'
    BY <1>1, <1>3 DEF TapeInv
  <2>2. ASSUME setup.vpin
        PROVE  Len(recent_trades_') = SinceSnapshot'
    <3>1. Len(recent_trades_) = ME!MinOf(total_trades_ - snap.total_trades, MaxRecent)
      BY <2>2 DEF TapeInv, SinceSnapshot
    <3>2. snap.total_trades \in Nat /\ snap.total_trades <= total_trades_
      BY DEF TapeInv
    <3> QED
      BY <1>1, <1>3, <3>1, <3>2 DEF SinceSnapshot, ME!MinOf
  <2> QED
    BY <2>1, <2>2 DEF TapeInv
<1> QED
  BY <1>2, <1>3

LEMMA TapeNext == BaseInv /\ TapeInv /\ [Next]_vars => TapeInv'
<1> SUFFICES ASSUME BaseInv, TapeInv, [Next]_vars PROVE TapeInv'
  OBVIOUS
<1>0. /\ total_trades_ \in Nat /\ Len(recent_trades_) \in Nat /\ MaxRecent \in Nat \ {0}
      /\ LoopInv /\ MEP!IInv
  BY TapeTypes DEF BaseInv, EngineInv
<1>1. ASSUME NEW r, MEP!SubmitOrder(r)
      PROVE  UNCHANGED <<total_trades_, recent_trades_>>
  BY <1>1, EngineConstants, MEP!SubmitKeepsTape DEF MEP!tape
<1>2. CASE Seed
  <2>1. phase = "out" /\ UNCHANGED <<setup, phase, snap, feeding>>
    BY <1>2 DEF Seed, Idle, loop
  <2>2. UNCHANGED <<total_trades_, recent_trades_>>
    BY <1>1, <1>2, SameSubmit DEF Seed
  <2> QED
    BY <2>1, <2>2, TapeKeeps
<1>3. CASE BotSubmits
  <2>1. phase = "bots" /\ UNCHANGED <<setup, phase, snap, feeding>>
    BY <1>3 DEF BotSubmits, Idle
  <2>2. UNCHANGED <<total_trades_, recent_trades_>>
    BY <1>1, <1>3, SameSubmit DEF BotSubmits
  <2> QED
    BY <2>1, <2>2, TapeKeeps
<1>4. CASE EngineRuns
  <2>1. MEP!Engine /\ UNCHANGED <<setup, phase, snap, feeding>> /\ pc # "idle"
    BY <1>4, SameEngine, EngineAtWork DEF EngineRuns, loop
  <2>2. phase \in {"out", "bots"}
    BY <1>0, <2>1 DEF LoopInv
  <2>3. \A x, y : MEP!MinOf(x, y) = ME!MinOf(x, y)
    BY DEF MEP!MinOf, ME!MinOf
  <2>4. \/ UNCHANGED <<total_trades_, recent_trades_>>
        \/ \E n \in Nat : /\ total_trades_' = total_trades_ + n
                          /\ Len(recent_trades_') = MEP!MinOf(Len(recent_trades_) + n, MaxRecent)
    BY <1>0, <2>1, EngineConstants, MEP!TapeAdds DEF MEP!tape
  <2> QED
    BY <2>1, <2>2, <2>3, <2>4, TapeKeeps
<1>5. CASE (\E ticks \in 1 .. (MaxTicks - tick_) : Run(ticks)) \/ BotDecides \/ PerpetualTick
  <2>1. /\ UNCHANGED <<total_trades_, recent_trades_, setup, snap>>
        /\ phase \in {"out", "bots"}
        /\ phase' # "snap" \/ ~setup.vpin
        /\ phase' = "feed" => feeding' = 1
    BY <1>5 DEF Run, BotDecides, PerpetualTick, BotsDone, Idle, engine
  <2> QED
    BY <1>0, <2>1 DEF TapeInv, SinceSnapshot
<1>6. CASE FeedOne
  <2>1. /\ UNCHANGED <<total_trades_, recent_trades_, setup, snap, phase>> /\ phase = "feed"
        /\ feeding <= Len(recent_trades_) /\ feeding' = feeding + 1
    BY <1>6 DEF FeedOne, engine
  <2> QED
    BY <1>0, <2>1 DEF TapeInv, SinceSnapshot
<1>7. CASE FeedingDone
  <2>1. /\ recent_trades_' = <<>> /\ UNCHANGED <<total_trades_, setup, snap, feeding>>
        /\ phase = "feed" /\ phase' = "snap" /\ feeding > Len(recent_trades_)
    BY <1>7 DEF FeedingDone, ME!ClearRecentTrades
  <2> QED
    BY <1>0, <2>1 DEF TapeInv, SinceSnapshot
<1>8. CASE EndTick
  <2>1. /\ UNCHANGED <<total_trades_, recent_trades_, setup>> /\ phase = "snap"
        /\ phase' \in {"bots", "out"} /\ snap' = Snapshot
    BY <1>8 DEF EndTick, engine
  <2>2. snap'.total_trades = total_trades_
    BY <2>1 DEF Snapshot
  <2>3. SinceSnapshot' = 0
    BY <1>0, <2>1, <2>2 DEF SinceSnapshot, ME!MinOf
  <2> QED
    BY <1>0, <2>1, <2>2, <2>3 DEF TapeInv
<1>9. CASE UNCHANGED vars
  BY <1>9 DEF TapeInv, SinceSnapshot, vars, engine, loop
<1> QED
  BY <1>2, <1>3, <1>4, <1>5, <1>6, <1>7, <1>8, <1>9 DEF Next, Working

(* Feeding the tape and clearing it, tick after tick, gives VPIN every     *)
(* trade once, except those that the tape had already dropped.             *)
THEOREM VpinFedEveryTrade ==
    ASSUME "Iceberg" \notin OrderTypes
    PROVE  Spec /\ []QuotesInPrice => []VpinSeesTape
<1>1. TapeInv => VpinSeesTape
  BY DEF TapeInv, SinceSnapshot, VpinSeesTape
<1>2. BaseInv /\ TapeInv /\ QuotesInPrice /\ [Next]_vars => (BaseInv /\ TapeInv)'
  BY BaseNext, TapeNext
<1> QED
  BY <1>1, <1>2, BaseInit, TapeInit, PTL DEF Spec

-----------------------------------------------------------------------------
(* The perpetual engine and the snapshots *)

(* Once the perpetual engine has ticked, until the snapshot, it agrees     *)
(* with the book.                                                          *)
TickInv ==
    phase \in {"feed", "snap"} =>
        /\ Bid # 0 /\ Ask # 0 => mark_price_ = Perp!Trunc(Bid + Ask, 2)
        /\ Bid = 0 /\ Ask = 0 => funding_rate_ = Ratio0

LEMMA SameTop ==
    ASSUME UNCHANGED queue
    PROVE  Bid' = Bid /\ Ask' = Ask
BY Zenon DEF Bid, Ask, ME!BestPrice, ME!IsBest, ME!Levels

LEMMA SameTotals ==
    ASSUME UNCHANGED <<queue, total_quantity>>
    PROVE  TopOfBook' = TopOfBook
<1>1. \A s : ME!BestPrice(s)' = ME!BestPrice(s)
  BY Zenon DEF ME!BestPrice, ME!IsBest, ME!Levels
<1>2. \A s : ME!TotalQty(s)' = ME!TotalQty(s)
  BY ZenonT(60) DEF ME!TotalQty, ME!Levels, ME!MapThenSumSet, ME!MapThenFoldSet
<1>3. TopOfBook' = [bid |-> ME!BestPrice("Bid")', ask |-> ME!BestPrice("Ask")',
                    bid_qty |-> ME!TotalQty("Bid")', ask_qty |-> ME!TotalQty("Ask")']
  BY DEF TopOfBook
<1> QED
  BY <1>1, <1>2, <1>3 DEF TopOfBook

(* A side without levels shows no price and no quantity.                   *)
LEMMA EmptySide ==
    ASSUME EngineInv, NEW s \in ME!Side, ME!Levels(s) = {}
    PROVE  ME!BestPrice(s) = {} /\ ME!TotalQty(s) = 0
<1>1. MEP!Levels(s) = {} /\ s \in MEP!Side /\ MEP!IInv
  BY SameReads DEF EngineInv, MEP!Side, ME!Side
<1> QED
  BY <1>1, EngineConstants, MEP!TotalQtyIs, SameReads

LEMMA TopShown ==
    ASSUME EngineInv, Price \subseteq Nat \ {0}, NEW s \in ME!Side
    PROVE  /\ Perp!ValueOrZero(ME!BestPrice(s)) \in Nat
           /\ Perp!ValueOrZero(ME!BestPrice(s)) = 0 <=> ME!Levels(s) = {}
<1>1. CASE ME!Levels(s) = {}
  BY <1>1, EmptySide DEF Perp!ValueOrZero
<1>2. CASE ME!Levels(s) # {}
  BY <1>2, OneBest
<1> QED
  BY <1>1, <1>2

LEMMA TickAgrees ==
    ASSUME EngineInv, Price \subseteq Nat \ {0}, PerpetualTick
    PROVE  TickInv'
<1>1. /\ mark_price_' = Perp!Clamped(Perp!Unclamped(Perp!Mid(TopOfBook), mark_price_, 0), 0)
      /\ funding_rate_' = Perp!FundingRate(TopOfBook.bid_qty, TopOfBook.ask_qty)
  BY Zenon DEF PerpetualTick, Perp!Tick
<1>2. Bid' = Bid /\ Ask' = Ask
  BY SameTop DEF PerpetualTick, engine
<1>3. "Bid" \in ME!Side /\ "Ask" \in ME!Side
  BY DEF ME!Side
<1>4. ASSUME Bid # 0, Ask # 0
      PROVE  mark_price_' = Perp!Trunc(Bid + Ask, 2)
  <2>1. ME!Levels("Bid") # {} /\ ME!Levels("Ask") # {}
    BY <1>3, <1>4, TopShown DEF Bid, Ask
  <2>2. ME!BestPrice("Bid") # {} /\ ME!BestPrice("Ask") # {}
    BY <2>1, TwoBest DEF TwoSided
  <2>3. Perp!Mid(TopOfBook) = Perp!Trunc(Bid + Ask, 2)
    <3>1. TopOfBook.bid = ME!BestPrice("Bid") /\ TopOfBook.ask = ME!BestPrice("Ask")
      BY DEF TopOfBook
    <3> QED
      BY <2>2, <3>1, Zenon DEF Perp!Mid, Bid, Ask
  <2>4. Bid \in Nat /\ Ask \in Nat /\ Bid >= 1 /\ Ask >= 1
    BY <1>3, <1>4, TopShown DEF Bid, Ask
  <2>5. Perp!Trunc(Bid + Ask, 2) # 0
    <3>1. \A x, y \in Nat : x >= 1 /\ y >= 1 => Perp!Trunc(x + y, 2) # 0
      BY DEF Perp!Trunc
    <3> QED
      BY <2>4, <3>1
  <2>6. \A m, mark : m # 0 => Perp!Clamped(Perp!Unclamped(m, mark, 0), 0) = m
    BY DEF Perp!Clamped, Perp!Unclamped
  <2> QED
    BY <1>1, <2>3, <2>5, <2>6
<1>5. ASSUME Bid = 0, Ask = 0
      PROVE  funding_rate_' = Ratio0
  <2>1. ME!Levels("Bid") = {} /\ ME!Levels("Ask") = {}
    BY <1>3, <1>5, TopShown DEF Bid, Ask
  <2>2. TopOfBook.bid_qty = 0 /\ TopOfBook.ask_qty = 0
    BY <1>3, <2>1, EmptySide DEF TopOfBook
  <2> QED
    BY <1>1, <2>2 DEF Perp!FundingRate, Ratio0
<1> QED
  BY <1>2, <1>4, <1>5 DEF TickInv

LEMMA TickNext ==
    ASSUME Price \subseteq Nat \ {0}, BaseInv, TickInv, [Next]_vars
    PROVE  TickInv'
<1>0. EngineInv /\ LoopInv
  BY DEF BaseInv
<1>1. CASE PerpetualTick
  BY <1>0, <1>1, TickAgrees
<1>2. CASE FeedOne \/ UNCHANGED vars
  <2>1. UNCHANGED <<queue, phase, mark_price_, funding_rate_>>
    BY <1>2 DEF FeedOne, vars, engine, perpetual, loop
  <2> QED
    BY <2>1, SameTop DEF TickInv
<1>3. CASE FeedingDone
  <2>1. UNCHANGED <<queue, mark_price_, funding_rate_>> /\ phase = "feed"
    BY <1>3 DEF FeedingDone, ME!ClearRecentTrades, ME!book, perpetual
  <2> QED
    BY <2>1, SameTop DEF TickInv
<1>4. CASE Seed \/ (\E ticks \in 1 .. (MaxTicks - tick_) : Run(ticks)) \/ BotDecides \/ BotSubmits \/ EndTick
  <2>1. phase' \in {"out", "bots"}
    BY <1>4 DEF Seed, Run, BotDecides, BotSubmits, EndTick, Idle, loop
  <2> QED
    BY <2>1 DEF TickInv
<1>5. CASE EngineRuns
  <2>1. ME!Engine /\ UNCHANGED phase
    BY <1>5 DEF EngineRuns, loop
  <2>2. phase' \notin {"feed", "snap"}
    BY <1>0, <2>1, EngineAtWork DEF LoopInv
  <2> QED
    BY <2>2 DEF TickInv
<1> QED
  BY <1>1, <1>2, <1>3, <1>4, <1>5 DEF Next, Working

LEMMA SnapshotNext ==
    ASSUME Price \subseteq Nat \ {0}, BaseInv, TickInv, SnapshotCoherent, [Next]_vars
    PROVE  SnapshotCoherent'
<1>1. CASE UNCHANGED snap
  BY <1>1 DEF SnapshotCoherent
<1>2. CASE EndTick
  <2>1. snap' = Snapshot /\ phase = "snap"
    BY <1>2 DEF EndTick
  <2>2. /\ snap'.best_bid = Bid /\ snap'.best_ask = Ask
        /\ snap'.mark_price = mark_price_ /\ snap'.funding_rate = funding_rate_
    BY <2>1 DEF Snapshot
  <2>3. ASSUME Bid # 0, Ask # 0
        PROVE  Bid < Ask
    <3>1. ME!Levels("Bid") # {} /\ ME!Levels("Ask") # {}
      BY <2>3, TopShown DEF Bid, Ask, ME!Side, BaseInv
    <3> QED
      BY <3>1, TwoBest DEF TwoSided, BaseInv
  <2> QED
    BY <2>1, <2>2, <2>3 DEF TickInv, SnapshotCoherent
<1> QED
  BY <1>1, <1>2 DEF Next, Working, Seed, Run, BotDecides, BotSubmits, EngineRuns, PerpetualTick,
     FeedOne, FeedingDone, vars, loop

(* With positive prices, every snapshot is of one moment: the mark price   *)
(* is the mid price of the quotes beside it, and an empty book has no      *)
(* funding rate left over from orders that are gone.                       *)
THEOREM SnapshotsAreCoherent ==
    ASSUME "Iceberg" \notin OrderTypes, Price \subseteq Nat \ {0}
    PROVE  Spec /\ []QuotesInPrice => []SnapshotCoherent
<1>1. Init => TickInv /\ SnapshotCoherent
  BY DEF Init, TickInv, SnapshotCoherent, NoSnapshot
<1>2. /\ BaseInv /\ TickInv /\ SnapshotCoherent /\ QuotesInPrice /\ [Next]_vars
      => (BaseInv /\ TickInv /\ SnapshotCoherent)'
  BY BaseNext, TickNext, SnapshotNext
<1> QED
  BY <1>1, <1>2, BaseInit, PTL DEF Spec

LEMMA TopInBook == EngineInv => TopOfBook \in Perp!Book
<1> SUFFICES ASSUME EngineInv PROVE TopOfBook \in Perp!Book
  OBVIOUS
<1>1. ASSUME NEW s \in ME!Side
      PROVE  /\ ME!BestPrice(s) \in Perp!Optional(Price)
             /\ ME!TotalQty(s) \in 0 .. (QMod - 1)
             /\ ME!BestPrice(s) = {} => ME!TotalQty(s) = 0
  <2>1. ME!TotalQty(s) \in 0 .. (QMod - 1)
    <3>1. s \in MEP!Side /\ MEP!IInv
      BY DEF EngineInv, MEP!Side, ME!Side
    <3> QED
      BY <3>1, EngineConstants, MEP!TotalQtyIs, SameReads
  <2>2. CASE ME!Levels(s) = {}
    BY <2>1, <2>2, EmptySide DEF Perp!Optional
  <2>3. CASE ME!Levels(s) # {}
    <3>1. \E p \in Price : ME!BestPrice(s) = {p}
      BY <2>3, OneBest
    <3> QED
      BY <2>1, <3>1 DEF Perp!Optional
  <2> QED
    BY <2>2, <2>3
<1>2. "Bid" \in ME!Side /\ "Ask" \in ME!Side
  BY DEF ME!Side
<1> QED
  BY <1>1, <1>2 DEF TopOfBook, Perp!Book

(* The simulator drives its perpetual engine as Perpetual says: the book   *)
(* moves between ticks, a tick reads it whole.  So no mark price is lost   *)
(* and no funding rate exceeds its bound in any simulation.                *)
THEOREM PerpetualIsDriven ==
    ASSUME "Iceberg" \notin OrderTypes
    PROVE  Spec /\ []QuotesInPrice => DrivesPerpetual
<1>1. Init => Perp!PerpInit
  <2> SUFFICES ASSUME Init PROVE Perp!PerpInit
    OBVIOUS
  <2>1. TopOfBook \in Perp!Book
    BY EngineInit, TopInBook
  <2> QED
    BY <2>1 DEF Perp!PerpInit, Init, Ratio0
<1>2. (EngineInv => TopOfBook \in Perp!Book)'
  BY TopInBook, PTL
<1>3. BaseInv /\ BaseInv' /\ [Next]_vars => [Perp!PerpNext]_(Perp!perpVars)
  <2> SUFFICES ASSUME BaseInv, BaseInv', [Next]_vars PROVE [Perp!PerpNext]_(Perp!perpVars)
    OBVIOUS
  <2>1. CASE PerpetualTick
    <3>1. Perp!Tick
      BY <2>1 DEF PerpetualTick
    <3>2. TopOfBook' = TopOfBook
      BY <2>1, SameTotals DEF PerpetualTick, engine
    <3> QED
      BY <3>1, <3>2, Zenon DEF Perp!PerpNext
  <2>2. CASE UNCHANGED perpetual
    <3>1. TopOfBook' \in Perp!Book
      BY <1>2 DEF BaseInv
    <3>2. UNCHANGED Perp!perp
      BY <2>2 DEF perpetual, Perp!perp
    <3> QED
      BY <3>1, <3>2, Zenon DEF Perp!PerpNext, Perp!BookMoves
  <2> QED
    BY <2>1, <2>2 DEF Next, Working, Seed, Run, BotDecides, BotSubmits, EngineRuns,
       FeedOne, FeedingDone, EndTick, vars
<1>4. BaseInv /\ QuotesInPrice /\ [Next]_vars => BaseInv'
  BY BaseNext
<1> QED
  BY <1>1, <1>3, <1>4, BaseInit, PTL DEF Spec, DrivesPerpetual, Perp!PerpSpec

(* Where every integer is a price no quote is out of bounds: with Price =  *)
(* Int, []QuotesInPrice in the theorems above restricts no behavior.       *)
THEOREM AnyQuoteAllowed ==
    ASSUME "Iceberg" \notin OrderTypes, Price = Int
    PROVE  Spec => []QuotesInPrice
<1>1. BaseInv => QuotesInPrice
  <2> SUFFICES ASSUME BaseInv, NEW k \in DOMAIN quotes PROVE quotes[k].price \in Price
    BY DEF QuotesInPrice
  <2>1. PICK s \in ME!Side, p \in Int, q \in Qty : quotes[k] = Limit(s, p, q)
    BY DEF BaseInv, QuotesTyped
  <2> QED
    BY <2>1 DEF Limit
<1>2. BaseInv /\ [Next]_vars => BaseInv'
  BY <1>1, BaseNext
<1> QED
  BY <1>1, <1>2, BaseInit, PTL DEF Spec
=============================================================================
