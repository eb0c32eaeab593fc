-------------------------- MODULE MarketDataProofs --------------------------
(***************************************************************************)
(* Market data, for any orders, prices and quantities: under both of the   *)
(* broadcasting threads the engine runs as MatchingEngine says, and the    *)
(* snapshots that the property is about show the book at one moment.       *)
(*                                                                         *)
(* What is proved of the engine is cited as MEP!...; MarketData itself     *)
(* calls the engine ME, and the first section shows that the two names     *)
(* mean the same.                                                          *)
(***************************************************************************)
EXTENDS MarketData, TLAPS

MEP == INSTANCE MatchingEngineProofs

LEMMA EngineConstants == MEP!ConstantsAssumption
BY MarketDataAssumption DEF MEP!ConstantsAssumption, MEP!OrderType, ME!OrderType

LEMMA SameInit ==
    ME!Init <=> MEP!Init
BY Zenon DEF ME!Init, MEP!Init, ME!Id, MEP!Id, ME!NoOrder, MEP!NoOrder,
    ME!Side, MEP!Side, ME!NoLoc, MEP!NoLoc, ME!NoResult, MEP!NoResult

LEMMA SameRequest ==
    ME!Request = MEP!Request
BY Zenon DEF ME!Request, MEP!Request, ME!Side, MEP!Side,
    ME!MarketPrice, MEP!MarketPrice

LEMMA SamePostOnly ==
    \A r : ME!SubmitPostOnly(r) <=> MEP!SubmitPostOnly(r)
BY Zenon DEF ME!SubmitPostOnly, MEP!SubmitPostOnly,
    ME!NewOrder, MEP!NewOrder, ME!Id, MEP!Id, ME!WouldMatch, MEP!WouldMatch,
    ME!Levels, MEP!Levels, ME!Opposite, MEP!Opposite,
    ME!PriceCrosses, MEP!PriceCrosses, ME!ReturnAtOnce, MEP!ReturnAtOnce,
    ME!bergs, MEP!bergs, ME!call, MEP!call, ME!tape, MEP!tape,
    ME!hist, MEP!hist, ME!book, MEP!book, ME!AddToLevel, MEP!AddToLevel

LEMMA SameFOK ==
    \A r : ME!SubmitFOK(r) <=> MEP!SubmitFOK(r)
BY Zenon DEF ME!SubmitFOK, MEP!SubmitFOK, ME!NewOrder, MEP!NewOrder,
    ME!Id, MEP!Id, ME!AvailableQty, MEP!AvailableQty,
    ME!Opposite, MEP!Opposite, ME!Levels, MEP!Levels,
    ME!PriceCrosses, MEP!PriceCrosses, ME!ReturnAtOnce, MEP!ReturnAtOnce,
    ME!bergs, MEP!bergs, ME!call, MEP!call, ME!tape, MEP!tape,
    ME!hist, MEP!hist, ME!book, MEP!book,
    ME!BeginMatching, MEP!BeginMatching, ME!NoResult, MEP!NoResult,
    ME!MapThenSumSet, MEP!MapThenSumSet,
    ME!MapThenFoldSet, MEP!MapThenFoldSet

LEMMA SameStandard ==
    \A r : ME!SubmitStandard(r) <=> MEP!SubmitStandard(r)
BY Zenon DEF ME!SubmitStandard, MEP!SubmitStandard,
    ME!NewOrder, MEP!NewOrder, ME!Id, MEP!Id,
    ME!BeginMatching, MEP!BeginMatching, ME!NoResult, MEP!NoResult,
    ME!book, MEP!book, ME!tape, MEP!tape, ME!hist, MEP!hist,
    ME!bergs, MEP!bergs

LEMMA SameIceberg ==
    \A r : ME!SubmitIceberg(r) <=> MEP!SubmitIceberg(r)
BY Zenon DEF ME!SubmitIceberg, MEP!SubmitIceberg, ME!NewOrder, MEP!NewOrder,
    ME!Id, MEP!Id, ME!bergs, MEP!bergs, ME!DisplayQty, MEP!DisplayQty,
    ME!MinOf, MEP!MinOf, ME!BeginMatching, MEP!BeginMatching,
    ME!NoResult, MEP!NoResult, ME!book, MEP!book, ME!tape, MEP!tape,
    ME!hist, MEP!hist

LEMMA SameSubmit ==
    \A r : ME!SubmitOrder(r) <=> MEP!SubmitOrder(r)
BY SamePostOnly, SameFOK, SameStandard, SameIceberg, Zenon DEF ME!SubmitOrder, MEP!SubmitOrder

LEMMA SameMatchStep ==
    ME!MatchStep <=> MEP!MatchStep
BY Zenon DEF ME!MatchStep, MEP!MatchStep, ME!Reach, MEP!Reach,
    ME!Levels, MEP!Levels, ME!Opposite, MEP!Opposite,
    ME!PriceCrosses, MEP!PriceCrosses, ME!IsBest, MEP!IsBest,
    ME!Better, MEP!Better, ME!FillFront, MEP!FillFront, ME!MinOf, MEP!MinOf,
    ME!IsIceberg, MEP!IsIceberg, ME!bergs, MEP!bergs, ME!tape, MEP!tape

LEMMA SameEndMatch ==
    ME!EndMatch <=> MEP!EndMatch
BY Zenon DEF ME!EndMatch, MEP!EndMatch, ME!Reach, MEP!Reach,
    ME!Levels, MEP!Levels, ME!Opposite, MEP!Opposite,
    ME!PriceCrosses, MEP!PriceCrosses, ME!AddToLevel, MEP!AddToLevel,
    ME!DisplayQty, MEP!DisplayQty, ME!MinOf, MEP!MinOf, ME!book, MEP!book,
    ME!bergs, MEP!bergs, ME!call, MEP!call, ME!tape, MEP!tape

LEMMA SameRefreshExhausted ==
    ME!RefreshExhausted <=> MEP!RefreshExhausted
BY Zenon DEF ME!RefreshExhausted, MEP!RefreshExhausted, ME!NoLoc, MEP!NoLoc,
    ME!tape, MEP!tape, ME!hist, MEP!hist

LEMMA SameRefreshSlice ==
    ME!RefreshSlice <=> MEP!RefreshSlice
BY Zenon DEF ME!RefreshSlice, MEP!RefreshSlice, ME!MinOf, MEP!MinOf,
    ME!AddToLevel, MEP!AddToLevel, ME!tape, MEP!tape, ME!hist, MEP!hist

LEMMA SameReturnStandard ==
    ME!ReturnStandard <=> MEP!ReturnStandard
BY Zenon DEF ME!ReturnStandard, MEP!ReturnStandard,
    ME!Returning, MEP!Returning, ME!Return, MEP!Return,
    ME!RecordTrades, MEP!RecordTrades, ME!LastN, MEP!LastN,
    ME!hist, MEP!hist, ME!book, MEP!book, ME!bergs, MEP!bergs

LEMMA SameReturnFOK ==
    ME!ReturnFOK <=> MEP!ReturnFOK
BY Zenon DEF ME!ReturnFOK, MEP!ReturnFOK, ME!Returning, MEP!Returning,
    ME!Return, MEP!Return, ME!RecordTrades, MEP!RecordTrades,
    ME!LastN, MEP!LastN, ME!hist, MEP!hist, ME!book, MEP!book,
    ME!bergs, MEP!bergs

LEMMA SameReturnIOC ==
    ME!ReturnIOC <=> MEP!ReturnIOC
BY Zenon DEF ME!ReturnIOC, MEP!ReturnIOC, ME!Returning, MEP!Returning,
    ME!Return, MEP!Return, ME!RecordTrades, MEP!RecordTrades,
    ME!LastN, MEP!LastN, ME!hist, MEP!hist,
    ME!RemoveFromBook, MEP!RemoveFromBook, ME!Without, MEP!Without,
    ME!NoLoc, MEP!NoLoc, ME!book, MEP!book, ME!bergs, MEP!bergs,
    ME!Contains, MEP!Contains, ME!RemoveAt, MEP!RemoveAt

LEMMA SameReturnIceberg ==
    ME!ReturnIceberg <=> MEP!ReturnIceberg
BY Zenon DEF ME!ReturnIceberg, MEP!ReturnIceberg,
    ME!Returning, MEP!Returning, ME!Return, MEP!Return,
    ME!RecordTrades, MEP!RecordTrades, ME!LastN, MEP!LastN,
    ME!hist, MEP!hist, ME!bergs, MEP!bergs, ME!book, MEP!book

LEMMA SameEngine ==
    ME!Engine <=> MEP!Engine
BY SameMatchStep, SameEndMatch, SameRefreshExhausted, SameRefreshSlice, SameReturnStandard,
   SameReturnFOK, SameReturnIOC, SameReturnIceberg, Zenon DEF ME!Engine, MEP!Engine

LEMMA SameReads ==
    \A s : /\ ME!Levels(s) = MEP!Levels(s)
           /\ ME!BestPrice(s) = MEP!BestPrice(s)
           /\ ME!TotalQty(s) = MEP!TotalQty(s)
BY Zenon DEF ME!Levels, MEP!Levels, ME!BestPrice, MEP!BestPrice,
    ME!IsBest, MEP!IsBest, ME!Better, MEP!Better, ME!TotalQty, MEP!TotalQty,
    ME!MapThenSumSet, MEP!MapThenSumSet,
    ME!MapThenFoldSet, MEP!MapThenFoldSet

LEMMA SameReadsNext ==
    \A s : /\ ME!Levels(s)' = MEP!Levels(s)'
           /\ ME!BestPrice(s)' = MEP!BestPrice(s)'
           /\ ME!TotalQty(s)' = MEP!TotalQty(s)'
BY Zenon DEF ME!Levels, MEP!Levels, ME!BestPrice, MEP!BestPrice,
    ME!IsBest, MEP!IsBest, ME!Better, MEP!Better, ME!TotalQty, MEP!TotalQty,
    ME!MapThenSumSet, MEP!MapThenSumSet,
    ME!MapThenFoldSet, MEP!MapThenFoldSet

LEMMA SameCancel ==
    \A i : ME!CancelOrder(i) <=> MEP!CancelOrder(i)
BY Zenon DEF ME!CancelOrder, MEP!CancelOrder,
    ME!CancelFound, MEP!CancelFound, ME!NoLoc, MEP!NoLoc,
    ME!RemoveFromBook, MEP!RemoveFromBook, ME!Without, MEP!Without,
    ME!NoResult, MEP!NoResult, ME!call, MEP!call, ME!tape, MEP!tape,
    ME!hist, MEP!hist, ME!CancelUnknown, MEP!CancelUnknown,
    ME!book, MEP!book, ME!bergs, MEP!bergs, ME!Contains, MEP!Contains,
    ME!RemoveAt, MEP!RemoveAt

LEMMA CancelFoundCancels ==
    \A i : ME!CancelFound(i) => MEP!CancelOrder(i)
BY SameCancel, Zenon DEF ME!CancelOrder

-----------------------------------------------------------------------------
(* The engine under the two threads *)

LEMMA CallMoves ==
    ASSUME Call
    PROVE  ME!Next /\ MEP!Next
<1>1. CASE \E r \in Orders : ME!SubmitOrder(r)
  <2>1. PICK r \in Orders : ME!SubmitOrder(r)
    BY <1>1
  <2>2. r \in ME!Request
    BY MarketDataAssumption
  <2>3. r \in MEP!Request /\ MEP!SubmitOrder(r)
    BY <2>1, <2>2, SameRequest, SameSubmit, Zenon
  <2> QED
    BY <2>1, <2>2, <2>3, Zenon DEF ME!Next, ME!Submit, MEP!Next, MEP!Submit
<1>2. CASE ME!Engine
  BY <1>2, SameEngine, Zenon DEF ME!Next, MEP!Next
<1>3. CASE \E id \in ME!Id : ME!CancelFound(id)
  <2>1. PICK id \in ME!Id : ME!CancelFound(id)
    BY <1>3
  <2>2. id \in MEP!Id /\ MEP!CancelOrder(id) /\ ME!CancelOrder(id)
    BY <2>1, CancelFoundCancels, Zenon DEF ME!Id, MEP!Id, ME!CancelOrder
  <2> QED
    BY <2>1, <2>2, Zenon DEF ME!Next, MEP!Next
<1> QED
  BY <1>1, <1>2, <1>3, Zenon DEF Call

LEMMA ReadersLeaveEngine ==
    ASSUME UdpThread \/ Broadcast("tcp") \/ UNCHANGED vars
    PROVE  UNCHANGED engine
BY DEF UdpThread, Broadcast, TickBid, TickAsk, TickQty, Get, Send, vars

LEMMA UnmovedVars ==
    ASSUME UNCHANGED engine
    PROVE  UNCHANGED MEP!vars /\ UNCHANGED ME!vars
BY DEF engine, MEP!vars, MEP!book, MEP!bergs, MEP!call, MEP!tape, MEP!hist,
       ME!vars, ME!book, ME!bergs, ME!call, ME!tape, ME!hist

LEMMA EngineMoves ==
    ASSUME [Next]_vars
    PROVE  [ME!Next]_(ME!vars) /\ [MEP!Next]_(MEP!vars)
BY CallMoves, ReadersLeaveEngine, UnmovedVars, Zenon DEF Next

LEMMA EngineInit == Init => MEP!IInv
<1> SUFFICES ASSUME Init PROVE MEP!IInv
  OBVIOUS
<1>1. MEP!Init
  BY SameInit, Zenon DEF Init
<1> QED
  BY <1>1, EngineConstants, MEP!InitInv

LEMMA EngineNext == MEP!IInv /\ [Next]_vars => MEP!IInv'
<1> SUFFICES ASSUME MEP!IInv, [Next]_vars PROVE MEP!IInv'
  OBVIOUS
<1>1. [MEP!Next]_(MEP!vars)
  BY EngineMoves
<1>2. MEP!IInv /\ [MEP!Next]_(MEP!vars) => MEP!IInv'
  BY EngineConstants, MEP!NextInv
<1> QED
  BY <1>1, <1>2

(* The threads that tick and broadcast leave the engine to the TCP thread's *)
(* calls: what is proved of MatchingEngine holds under them.               *)
THEOREM MarketDataDrivesEngine == Spec => ME!Spec
<1>1. Init => ME!Init
  BY DEF Init
<1>2. [Next]_vars => [ME!Next]_(ME!vars)
  BY EngineMoves
<1> QED
  BY <1>1, <1>2, PTL DEF Spec, ME!Spec

-----------------------------------------------------------------------------
(* What the snapshots show *)

Place == {"tick bid", "tick ask", "tick qty", "bid", "ask", "send", "none"}
Quotes == [bid : SUBSET Price, ask : SUBSET Price]

(* A broadcast whose quotes are promised to be of one moment has read      *)
(* nothing that has changed since.                                         *)
UpToDate(t) ==
    (t = "udp" => ~disturbed) =>
        /\ at[t] = "ask" => local[t].bid = Now.bid
        /\ at[t] = "send" => local[t] = Now

FeedInv ==
    /\ at \in [Thread -> Place]
    /\ local \in [Thread -> Quotes]
    /\ at["tcp"] # "none" => pc = "idle"
    /\ Broadcasting("udp") /\ ~disturbed => pc = "idle"
    /\ \A t \in Thread : UpToDate(t)

LEMMA NowTyped ==
    /\ Now \in Quotes
    /\ \A f \in {"bid", "ask"} : Sees(f) \subseteq SUBSET Price
    /\ \A f \in {"bid", "ask"} : Now[f] \in Sees(f) /\ (pc = "idle" => Sees(f) = {Now[f]})
<1>1. \A s : ME!BestPrice(s) \subseteq Price
  BY DEF ME!BestPrice, ME!Levels
<1>2. Now \in Quotes
  BY <1>1 DEF Now, Quotes
<1>3. \A f \in {"bid", "ask"} : Now[f] \subseteq Price
  BY <1>2 DEF Quotes
<1>4. Perp!Optional(Price) \subseteq SUBSET Price
  BY DEF Perp!Optional
<1> QED
  BY <1>2, <1>3, <1>4 DEF Sees, Torn

LEMMA NowStays ==
    ASSUME UNCHANGED engine
    PROVE  Now' = Now
BY Zenon DEF engine, Now, ME!BestPrice, ME!IsBest, ME!Levels, ME!Better

LEMMA FeedInit == Init => FeedInv
<1> SUFFICES ASSUME Init PROVE FeedInv
  OBVIOUS
<1>1. at = [udp |-> "tick bid", tcp |-> "none"] /\ local = [t \in Thread |-> NothingRead]
  BY DEF Init
<1>2. at["udp"] = "tick bid" /\ at["tcp"] = "none" /\ at \in [Thread -> Place]
  <2>1. at.udp = "tick bid" /\ at.tcp = "none"
    BY <1>1
  <2>2. at = [t \in Thread |-> at[t]]
    BY <1>1, Zenon DEF Thread
  <2>3. \A t \in Thread : at[t] \in Place
    BY <2>1 DEF Thread, Place
  <2> HIDE DEF Place
  <2> QED
    BY <2>1, <2>2, <2>3
<1>3. local \in [Thread -> Quotes]
  BY <1>1 DEF NothingRead, Quotes
<1> QED
  BY <1>2, <1>3 DEF FeedInv, UpToDate, Broadcasting, Thread

(* One getter of a broadcast                                               *)
LEMMA GetKeeps ==
    ASSUME FeedInv, NEW t \in Thread, NEW f \in {"bid", "ask"}, Get(t, f)
    PROVE  FeedInv'
<1>0. at \in [Thread -> Place] /\ local \in [Thread -> Quotes] /\ UNCHANGED engine
  BY DEF FeedInv, Get
<1>1. PICK v \in IF t = "udp" THEN Sees(f) ELSE {Now[f]} : local' = [local EXCEPT ![t][f] = v]
  BY DEF Get
<1>2. /\ at[t] = f /\ at' = [at EXCEPT ![t] = IF f = "bid" THEN "ask" ELSE "send"]
      /\ disturbed' = IF t = "udp" THEN (f # "bid" /\ disturbed) \/ pc # "idle" ELSE disturbed
      /\ pc' = pc
  BY <1>0 DEF Get, engine
<1>3. Now' = Now
  BY <1>0, NowStays
<1>4. v \in SUBSET Price
  BY <1>1, NowTyped DEF Quotes
<1>5. at' \in [Thread -> Place]
  BY <1>0, <1>2 DEF Place
<1>6. /\ local'[t] = [local[t] EXCEPT ![f] = v]
      /\ \A s \in Thread : s # t => local'[s] = local[s] /\ at'[s] = at[s]
      /\ at'[t] = IF f = "bid" THEN "ask" ELSE "send"
  BY <1>0, <1>1, <1>2
<1>7. local' \in [Thread -> Quotes]
  <2>1. [local[t] EXCEPT ![f] = v] \in Quotes
    BY <1>0, <1>4 DEF Quotes
  <2> QED
    BY <1>0, <1>1, <2>1
<1>8. (t = "udp" => ~disturbed') => v = Now[f] /\ pc = "idle"
  <2> SUFFICES ASSUME t = "udp" => ~disturbed' PROVE v = Now[f] /\ pc = "idle"
    OBVIOUS
  <2>1. CASE t = "udp"
    BY <1>1, <1>2, <2>1, NowTyped
  <2>2. CASE t # "udp"
    BY <1>1, <1>2, <2>2 DEF FeedInv, Thread
  <2> QED
    BY <2>1, <2>2
<1>9. UpToDate(t)'
  <2> SUFFICES ASSUME t = "udp" => ~disturbed'
               PROVE  /\ at'[t] = "ask" => local'[t].bid = Now.bid
                      /\ at'[t] = "send" => local'[t] = Now
    BY <1>3 DEF UpToDate
  <2>1. v = Now[f]
    BY <1>8
  <2>2. CASE f = "bid"
    <3>1. at'[t] = "ask" /\ local'[t].bid = v
      BY <1>0, <1>6, <2>2 DEF Quotes
    <3> QED
      BY <2>1, <2>2, <3>1
  <2>3. CASE f = "ask"
    <3>1. at'[t] = "send" /\ at[t] = "ask"
      BY <1>2, <1>6, <2>3
    <3>2. local[t].bid = Now.bid
      <4>1. t = "udp" => ~disturbed
        BY <1>2, <2>3
      <4> QED
        BY <3>1, <4>1 DEF FeedInv, UpToDate
    <3>3. local'[t] = [bid |-> Now.bid, ask |-> Now.ask]
      BY <1>0, <1>6, <2>1, <2>3, <3>2 DEF Quotes
    <3>4. Now = [bid |-> Now.bid, ask |-> Now.ask]
      BY DEF Now
    <3> QED
      BY <3>1, <3>3, <3>4
  <2> QED
    BY <2>2, <2>3
<1>10. \A s \in Thread : s # t => UpToDate(s)'
  <2> SUFFICES ASSUME NEW s \in Thread, s # t PROVE UpToDate(s)'
    OBVIOUS
  <2>1. s = "udp" => disturbed' = disturbed
    BY <1>2 DEF Thread
  <2>2. UpToDate(s)
    BY DEF FeedInv
  <2> QED
    BY <1>3, <1>6, <2>1, <2>2 DEF UpToDate
<1>11. at'["tcp"] # "none" => pc' = "idle"
  <2>1. CASE t = "tcp"
    BY <1>2, <2>1 DEF FeedInv, Thread
  <2>2. CASE t # "tcp"
    BY <1>2, <1>6, <2>2 DEF FeedInv, Thread
  <2> QED
    BY <2>1, <2>2
<1>12. at'["udp"] \in {"ask", "send"} /\ ~disturbed' => pc' = "idle"
  <2>1. CASE t = "udp"
    BY <1>2, <1>8, <2>1
  <2>2. CASE t # "udp"
    BY <1>2, <1>6, <2>2 DEF FeedInv, Broadcasting, Thread
  <2> QED
    BY <2>1, <2>2
<1> QED
  BY <1>5, <1>7, <1>9, <1>10, <1>11, <1>12 DEF FeedInv, Broadcasting

(* A step of thread t that does not leave it in the middle of a broadcast  *)
LEMMA OtherKeeps ==
    ASSUME FeedInv, NEW t \in Thread, UNCHANGED engine, disturbed' = disturbed,
           at[t] # "none",
           NEW p \in Place \ {"ask", "send"}, at' = [at EXCEPT ![t] = p],
           NEW v \in Quotes, local' = [local EXCEPT ![t] = v] \/ local' = local
    PROVE  FeedInv'
<1>0. at \in [Thread -> Place] /\ local \in [Thread -> Quotes] /\ Now' = Now /\ pc' = pc
  BY NowStays DEF FeedInv, engine
<1>1. /\ at'[t] = p
      /\ \A s \in Thread : s # t => local'[s] = local[s] /\ at'[s] = at[s]
  BY <1>0
<1>2. at' \in [Thread -> Place] /\ local' \in [Thread -> Quotes]
  BY <1>0
<1>3. \A s \in Thread : UpToDate(s)'
  <2> SUFFICES ASSUME NEW s \in Thread PROVE UpToDate(s)'
    OBVIOUS
  <2>1. UpToDate(s)
    BY DEF FeedInv
  <2> QED
    BY <1>0, <1>1, <2>1 DEF UpToDate
<1>4. at'["tcp"] # "none" => pc' = "idle"
  BY <1>0, <1>1 DEF FeedInv, Thread
<1>5. at'["udp"] \in {"ask", "send"} /\ ~disturbed' => pc' = "idle"
  BY <1>0, <1>1 DEF FeedInv, Broadcasting, Thread
<1> QED
  BY <1>2, <1>3, <1>4, <1>5 DEF FeedInv, Broadcasting

LEMMA CallKeeps ==
    ASSUME FeedInv, Call
    PROVE  FeedInv'
<1>1. /\ at["tcp"] = "none" /\ local' = local
      /\ at \in [Thread -> Place] /\ local \in [Thread -> Quotes]
      /\ at' = [at EXCEPT !.tcp = IF pc # "idle" /\ pc' = "idle" /\ result'.trades # <<>>
                                     THEN "bid" ELSE "none"]
      /\ disturbed' = (disturbed \/ Broadcasting("udp"))
  BY DEF FeedInv, Call
<1>2. /\ at'["udp"] = at["udp"] /\ at' \in [Thread -> Place]
      /\ at'["tcp"] \in {"bid", "none"}
      /\ at'["tcp"] = "bid" => pc' = "idle"
  BY <1>1 DEF Thread, Place
<1>3. ~disturbed' => at'["udp"] \notin {"ask", "send"}
  BY <1>1, <1>2 DEF Broadcasting
<1>4. \A t \in Thread : UpToDate(t)'
  BY <1>2, <1>3 DEF UpToDate, Thread
<1> QED
  BY <1>1, <1>2, <1>3, <1>4 DEF FeedInv, Broadcasting

LEMMA FeedNext == FeedInv /\ [Next]_vars => FeedInv'
<1> SUFFICES ASSUME FeedInv, [Next]_vars PROVE FeedInv'
  OBVIOUS
<1>0. at \in [Thread -> Place] /\ local \in [Thread -> Quotes] /\ NothingRead \in Quotes
  BY DEF FeedInv, NothingRead, Quotes
<1>1. CASE TickBid
  <2>1. PICK v \in Sees("bid") : local' = [local EXCEPT !["udp"].bid = v]
    BY <1>1 DEF TickBid
  <2>2. v \in SUBSET Price
    BY <2>1, NowTyped
  <2>3. [local["udp"] EXCEPT !.bid = v] \in Quotes
    BY <1>0, <2>2 DEF Quotes, Thread
  <2>4. local' = [local EXCEPT !["udp"] = [local["udp"] EXCEPT !.bid = v]]
    BY <2>1
  <2>5. /\ UNCHANGED engine /\ disturbed' = disturbed /\ at["udp"] # "none"
        /\ at' = [at EXCEPT !["udp"] = "tick ask"]
    BY <1>1 DEF TickBid
  <2>6. "tick ask" \in Place \ {"ask", "send"} /\ "udp" \in Thread
    BY DEF Place, Thread
  <2> QED
    BY <2>3, <2>4, <2>5, <2>6, OtherKeeps
<1>2. CASE TickAsk
  <2>1. /\ UNCHANGED engine /\ disturbed' = disturbed /\ at["udp"] # "none"
        /\ at' = [at EXCEPT !["udp"] = "tick qty"] /\ local' = [local EXCEPT !["udp"] = NothingRead]
    BY <1>2 DEF TickAsk
  <2>2. "tick qty" \in Place \ {"ask", "send"} /\ "udp" \in Thread
    BY DEF Place, Thread
  <2> QED
    BY <1>0, <2>1, <2>2, OtherKeeps
<1>3. CASE TickQty
  <2>1. /\ UNCHANGED engine /\ disturbed' = disturbed /\ at["udp"] # "none"
        /\ at' = [at EXCEPT !["udp"] = "bid"] /\ local' = local
    BY <1>3 DEF TickQty
  <2>2. "bid" \in Place \ {"ask", "send"} /\ "udp" \in Thread
    BY DEF Place, Thread
  <2> QED
    BY <1>0, <2>1, <2>2, OtherKeeps
<1>4. ASSUME NEW t \in Thread, Send(t)
      PROVE  FeedInv'
  <2> DEFINE p == IF t = "udp" THEN "tick bid" ELSE "none"
  <2>1. /\ UNCHANGED engine /\ disturbed' = disturbed /\ at[t] # "none"
        /\ at' = [at EXCEPT ![t] = p] /\ local' = [local EXCEPT ![t] = NothingRead]
    BY <1>4 DEF Send
  <2>2. p \in Place \ {"ask", "send"}
    BY DEF Place
  <2> HIDE DEF p
  <2> QED
    BY <1>0, <2>1, <2>2, OtherKeeps
<1>5. CASE UNCHANGED vars
  <2>1. UNCHANGED <<engine, at, local, disturbed>>
    BY <1>5 DEF vars
  <2>2. Now' = Now /\ pc' = pc
    BY <2>1, NowStays DEF engine
  <2>3. \A t \in Thread : UpToDate(t) => UpToDate(t)'
    BY <2>1, <2>2 DEF UpToDate
  <2> QED
    BY <2>1, <2>2, <2>3 DEF FeedInv, Broadcasting
<1>6. "udp" \in Thread /\ "tcp" \in Thread
  BY DEF Thread
<1> QED
  BY <1>1, <1>2, <1>3, <1>4, <1>5, <1>6, CallKeeps, GetKeeps DEF Next, UdpThread, Broadcast

LEMMA SentIsNow ==
    ASSUME FeedInv, NEW t \in Thread, Send(t), t = "udp" => ~disturbed
    PROVE  local[t] = Now
BY DEF FeedInv, UpToDate, Send

(* The quotes of a snapshot are those of one moment, with icebergs too.    *)
SnapshotWhole ==
    \A t \in Thread : Send(t) /\ (t = "udp" => ~disturbed) => local[t] = Now

THEOREM SnapshotsWhole == Spec => [][SnapshotWhole]_vars
<1>1. FeedInv => SnapshotWhole
  BY SentIsNow DEF SnapshotWhole
<1> QED
  BY <1>1, FeedInit, FeedNext, PTL DEF Spec

(* Without icebergs, which can leave the book crossed, the bid of such a   *)
(* snapshot is below its ask.                                              *)
THEOREM SnapshotsRight ==
    ASSUME "Iceberg" \notin OrderTypes
    PROVE  Spec => SnapshotIsOneMoment
<1> DEFINE Whole == \A t \in Thread : Send(t) /\ (t = "udp" => ~disturbed) =>
                        /\ local[t] = Now
                        /\ \A b \in Now.bid, a \in Now.ask : b < a
<1>1. MEP!Uncrossed => \A b \in Now.bid, a \in Now.ask : b < a
  <2>1. \A s : ME!BestPrice(s) \subseteq MEP!Levels(s)
    BY SameReads DEF ME!BestPrice
  <2>2. Now.bid = ME!BestPrice("Bid") /\ Now.ask = ME!BestPrice("Ask")
    BY DEF Now
  <2> QED
    BY <2>1, <2>2 DEF MEP!Uncrossed
<1>2. FeedInv /\ MEP!Uncrossed => Whole
  BY <1>1, SentIsNow
<1>3. Init => MEP!Uncrossed
  <2>1. Init => MEP!Init
    BY SameInit, Zenon DEF Init
  <2> QED
    BY <2>1, EngineConstants, MEP!UncrossedInit
<1>4. MEP!IInv /\ MEP!Uncrossed /\ [Next]_vars => MEP!Uncrossed'
  <2>1. MEP!IInv /\ MEP!Uncrossed /\ [MEP!Next]_(MEP!vars) => MEP!Uncrossed'
    BY EngineConstants, MEP!NextUncrossed
  <2> QED
    BY <2>1, EngineMoves
<1> QED
  BY <1>2, <1>3, <1>4, EngineInit, EngineNext, FeedInit, FeedNext, PTL DEF Spec, SnapshotIsOneMoment
=============================================================================
