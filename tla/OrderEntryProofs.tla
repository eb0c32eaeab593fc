-------------------------- MODULE OrderEntryProofs --------------------------
(***************************************************************************)
(* Order entry, for any number of clients, commands, sizes of messages and *)
(* buffers, and however the reads cut the streams: the engine is driven as *)
(* MatchingEngine says; while a client's messages arrive whole, they are   *)
(* handled in order and once, and its replies are printed in order and     *)
(* once; and what clients are told of an order adds up to what it traded.  *)
(*                                                                         *)
(* What is proved of the engine is cited as MEP!...; OrderEntry itself     *)
(* calls the engine ME, and the first section shows that the two names     *)
(* mean the same.                                                          *)
(***************************************************************************)
EXTENDS OrderEntry, SequenceTheorems, TLAPS

MEP == INSTANCE MatchingEngineProofs

LEMMA EngineConstants == MEP!ConstantsAssumption
BY OrderEntryAssumption DEF MEP!ConstantsAssumption, MEP!OrderType, ME!OrderType

LEMMA SameInit ==
    ME!Init <=> MEP!Init
BY Zenon DEF ME!Init, MEP!Init, ME!Id, MEP!Id, ME!NoOrder, MEP!NoOrder,
    ME!Side, MEP!Side, ME!NoLoc, MEP!NoLoc, ME!NoResult, MEP!NoResult

LEMMA SameRequest ==
    ME!Request = MEP!Request
BY Zenon DEF ME!Request, MEP!Request, ME!Side, MEP!Side,
    ME!MarketPrice, MEP!MarketPrice

LEMMA SamePostOnly ==
    \A r : ME!SubmitPostOnly(r) <=> MEP!SubmitPostOnly(r)
BY Zenon DEF ME!SubmitPostOnly, MEP!SubmitPostOnly,
    ME!NewOrder, MEP!NewOrder, ME!Id, MEP!Id, ME!WouldMatch, MEP!WouldMatch,
    ME!Levels, MEP!Levels, ME!Opposite, MEP!Opposite,
    ME!PriceCrosses, MEP!PriceCrosses, ME!ReturnAtOnce, MEP!ReturnAtOnce,
    ME!bergs, MEP!bergs, ME!call, MEP!call, ME!tape, MEP!tape,
    ME!hist, MEP!hist, ME!book, MEP!book, ME!AddToLevel, MEP!AddToLevel

LEMMA SameFOK ==
    \A r : ME!SubmitFOK(r) <=> MEP!SubmitFOK(r)
BY Zenon DEF ME!SubmitFOK, MEP!SubmitFOK, ME!NewOrder, MEP!NewOrder,
    ME!Id, MEP!Id, ME!AvailableQty, MEP!AvailableQty,
    ME!Opposite, MEP!Opposite, ME!Levels, MEP!Levels,
    ME!PriceCrosses, MEP!PriceCrosses, ME!ReturnAtOnce, MEP!ReturnAtOnce,
    ME!bergs, MEP!bergs, ME!call, MEP!call, ME!tape, MEP!tape,
    ME!hist, MEP!hist, ME!book, MEP!book,
    ME!BeginMatching, MEP!BeginMatching, ME!NoResult, MEP!NoResult,
    ME!MapThenSumSet, MEP!MapThenSumSet,
    ME!MapThenFoldSet, MEP!MapThenFoldSet

LEMMA SameStandard ==
    \A r : ME!SubmitStandard(r) <=> MEP!SubmitStandard(r)
BY Zenon DEF ME!SubmitStandard, MEP!SubmitStandard,
    ME!NewOrder, MEP!NewOrder, ME!Id, MEP!Id,
    ME!BeginMatching, MEP!BeginMatching, ME!NoResult, MEP!NoResult,
    ME!book, MEP!book, ME!tape, MEP!tape, ME!hist, MEP!hist,
    ME!bergs, MEP!bergs

LEMMA SameIceberg ==
    \A r : ME!SubmitIceberg(r) <=> MEP!SubmitIceberg(r)
BY Zenon DEF ME!SubmitIceberg, MEP!SubmitIceberg, ME!NewOrder, MEP!NewOrder,
    ME!Id, MEP!Id, ME!bergs, MEP!bergs, ME!DisplayQty, MEP!DisplayQty,
    ME!MinOf, MEP!MinOf, ME!BeginMatching, MEP!BeginMatching,
    ME!NoResult, MEP!NoResult, ME!book, MEP!book, ME!tape, MEP!tape,
    ME!hist, MEP!hist

LEMMA SameSubmit ==
    \A r : ME!SubmitOrder(r) <=> MEP!SubmitOrder(r)
BY SamePostOnly, SameFOK, SameStandard, SameIceberg, Zenon DEF ME!SubmitOrder, MEP!SubmitOrder

LEMMA SameMatchStep ==
    ME!MatchStep <=> MEP!MatchStep
BY Zenon DEF ME!MatchStep, MEP!MatchStep, ME!Reach, MEP!Reach,
    ME!Levels, MEP!Levels, ME!Opposite, MEP!Opposite,
    ME!PriceCrosses, MEP!PriceCrosses, ME!IsBest, MEP!IsBest,
    ME!Better, MEP!Better, ME!FillFront, MEP!FillFront, ME!MinOf, MEP!MinOf,
    ME!IsIceberg, MEP!IsIceberg, ME!bergs, MEP!bergs, ME!tape, MEP!tape

LEMMA SameEndMatch ==
    ME!EndMatch <=> MEP!EndMatch
BY Zenon DEF ME!EndMatch, MEP!EndMatch, ME!Reach, MEP!Reach,
    ME!Levels, MEP!Levels, ME!Opposite, MEP!Opposite,
    ME!PriceCrosses, MEP!PriceCrosses, ME!AddToLevel, MEP!AddToLevel,
    ME!DisplayQty, MEP!DisplayQty, ME!MinOf, MEP!MinOf, ME!book, MEP!book,
    ME!bergs, MEP!bergs, ME!call, MEP!call, ME!tape, MEP!tape

LEMMA SameRefreshExhausted ==
    ME!RefreshExhausted <=> MEP!RefreshExhausted
BY Zenon DEF ME!RefreshExhausted, MEP!RefreshExhausted, ME!NoLoc, MEP!NoLoc,
    ME!tape, MEP!tape, ME!hist, MEP!hist

LEMMA SameRefreshSlice ==
    ME!RefreshSlice <=> MEP!RefreshSlice
BY Zenon DEF ME!RefreshSlice, MEP!RefreshSlice, ME!MinOf, MEP!MinOf,
    ME!AddToLevel, MEP!AddToLevel, ME!tape, MEP!tape, ME!hist, MEP!hist

LEMMA SameReturnStandard ==
    ME!ReturnStandard <=> MEP!ReturnStandard
BY Zenon DEF ME!ReturnStandard, MEP!ReturnStandard,
    ME!Returning, MEP!Returning, ME!Return, MEP!Return,
    ME!RecordTrades, MEP!RecordTrades, ME!LastN, MEP!LastN,
    ME!hist, MEP!hist, ME!book, MEP!book, ME!bergs, MEP!bergs

LEMMA SameReturnFOK ==
    ME!ReturnFOK <=> MEP!ReturnFOK
BY Zenon DEF ME!ReturnFOK, MEP!ReturnFOK, ME!Returning, MEP!Returning,
    ME!Return, MEP!Return, ME!RecordTrades, MEP!RecordTrades,
    ME!LastN, MEP!LastN, ME!hist, MEP!hist, ME!book, MEP!book,
    ME!bergs, MEP!bergs

LEMMA SameReturnIOC ==
    ME!ReturnIOC <=> MEP!ReturnIOC
BY Zenon DEF ME!ReturnIOC, MEP!ReturnIOC, ME!Returning, MEP!Returning,
    ME!Return, MEP!Return, ME!RecordTrades, MEP!RecordTrades,
    ME!LastN, MEP!LastN, ME!hist, MEP!hist,
    ME!RemoveFromBook, MEP!RemoveFromBook, ME!Without, MEP!Without,
    ME!NoLoc, MEP!NoLoc, ME!book, MEP!book, ME!bergs, MEP!bergs,
    ME!Contains, MEP!Contains, ME!RemoveAt, MEP!RemoveAt

LEMMA SameReturnIceberg ==
    ME!ReturnIceberg <=> MEP!ReturnIceberg
BY Zenon DEF ME!ReturnIceberg, MEP!ReturnIceberg,
    ME!Returning, MEP!Returning, ME!Return, MEP!Return,
    ME!RecordTrades, MEP!RecordTrades, ME!LastN, MEP!LastN,
    ME!hist, MEP!hist, ME!bergs, MEP!bergs, ME!book, MEP!book

LEMMA SameEngine ==
    ME!Engine <=> MEP!Engine
BY SameMatchStep, SameEndMatch, SameRefreshExhausted, SameRefreshSlice, SameReturnStandard,
   SameReturnFOK, SameReturnIOC, SameReturnIceberg, Zenon DEF ME!Engine, MEP!Engine

LEMMA SameCancel ==
    \A i : ME!CancelOrder(i) <=> MEP!CancelOrder(i)
BY Zenon DEF ME!CancelOrder, MEP!CancelOrder,
    ME!CancelFound, MEP!CancelFound, ME!NoLoc, MEP!NoLoc,
    ME!RemoveFromBook, MEP!RemoveFromBook, ME!Without, MEP!Without,
    ME!NoResult, MEP!NoResult, ME!call, MEP!call, ME!tape, MEP!tape,
    ME!hist, MEP!hist, ME!CancelUnknown, MEP!CancelUnknown,
    ME!book, MEP!book, ME!bergs, MEP!bergs, ME!Contains, MEP!Contains,
    ME!RemoveAt, MEP!RemoveAt

LEMMA SameSum ==
    \A w : ME!SumOf(w) = MEP!SumOf(w)
BY Zenon DEF ME!SumOf, MEP!SumOf, ME!PartialSums, MEP!PartialSums

-----------------------------------------------------------------------------
(* Streams: what is written one message after the other is read back so    *)

(* Induction over the sequences of S: G is the set of those that have what *)
(* is to be shown.                                                         *)
LEMMA SeqInduction ==
    ASSUME NEW S, NEW G, <<>> \in G,
           \A s \in Seq(S), x \in S : s \in G => Append(s, x) \in G
    PROVE  Seq(S) \subseteq G
<1> DEFINE T == {Len(s) : s \in Seq(S) \ G}
<1>1. SUFFICES ASSUME NEW r \in Seq(S), r \notin G PROVE FALSE
  OBVIOUS
<1>2. T # {} /\ T \subseteq Nat
  BY <1>1
<1>3. PICK n \in T : \A m \in T : n <= m
  <2> HIDE DEF T
  <2> QED
    BY <1>2, MEP!Least, EngineConstants, Zenon
<1>4. PICK s \in Seq(S) \ G : n = Len(s)
  OBVIOUS
<1>5. PICK t \in Seq(S), x \in S : s = Append(t, x)
  BY <1>4, SequenceEmptyOrAppend
<1>6. Len(t) \in Nat /\ n = Len(t) + 1
  BY <1>4, <1>5, AppendProperties
<1>7. t \in G
  BY <1>3, <1>6
<1> QED
  BY <1>4, <1>5, <1>7

(* A recursive function that applies one step after the other exists.      *)
Iterates(f, V, b, N, step) ==
    f \in [0 .. N -> V] /\ f[0] = b /\ \A k \in 1 .. N : f[k] = step[k][f[k - 1]]

LEMMA Iterated ==
    ASSUME NEW V, NEW b \in V, NEW N \in Nat, NEW step \in [1 .. N -> [V -> V]]
    PROVE  \E f : Iterates(f, V, b, N, step)
<1> DEFINE Good(f, n) == f[0] = b /\ \A k \in 1 .. n : f[k] = step[k][f[k - 1]]
           T == {n \in 0 .. N : ~ \E f \in [0 .. n -> V] : Good(f, n)}
<1>0. N \in 0 .. N
  OBVIOUS
<1> HIDE DEF Good
<1>1. SUFFICES ASSUME T # {} PROVE FALSE
  <2>1. ASSUME T = {} PROVE \E f : Iterates(f, V, b, N, step)
    <3>1. N \notin T
      BY <2>1
    <3>2. PICK f \in [0 .. N -> V] : Good(f, N)
      BY <1>0, <3>1
    <3> QED
      BY <3>2 DEF Good, Iterates
  <2> QED
    BY <2>1
<1>2. PICK m \in T : \A k \in T : m <= k
  <2>1. T \subseteq Nat
    OBVIOUS
  <2> HIDE DEF T
  <2> QED
    BY <1>1, <2>1, MEP!Least, EngineConstants, Zenon
<1>3. m \in 0 .. N /\ ~ \E f \in [0 .. m -> V] : Good(f, m)
  OBVIOUS
<1>4. CASE m = 0
  <2>1. Good([k \in 0 .. 0 |-> b], 0)
    BY DEF Good
  <2> QED
    BY <1>3, <1>4, <2>1
<1>5. CASE m # 0
  <2>1. m - 1 \in 0 .. N /\ m - 1 \notin T
    <3>1. m - 1 \in 0 .. N /\ ~(m <= m - 1)
      BY <1>3, <1>5
    <3> HIDE DEF T
    <3> QED
      BY <1>2, <3>1
  <2>2. PICK f \in [0 .. (m - 1) -> V] : Good(f, m - 1)
    BY <2>1
  <2> DEFINE g == [k \in 0 .. m |-> IF k = m THEN step[m][f[m - 1]] ELSE f[k]]
  <2>3. g \in [0 .. m -> V]
    BY <1>3, <1>5, <2>1
  <2>4. Good(g, m)
    BY <1>3, <1>5, <2>2 DEF Good
  <2> QED
    BY <1>3, <2>3, <2>4
<1> QED
  BY <1>4, <1>5

(* Two functions that are alike at b and step alike are alike.             *)
Alike(f, g, b, N) ==
    /\ f[b] = g[b]
    /\ \A k \in (b + 1) .. N : f[k - 1] = g[k - 1] => f[k] = g[k]

LEMMA IteratedOnce ==
    ASSUME NEW b \in Nat, NEW N \in Nat, b <= N, NEW f, NEW g, Alike(f, g, b, N)
    PROVE  f[N] = g[N]
<1> DEFINE T == {n \in b .. N : f[n] # g[n]}
<1>1. SUFFICES ASSUME T # {} PROVE FALSE
  OBVIOUS
<1>2. PICK m \in T : \A k \in T : m <= k
  <2>1. T \subseteq Nat
    OBVIOUS
  <2> HIDE DEF T
  <2> QED
    BY <1>1, <2>1, MEP!Least, EngineConstants, Zenon
<1>3. m \in b .. N /\ f[m] # g[m] /\ m # b
  BY DEF Alike
<1>4. m \in (b + 1) .. N /\ m - 1 \in b .. N /\ ~(m <= m - 1)
  BY <1>3
<1>5. f[m - 1] = g[m - 1]
  BY <1>2, <1>4
<1> QED
  BY <1>3, <1>4, <1>5 DEF Alike

(* What WholeIn makes of the next unit, having found w in those before.    *)
Read(w, x) == IF x[2] = Size(x[1]) THEN Append(w, x[1]) ELSE w

(* f lists what WholeIn finds in the first units of u, one by one.         *)
Finds(f, u) ==
    /\ f[0] = <<>>
    /\ \A k \in 1 .. Len(u) : f[k] = Read(f[k - 1], u[k])

LEMMA FindsExists ==
    ASSUME NEW M, NEW u \in Seq(M \X Nat)
    PROVE  \E f \in [0 .. Len(u) -> Seq(M)] : Finds(f, u)
<1> DEFINE step == [k \in 1 .. Len(u) |-> [w \in Seq(M) |-> Read(w, u[k])]]
<1>1. Len(u) \in Nat /\ \A k \in 1 .. Len(u) : u[k] \in M \X Nat
  OBVIOUS
<1>2. \A k \in 1 .. Len(u), w \in Seq(M) : Read(w, u[k]) \in Seq(M)
  BY <1>1 DEF Read
<1>3. step \in [1 .. Len(u) -> [Seq(M) -> Seq(M)]]
  BY <1>2
<1>4. <<>> \in Seq(M)
  OBVIOUS
<1>5. PICK f : Iterates(f, Seq(M), <<>>, Len(u), step)
  <2> HIDE DEF step
  <2> QED
    BY <1>1, <1>3, <1>4, Iterated, Zenon
<1>6. ASSUME NEW k \in 1 .. Len(u)
      PROVE  f[k] = Read(f[k - 1], u[k])
  <2>1. f[k - 1] \in Seq(M)
    <3>1. f \in [0 .. Len(u) -> Seq(M)]
      BY <1>5 DEF Iterates
    <3>2. k - 1 \in 0 .. Len(u)
      BY <1>1
    <3> QED
      BY <3>1, <3>2
  <2> QED
    BY <1>5, <2>1 DEF Iterates
<1> QED
  BY <1>5, <1>6 DEF Finds, Iterates

LEMMA WholeInFound ==
    ASSUME NEW M, NEW u \in Seq(M \X Nat), NEW f, Finds(f, u)
    PROVE  f[Len(u)] = WholeIn(u)
<1> DEFINE Table(w) == [n \in 0 .. Len(u) |->
                IF n = 0 THEN <<>>
                ELSE IF u[n][2] = Size(u[n][1]) THEN Append(w[n - 1], u[n][1])
                ELSE w[n - 1]]
           whole == CHOOSE w : w = Table(w)
<1>1. Len(u) \in Nat
  OBVIOUS
<1>2. PICK h \in [0 .. Len(u) -> Seq(M)] : Finds(h, u)
  BY FindsExists
<1>3. \A n \in 0 .. Len(u) : h[n] = Table(h)[n]
  <2>1. ASSUME NEW n \in 1 .. Len(u) PROVE h[n] = Table(h)[n]
    <3>1. n \in 0 .. Len(u) /\ n # 0
      BY <1>1
    <3>2. h[n] = Read(h[n - 1], u[n])
      BY <1>2 DEF Finds
    <3> QED
      BY <3>1, <3>2 DEF Read
  <2>2. h[0] = Table(h)[0]
    BY <1>1, <1>2 DEF Finds
  <2>3. 0 .. Len(u) = {0} \cup 1 .. Len(u)
    BY <1>1
  <2> HIDE DEF Table
  <2> QED
    BY <2>1, <2>2, <2>3
<1>4. h = Table(h)
  BY <1>3
<1>5. whole = Table(whole)
  <2> HIDE DEF Table
  <2> QED
    BY <1>4, Zenon
<1>6. WholeIn(u) = whole[Len(u)]
  BY Zenon DEF WholeIn
<1> HIDE DEF whole
<1>7. \A n \in 0 .. Len(u) : whole[n] = Table(whole)[n]
  <2> HIDE DEF Table
  <2> QED
    BY <1>5, Zenon
<1>8. whole[0] = f[0]
  BY <1>1, <1>7 DEF Finds
<1>9. ASSUME NEW k \in 1 .. Len(u), f[k - 1] = whole[k - 1]
      PROVE  f[k] = whole[k]
  <2>1. k \in 0 .. Len(u) /\ k # 0
    BY <1>1
  <2>2. whole[k] = Read(whole[k - 1], u[k])
    BY <1>7, <2>1 DEF Read
  <2> QED
    BY <1>9, <2>2 DEF Finds
<1>10. f[Len(u)] = whole[Len(u)]
  <2>1. 0 \in Nat /\ 0 <= Len(u) /\ Alike(f, whole, 0, Len(u))
    BY <1>1, <1>8, <1>9 DEF Alike
  <2> QED
    BY <1>1, <2>1, IteratedOnce, Zenon
<1> QED
  BY <1>6, <1>10

LEMMA WholeInType ==
    ASSUME NEW M, NEW u \in Seq(M \X Nat)
    PROVE  WholeIn(u) \in Seq(M)
<1>1. Len(u) \in 0 .. Len(u)
  OBVIOUS
<1>2. PICK h \in [0 .. Len(u) -> Seq(M)] : Finds(h, u)
  BY FindsExists
<1> QED
  BY <1>1, <1>2, WholeInFound

LEMMA WholeInEmpty == WholeIn(<<>>) = <<>>
<1>1. <<>> \in Seq({} \X Nat) /\ Len(<<>>) = 0
  OBVIOUS
<1>2. PICK h \in [0 .. Len(<<>>) -> Seq({})] : Finds(h, <<>>)
  BY <1>1, FindsExists
<1>3. h[Len(<<>>)] = WholeIn(<<>>)
  BY <1>1, <1>2, WholeInFound
<1> QED
  BY <1>1, <1>2, <1>3 DEF Finds

LEMMA WholeInAppend ==
    ASSUME NEW M, NEW u \in Seq(M \X Nat), NEW x \in M \X Nat
    PROVE  WholeIn(Append(u, x)) = Read(WholeIn(u), x)
<1> DEFINE v == Append(u, x)
<1>1. /\ v \in Seq(M \X Nat) /\ Len(v) = Len(u) + 1 /\ Len(u) \in Nat
      /\ v[Len(u) + 1] = x
      /\ \A k \in 1 .. Len(u) : v[k] = u[k]
  BY AppendProperties
<1> HIDE DEF v
<1>2. PICK g \in [0 .. Len(v) -> Seq(M)] : Finds(g, v)
  BY <1>1, FindsExists
<1>3. Finds(g, u)
  BY <1>1, <1>2 DEF Finds
<1>4. g[Len(u)] = WholeIn(u)
  BY <1>3, WholeInFound
<1>5. g[Len(v)] = WholeIn(v)
  BY <1>1, <1>2, WholeInFound
<1>6. g[Len(v)] = Read(g[Len(u)], x)
  <2>1. Len(v) \in 1 .. Len(v) /\ Len(v) - 1 = Len(u)
    BY <1>1
  <2> QED
    BY <1>1, <1>2, <2>1 DEF Finds
<1> QED
  BY <1>4, <1>5, <1>6 DEF v

(* f lists the first sequences of ss, one after the other.                 *)
Joins(f, ss) ==
    /\ f[0] = <<>>
    /\ \A k \in 1 .. Len(ss) : f[k] = f[k - 1] \o ss[k]

LEMMA JoinsExists ==
    ASSUME NEW W, NEW ss \in Seq(Seq(W))
    PROVE  \E f \in [0 .. Len(ss) -> Seq(W)] : Joins(f, ss)
<1> DEFINE step == [k \in 1 .. Len(ss) |-> [w \in Seq(W) |-> w \o ss[k]]]
<1>1. Len(ss) \in Nat /\ \A k \in 1 .. Len(ss) : ss[k] \in Seq(W)
  OBVIOUS
<1>2. \A k \in 1 .. Len(ss), w \in Seq(W) : w \o ss[k] \in Seq(W)
  BY <1>1, ConcatProperties
<1>3. step \in [1 .. Len(ss) -> [Seq(W) -> Seq(W)]]
  BY <1>2
<1>4. <<>> \in Seq(W)
  OBVIOUS
<1>5. PICK f : Iterates(f, Seq(W), <<>>, Len(ss), step)
  <2> HIDE DEF step
  <2> QED
    BY <1>1, <1>3, <1>4, Iterated, Zenon
<1>6. ASSUME NEW k \in 1 .. Len(ss)
      PROVE  f[k] = f[k - 1] \o ss[k]
  <2>1. f[k - 1] \in Seq(W)
    <3>1. f \in [0 .. Len(ss) -> Seq(W)]
      BY <1>5 DEF Iterates
    <3>2. k - 1 \in 0 .. Len(ss)
      BY <1>1
    <3> QED
      BY <3>1, <3>2
  <2> QED
    BY <1>5, <2>1 DEF Iterates
<1> QED
  BY <1>5, <1>6 DEF Joins, Iterates

LEMMA JoinsFound ==
    ASSUME NEW W, NEW ss \in Seq(Seq(W)), NEW f, Joins(f, ss)
    PROVE  f[Len(ss)] = FlattenSeq(ss)
<1> DEFINE Table(w) == [i \in 1 .. Len(ss) |-> IF i = 1 THEN ss[i] ELSE w[i - 1] \o ss[i]]
           flatten == CHOOSE w : w = Table(w)
<1>1. Len(ss) \in Nat /\ \A k \in 1 .. Len(ss) : ss[k] \in Seq(W)
  OBVIOUS
<1>2. CASE Len(ss) = 0
  <2>1. ss = <<>>
    BY <1>2
  <2> QED
    BY <1>2, <2>1 DEF Joins, FlattenSeq
<1>3. CASE Len(ss) # 0
  <2>1. PICK h \in [0 .. Len(ss) -> Seq(W)] : Joins(h, ss)
    BY JoinsExists
  <2> DEFINE r == [i \in 1 .. Len(ss) |-> h[i]]
  <2>2. ASSUME NEW i \in 1 .. Len(ss) PROVE r[i] = Table(r)[i]
    <3>1. CASE i = 1
      <4>1. h[1] = <<>> \o ss[1] /\ ss[1] \in Seq(W)
        <5>1. 1 \in 1 .. Len(ss) /\ 1 - 1 = 0
          BY <3>1
        <5> QED
          BY <1>1, <2>1, <5>1 DEF Joins
      <4>2. h[1] = ss[1]
        BY <4>1, ConcatEmptySeq
      <4> QED
        BY <3>1, <4>2
    <3>2. CASE i # 1
      <4>1. i - 1 \in 1 .. Len(ss)
        BY <1>1, <3>2
      <4>2. h[i] = h[i - 1] \o ss[i]
        BY <2>1 DEF Joins
      <4> QED
        BY <3>2, <4>1, <4>2
    <3> QED
      BY <3>1, <3>2
  <2>3. r = Table(r)
    <3> HIDE DEF Table
    <3>1. DOMAIN Table(r) = 1 .. Len(ss) /\ Table(r) = [i \in 1 .. Len(ss) |-> Table(r)[i]]
      BY DEF Table
    <3> QED
      BY <2>2, <3>1
  <2>4. flatten = Table(flatten)
    <3> HIDE DEF Table, r
    <3> QED
      BY <2>3, Zenon
  <2>5. FlattenSeq(ss) = flatten[Len(ss)]
    BY <1>3, Zenon DEF FlattenSeq
  <2> HIDE DEF flatten
  <2>6. \A i \in 1 .. Len(ss) : flatten[i] = Table(flatten)[i]
    <3> HIDE DEF Table
    <3> QED
      BY <2>4, Zenon
  <2>7. 1 \in 1 .. Len(ss)
    BY <1>1, <1>3
  <2>8. f[1] = flatten[1]
    <3>1. f[1] = <<>> \o ss[1] /\ ss[1] \in Seq(W)
      <4>1. 1 - 1 = 0
        OBVIOUS
      <4> QED
        BY <1>1, <2>7, <4>1 DEF Joins
    <3>2. f[1] = ss[1]
      BY <3>1, ConcatEmptySeq
    <3>3. flatten[1] = ss[1]
      BY <2>6, <2>7
    <3> QED
      BY <3>2, <3>3
  <2>9. ASSUME NEW k \in (1 + 1) .. Len(ss), f[k - 1] = flatten[k - 1]
        PROVE  f[k] = flatten[k]
    <3>1. k \in 1 .. Len(ss) /\ k # 1
      BY <1>1
    <3>2. flatten[k] = flatten[k - 1] \o ss[k]
      BY <2>6, <3>1
    <3>3. f[k] = f[k - 1] \o ss[k]
      BY <3>1 DEF Joins
    <3> QED
      BY <2>9, <3>2, <3>3
  <2>10. 1 \in Nat /\ 1 <= Len(ss)
    BY <1>1, <1>3
  <2>11. f[Len(ss)] = flatten[Len(ss)]
    <3>1. Alike(f, flatten, 1, Len(ss))
      BY <2>8, <2>9 DEF Alike
    <3>2. \A b \in Nat :
              b <= Len(ss) /\ Alike(f, flatten, b, Len(ss)) => f[Len(ss)] = flatten[Len(ss)]
      BY <1>1, IteratedOnce, Zenon
    <3> QED
      BY <2>10, <3>1, <3>2
  <2> QED
    BY <2>5, <2>11
<1> QED
  BY <1>2, <1>3

LEMMA FlattenAppend ==
    ASSUME NEW W, NEW ss \in Seq(Seq(W)), NEW s \in Seq(W)
    PROVE  FlattenSeq(Append(ss, s)) = FlattenSeq(ss) \o s
<1> DEFINE v == Append(ss, s)
<1>1. /\ v \in Seq(Seq(W)) /\ Len(v) = Len(ss) + 1 /\ Len(ss) \in Nat
      /\ v[Len(ss) + 1] = s
      /\ \A k \in 1 .. Len(ss) : v[k] = ss[k]
  BY AppendProperties
<1> HIDE DEF v
<1>2. PICK g \in [0 .. Len(v) -> Seq(W)] : Joins(g, v)
  BY <1>1, JoinsExists
<1>3. Joins(g, ss)
  <2>1. \A k \in 1 .. Len(ss) : k \in 1 .. Len(v)
    BY <1>1
  <2> QED
    BY <1>1, <1>2, <2>1 DEF Joins
<1>4. g[Len(ss)] = FlattenSeq(ss)
  BY <1>3, JoinsFound
<1>5. g[Len(v)] = FlattenSeq(v)
  BY <1>1, <1>2, JoinsFound
<1>6. g[Len(v)] = g[Len(ss)] \o s
  <2>1. Len(v) \in 1 .. Len(v) /\ Len(v) - 1 = Len(ss)
    BY <1>1
  <2> QED
    BY <1>1, <1>2, <2>1 DEF Joins
<1> QED
  BY <1>4, <1>5, <1>6 DEF v

(* Two ways to cut a sequence at the same place                            *)
LEMMA SameLengthFront ==
    ASSUME NEW W, NEW a \in Seq(W), NEW b \in Seq(W), NEW c \in Seq(W), NEW d \in Seq(W),
           Len(a) = Len(c), a \o b = c \o d
    PROVE  a = c /\ b = d
<1>1. Len(a) \in Nat /\ Len(b) \in Nat /\ Len(d) \in Nat
  OBVIOUS
<1>2. ASSUME NEW i \in 1 .. Len(a) PROVE a[i] = c[i]
  <2>1. i \in 1 .. (Len(a) + Len(b)) /\ i \in 1 .. (Len(c) + Len(d)) /\ i <= Len(a)
    BY <1>1
  <2>2. (a \o b)[i] = a[i] /\ (c \o d)[i] = c[i]
    BY <2>1, ConcatProperties
  <2> QED
    BY <2>2
<1>3. a = c
  BY <1>2, SeqEqual
<1>4. b = d
  BY <1>3, ConcatSimplifications
<1> QED
  BY <1>3, <1>4

(* Messages that take room, and the units of a stream of them.             *)
HasSizes(M) == \A m \in M : Size(m) \in Nat \ {0}

LEMMA UnitsType ==
    ASSUME NEW M, HasSizes(M), NEW m \in M
    PROVE  /\ Units(m) \in Seq(M \X Nat) /\ Len(Units(m)) = Size(m)
           /\ Size(m) \in Nat \ {0}
           /\ \A j \in 1 .. Size(m) : Units(m)[j] = <<m, j>>
           /\ Units(m) # <<>> /\ Units(m)[1] = <<m, 1>>
<1>1. Size(m) \in Nat /\ Size(m) >= 1
  BY DEF HasSizes
<1>2. Units(m) \in [1 .. Size(m) -> M \X Nat]
  BY <1>1 DEF Units
<1>3. Units(m) \in Seq(M \X Nat) /\ Len(Units(m)) = Size(m)
  BY <1>1, <1>2
<1>4. \A j \in 1 .. Size(m) : Units(m)[j] = <<m, j>>
  BY DEF Units
<1>5. 1 \in 1 .. Size(m)
  BY <1>1
<1> QED
  BY <1>1, <1>3, <1>4, <1>5

LEMMA UnitsOfEmpty == UnitsOf(<<>>) = <<>>
<1>1. [k \in DOMAIN <<>> |-> Units(<<>>[k])] = <<>>
  OBVIOUS
<1>2. Len(<<>>) = 0
  OBVIOUS
<1> QED
  BY <1>1, <1>2 DEF UnitsOf, FlattenSeq

(* The streams of messages that are whole, and what is in them.            *)
LEMMA UnitsOfAppend ==
    ASSUME NEW M, HasSizes(M), NEW s \in Seq(M), NEW m \in M
    PROVE  /\ UnitsOf(s) \in Seq(M \X Nat)
           /\ UnitsOf(Append(s, m)) = UnitsOf(s) \o Units(m)
<1> DEFINE Un(t) == [k \in DOMAIN t |-> Units(t[k])]
           W == M \X Nat
           G == {t \in Seq(M) : FlattenSeq(Un(t)) \in Seq(W)}
<1>1. ASSUME NEW t \in Seq(M) PROVE Un(t) \in Seq(Seq(W))
  <2>1. Len(t) \in Nat /\ DOMAIN t = 1 .. Len(t) /\ \A k \in DOMAIN t : t[k] \in M
    OBVIOUS
  <2>2. \A k \in DOMAIN t : Units(t[k]) \in Seq(W)
    BY <2>1, UnitsType
  <2>3. Un(t) \in [1 .. Len(t) -> Seq(W)]
    BY <2>1, <2>2
  <2> HIDE DEF Un, W
  <2> QED
    BY <2>1, <2>3
<1>2. ASSUME NEW t \in Seq(M), NEW x \in M
      PROVE  Un(Append(t, x)) = Append(Un(t), Units(x))
  <2> DEFINE v == Append(t, x)
  <2>1. /\ v \in Seq(M) /\ Len(v) = Len(t) + 1 /\ Len(t) \in Nat
        /\ v[Len(t) + 1] = x
        /\ \A k \in 1 .. Len(t) : v[k] = t[k]
    BY AppendProperties
  <2>2. Units(x) \in Seq(W) /\ Un(t) \in Seq(Seq(W)) /\ Un(v) \in Seq(Seq(W))
    BY <1>1, <2>1, UnitsType
  <2>3. Len(Un(t)) = Len(t) /\ Len(Un(v)) = Len(t) + 1
    <3>1. DOMAIN Un(t) = 1 .. Len(t) /\ DOMAIN Un(v) = 1 .. (Len(t) + 1)
      BY <2>1
    <3> HIDE DEF Un
    <3> QED
      BY <2>1, <2>2, <3>1
  <2> DEFINE z == Append(Un(t), Units(x))
  <2>4. /\ z \in Seq(Seq(W)) /\ Len(z) = Len(t) + 1
        /\ z[Len(t) + 1] = Units(x)
        /\ \A k \in 1 .. Len(t) : z[k] = Un(t)[k]
    <3> HIDE DEF Un
    <3> QED
      BY <2>2, <2>3, AppendProperties
  <2>5. ASSUME NEW k \in 1 .. (Len(t) + 1) PROVE Un(v)[k] = z[k]
    <3> HIDE DEF v, z
    <3>1. Un(v)[k] = Units(v[k])
      BY <2>1
    <3>2. CASE k = Len(t) + 1
      BY <2>1, <2>4, <3>1, <3>2
    <3>3. CASE k # Len(t) + 1
      <4>1. k \in 1 .. Len(t)
        BY <2>1, <3>3
      <4>2. Un(t)[k] = Units(t[k])
        BY <2>1, <4>1
      <4> QED
        BY <2>1, <2>4, <3>1, <4>1, <4>2
    <3> QED
      BY <3>2, <3>3
  <2> HIDE DEF v, z, Un
  <2>6. Un(v) = z
    BY <2>2, <2>3, <2>4, <2>5, SeqEqual
  <2> QED
    BY <2>6 DEF v, z
<1>3. \A t : UnitsOf(t) = FlattenSeq(Un(t))
  BY DEF UnitsOf
<1>4. ASSUME NEW t \in Seq(M), NEW x \in M
      PROVE  FlattenSeq(Un(Append(t, x))) = FlattenSeq(Un(t)) \o Units(x)
  <2>1. Units(x) \in Seq(W) /\ Un(t) \in Seq(Seq(W))
    BY <1>1, UnitsType
  <2> HIDE DEF Un, W
  <2> QED
    BY <1>2, <2>1, FlattenAppend
<1>5. Seq(M) \subseteq G
  <2>1. <<>> \in G
    <3>1. <<>> \in Seq(M) /\ <<>> \in Seq(W)
      BY EmptySeq
    <3>2. FlattenSeq(Un(<<>>)) = <<>>
      BY <1>3, UnitsOfEmpty
    <3> HIDE DEF Un, W
    <3> QED
      BY <3>1, <3>2
  <2>2. ASSUME NEW t \in Seq(M), NEW x \in M, t \in G
        PROVE  Append(t, x) \in G
    <3>1. Append(t, x) \in Seq(M) /\ Units(x) \in Seq(W)
      BY UnitsType
    <3> HIDE DEF Un, W
    <3>0. FlattenSeq(Un(t)) \in Seq(W)
      BY <2>2
    <3>2. FlattenSeq(Un(Append(t, x))) \in Seq(W)
      BY <1>4, <3>0, <3>1, ConcatProperties
    <3> QED
      BY <3>1, <3>2
  <2> HIDE DEF G
  <2> QED
    BY <2>1, <2>2, SeqInduction, Zenon
<1> QED
  BY <1>3, <1>4, <1>5

LEMMA UnitsOfType ==
    ASSUME NEW M, HasSizes(M), NEW s \in Seq(M)
    PROVE  UnitsOf(s) \in Seq(M \X Nat)
<1>1. CASE s = <<>>
  BY <1>1, UnitsOfEmpty, EmptySeq, Zenon
<1>2. CASE s # <<>>
  <2>1. PICK m \in M : TRUE
    BY <1>2
  <2> QED
    BY <2>1, UnitsOfAppend
<1> QED
  BY <1>1, <1>2


LEMMA UnitsOfConcat ==
    ASSUME NEW M, HasSizes(M), NEW s \in Seq(M), NEW t \in Seq(M)
    PROVE  UnitsOf(s \o t) = UnitsOf(s) \o UnitsOf(t)
<1> DEFINE W == M \X Nat
           G == {r \in Seq(M) : UnitsOf(s \o r) = UnitsOf(s) \o UnitsOf(r)}
<1>1. \A r \in Seq(M) : UnitsOf(r) \in Seq(W)
  BY UnitsOfType
<1>2. \A x \in M : Units(x) \in Seq(W)
  BY UnitsType
<1> HIDE DEF W
<1>3. <<>> \in G
  <2>1. s \o <<>> = s /\ UnitsOf(s) \o <<>> = UnitsOf(s) /\ <<>> \in Seq(M)
    BY <1>1, ConcatEmptySeq, EmptySeq
  <2> QED
    BY <2>1, UnitsOfEmpty
<1>4. ASSUME NEW r \in Seq(M), NEW x \in M, r \in G
      PROVE  Append(r, x) \in G
  <2>1. Append(r, x) \in Seq(M) /\ s \o r \in Seq(M)
    BY AppendProperties, ConcatProperties
  <2>2. s \o Append(r, x) = Append(s \o r, x)
    OBVIOUS
  <2>3. UnitsOf(Append(s \o r, x)) = UnitsOf(s \o r) \o Units(x)
    BY <2>1, UnitsOfAppend
  <2>4. UnitsOf(s \o r) = UnitsOf(s) \o UnitsOf(r)
    BY <1>4
  <2>5. UnitsOf(Append(r, x)) = UnitsOf(r) \o Units(x)
    BY UnitsOfAppend
  <2>6. (UnitsOf(s) \o UnitsOf(r)) \o Units(x) = UnitsOf(s) \o (UnitsOf(r) \o Units(x))
    BY <1>1, <1>2, ConcatAssociative
  <2>7. UnitsOf(s \o Append(r, x)) = UnitsOf(s) \o UnitsOf(Append(r, x))
    BY <2>2, <2>3, <2>4, <2>5, <2>6
  <2> QED
    BY <2>1, <2>7
<1>5. t \in G
  <2> HIDE DEF G
  <2> QED
    BY <1>3, <1>4, SeqInduction, Zenon
<1> QED
  BY <1>5

LEMMA UnitsOfOne ==
    ASSUME NEW M, HasSizes(M), NEW m \in M
    PROVE  UnitsOf(<<m>>) = Units(m)
<1>1. <<>> \in Seq(M) /\ Append(<<>>, m) = <<m>>
  BY EmptySeq
<1>2. UnitsOf(Append(<<>>, m)) = UnitsOf(<<>>) \o Units(m)
  BY <1>1, UnitsOfAppend
<1>3. <<>> \o Units(m) = Units(m)
  BY UnitsType, ConcatEmptySeq
<1> QED
  BY <1>1, <1>2, <1>3, UnitsOfEmpty

LEMMA UnitsOfCons ==
    ASSUME NEW M, HasSizes(M), NEW m \in M, NEW t \in Seq(M)
    PROVE  /\ UnitsOf(<<m>> \o t) = Units(m) \o UnitsOf(t)
           /\ UnitsOf(<<m>> \o t) # <<>>
           /\ UnitsOf(<<m>> \o t)[1] = <<m, 1>>
<1>1. <<m>> \in Seq(M)
  OBVIOUS
<1>2. UnitsOf(<<m>> \o t) = Units(m) \o UnitsOf(t)
  BY <1>1, UnitsOfConcat, UnitsOfOne
<1> DEFINE W == M \X Nat
<1>3. /\ Units(m) \in Seq(W) /\ UnitsOf(t) \in Seq(W)
      /\ Len(Units(m)) \in Nat /\ Len(Units(m)) >= 1
      /\ Units(m)[1] = <<m, 1>>
  <2>1. UnitsOf(t) \in Seq(W)
    BY UnitsOfType
  <2>2. /\ Units(m) \in Seq(W) /\ Len(Units(m)) = Size(m)
        /\ Size(m) \in Nat \ {0} /\ Units(m)[1] = <<m, 1>>
    BY UnitsType
  <2> QED
    BY <2>1, <2>2
<1> HIDE DEF W
<1>4. Len(Units(m) \o UnitsOf(t)) >= 1 /\ (Units(m) \o UnitsOf(t))[1] = <<m, 1>>
  <2>1. Len(UnitsOf(t)) \in Nat
    BY <1>3
  <2>2. 1 \in 1 .. (Len(Units(m)) + Len(UnitsOf(t)))
    BY <1>3, <2>1
  <2> QED
    BY <1>3, <2>1, <2>2, ConcatProperties
<1>5. Units(m) \o UnitsOf(t) # <<>>
  <2>1. Len(<<>>) = 0
    OBVIOUS
  <2> QED
    BY <1>4, <2>1
<1> QED
  BY <1>2, <1>4, <1>5

(* The units of one message tell when it is whole, and no sooner.          *)
LEMMA WholeInUnits ==
    ASSUME NEW M, HasSizes(M), NEW m \in M, NEW u \in Seq(M \X Nat)
    PROVE  WholeIn(u \o Units(m)) = Append(WholeIn(u), m)
<1> DEFINE W == M \X Nat
           v(n) == u \o [j \in 1 .. n |-> <<m, j>>]
           B == {n \in 0 .. (Size(m) - 1) : WholeIn(v(n)) # WholeIn(u)}
<1>1. Size(m) \in Nat \ {0}
  BY DEF HasSizes
<1>2. ASSUME NEW n \in Nat
      PROVE  /\ [j \in 1 .. n |-> <<m, j>>] \in Seq(W)
             /\ v(n) \in Seq(W)
             /\ v(n + 1) = Append(v(n), <<m, n + 1>>)
  <2> DEFINE a == [j \in 1 .. n |-> <<m, j>>]
             b == [j \in 1 .. (n + 1) |-> <<m, j>>]
  <2>1. a \in [1 .. n -> W] /\ b \in [1 .. (n + 1) -> W] /\ n + 1 \in Nat
    OBVIOUS
  <2>2. a \in Seq(W) /\ b \in Seq(W) /\ Len(a) = n /\ Len(b) = n + 1
    <3> HIDE DEF a, b, W
    <3> QED
      BY <2>1
  <2>3. <<m, n + 1>> \in W
    OBVIOUS
  <2>4. b = Append(a, <<m, n + 1>>)
    <3> DEFINE z == Append(a, <<m, n + 1>>)
    <3>1. /\ z \in Seq(W) /\ Len(z) = n + 1 /\ z[n + 1] = <<m, n + 1>>
          /\ \A k \in 1 .. n : z[k] = a[k]
      <4> HIDE DEF a, W
      <4> QED
        BY <2>2, <2>3, AppendProperties
    <3>2. ASSUME NEW k \in 1 .. (n + 1) PROVE b[k] = z[k]
      <4> HIDE DEF z
      <4>1. CASE k = n + 1
        BY <3>1, <4>1
      <4>2. CASE k # n + 1
        <5>1. k \in 1 .. n
          BY <4>2
        <5> QED
          BY <3>1, <5>1
      <4> QED
        BY <4>1, <4>2
    <3> HIDE DEF z, b, W
    <3>3. b = z
      BY <2>2, <3>1, <3>2, SeqEqual
    <3> QED
      BY <3>3 DEF z
  <2>5. u \in Seq(W)
    OBVIOUS
  <2> HIDE DEF a, b, W
  <2>6. u \o a \in Seq(W)
    BY <2>2, <2>5, ConcatProperties
  <2>7. u \o Append(a, <<m, n + 1>>) = Append(u \o a, <<m, n + 1>>)
    BY <2>2, <2>3, <2>5
  <2> QED
    BY <2>2, <2>4, <2>6, <2>7 DEF a, b
<1>3. \A n \in Nat : WholeIn(v(n + 1)) = Read(WholeIn(v(n)), <<m, n + 1>>)
  <2> TAKE n \in Nat
  <2> HIDE DEF v
  <2>0. v(n) \in Seq(W)
    BY <1>2
  <2>1. <<m, n + 1>> \in M \X Nat /\ v(n) \in Seq(M \X Nat)
    BY <2>0
  <2>2. WholeIn(Append(v(n), <<m, n + 1>>)) = Read(WholeIn(v(n)), <<m, n + 1>>)
    BY <2>1, WholeInAppend
  <2> QED
    BY <1>2, <2>2
<1>4. v(0) = u
  <2>1. [j \in 1 .. 0 |-> <<m, j>>] = <<>>
    OBVIOUS
  <2>2. u \o <<>> = u
    BY ConcatEmptySeq
  <2> QED
    BY <2>1, <2>2
<1> HIDE DEF v
<1>5. B = {}
  <2>1. SUFFICES ASSUME B # {} PROVE FALSE
    OBVIOUS
  <2>2. PICK n \in B : \A k \in B : n <= k
    <3>1. B \subseteq Nat
      BY <1>1
    <3> HIDE DEF B
    <3> QED
      BY <2>1, <3>1, MEP!Least, EngineConstants, Zenon
  <2>3. n \in 1 .. (Size(m) - 1) /\ WholeIn(v(n)) # WholeIn(u)
    BY <1>1, <1>4
  <2>4. n - 1 \in Nat /\ n - 1 \in 0 .. (Size(m) - 1) /\ ~(n <= n - 1) /\ (n - 1) + 1 = n
    BY <1>1, <2>3
  <2>5. WholeIn(v(n - 1)) = WholeIn(u)
    BY <2>2, <2>4
  <2>6. WholeIn(v(n)) = Read(WholeIn(v(n - 1)), <<m, n>>)
    BY <1>3, <2>4
  <2>7. n # Size(m)
    BY <1>1, <2>3
  <2>8. Read(WholeIn(u), <<m, n>>) = WholeIn(u)
    BY <2>7 DEF Read
  <2> QED
    BY <2>3, <2>5, <2>6, <2>8
<1> DEFINE s == Size(m) - 1
<1>6. s \in Nat /\ s \in 0 .. (Size(m) - 1) /\ s + 1 = Size(m)
  BY <1>1
<1>7. WholeIn(v(s)) = WholeIn(u)
  BY <1>5, <1>6
<1>8. WholeIn(v(Size(m))) = Read(WholeIn(u), <<m, Size(m)>>)
  BY <1>3, <1>6, <1>7
<1>9. v(Size(m)) = u \o Units(m)
  BY DEF v, Units
<1> QED
  BY <1>8, <1>9 DEF Read

(* What a stream of whole messages holds is these messages.                *)
LEMMA WholeInUnitsOf ==
    ASSUME NEW M, HasSizes(M), NEW s \in Seq(M)
    PROVE  WholeIn(UnitsOf(s)) = s
<1> DEFINE G == {r \in Seq(M) : WholeIn(UnitsOf(r)) = r}
<1>1. <<>> \in G
  BY UnitsOfEmpty, WholeInEmpty, EmptySeq
<1>2. ASSUME NEW r \in Seq(M), NEW x \in M, r \in G
      PROVE  Append(r, x) \in G
  <2>1. Append(r, x) \in Seq(M) /\ UnitsOf(r) \in Seq(M \X Nat)
    BY AppendProperties, UnitsOfType
  <2>2. UnitsOf(Append(r, x)) = UnitsOf(r) \o Units(x)
    BY UnitsOfAppend
  <2>3. WholeIn(UnitsOf(r) \o Units(x)) = Append(WholeIn(UnitsOf(r)), x)
    BY <2>1, WholeInUnits
  <2>4. WholeIn(UnitsOf(r)) = r
    BY <1>2
  <2>5. WholeIn(UnitsOf(Append(r, x))) = Append(r, x)
    BY <2>2, <2>3, <2>4
  <2> QED
    BY <2>1, <2>5
<1>3. s \in G
  <2> HIDE DEF G
  <2> QED
    BY <1>1, <1>2, SeqInduction, Zenon
<1> QED
  BY <1>3

(* What follows whole messages in a stream of whole messages is such a     *)
(* stream, of the messages that follow.                                    *)
LEMMA FirstUnits ==
    ASSUME NEW M, HasSizes(M), NEW rest \in Seq(M), UnitsOf(rest) # <<>>
    PROVE  \E h \in M, r \in Seq(M) :
               /\ rest = <<h>> \o r
               /\ UnitsOf(rest) = Units(h) \o UnitsOf(r)
               /\ UnitsOf(rest)[1] = <<h, 1>>
<1>1. rest # <<>>
  BY UnitsOfEmpty
<1>2. Head(rest) \in M /\ Tail(rest) \in Seq(M)
  BY <1>1, HeadTailProperties
<1>3. rest = <<Head(rest)>> \o Tail(rest)
  BY <1>1
<1> DEFINE h == Head(rest)
           r == Tail(rest)
<1> HIDE DEF h, r
<1>4. UnitsOf(<<h>> \o r) = Units(h) \o UnitsOf(r) /\ UnitsOf(<<h>> \o r)[1] = <<h, 1>>
  BY <1>2, UnitsOfCons DEF h, r
<1> QED
  BY <1>2, <1>3, <1>4 DEF h, r

LeftAfter(M, s, v, rest) == \E r \in Seq(M) : v = UnitsOf(r) /\ rest = s \o r

LEMMA UnitsOfRest ==
    ASSUME NEW M, HasSizes(M), NEW s \in Seq(M), NEW rest \in Seq(M),
           NEW v \in Seq(M \X Nat), UnitsOf(s) \o v = UnitsOf(rest)
    PROVE  LeftAfter(M, s, v, rest)
<1> DEFINE W == M \X Nat
           Rest(t, w) == \E r \in Seq(M) : w = UnitsOf(r) /\ rest = t \o r
           G == {t \in Seq(M) :
                    \A w \in Seq(W) : UnitsOf(t) \o w = UnitsOf(rest) => Rest(t, w)}
<1>1. \A t \in Seq(M) : UnitsOf(t) \in Seq(W)
  BY UnitsOfType
<1>2. \A x \in M : /\ Units(x) \in Seq(W) /\ Len(Units(x)) \in Nat
                   /\ Len(Units(x)) >= 1 /\ Units(x)[1] = <<x, 1>>
  <2> TAKE x \in M
  <2>1. /\ Units(x) \in Seq(W) /\ Len(Units(x)) = Size(x)
        /\ Size(x) \in Nat \ {0} /\ Units(x)[1] = <<x, 1>>
    BY UnitsType
  <2> QED
    BY <2>1
<1>3. <<>> \in G
  <2>1. <<>> \in Seq(M) /\ <<>> \o rest = rest
    BY EmptySeq, ConcatEmptySeq
  <2>2. ASSUME NEW w \in Seq(W), UnitsOf(<<>>) \o w = UnitsOf(rest)
        PROVE  Rest(<<>>, w)
    <3>1. <<>> \o w = w
      BY ConcatEmptySeq
    <3>2. w = UnitsOf(rest)
      BY <2>2, <3>1, UnitsOfEmpty
    <3> QED
      BY <2>1, <3>2
  <2> HIDE DEF Rest, W
  <2> QED
    BY <2>1, <2>2
<1>4. ASSUME NEW t \in Seq(M), NEW x \in M, t \in G
      PROVE  Append(t, x) \in G
  <2>1. ASSUME NEW w \in Seq(W), UnitsOf(Append(t, x)) \o w = UnitsOf(rest)
        PROVE  Rest(Append(t, x), w)
    <3> DEFINE y == Units(x) \o w
    <3>1. y \in Seq(W) /\ UnitsOf(t) \o y = UnitsOf(rest)
      <4>1. UnitsOf(Append(t, x)) = UnitsOf(t) \o Units(x)
        BY UnitsOfAppend
      <4> HIDE DEF W
      <4>2. (UnitsOf(t) \o Units(x)) \o w = UnitsOf(t) \o (Units(x) \o w)
        <5>1. UnitsOf(t) \in Seq(W) /\ Units(x) \in Seq(W) /\ w \in Seq(W)
          BY <1>1, <1>2
        <5> HIDE DEF G, Rest, y
        <5> QED
          BY <5>1, ConcatAssociative
      <4>3. y \in Seq(W)
        BY <1>2, ConcatProperties
      <4>4. UnitsOf(t) \o y = UnitsOf(rest)
        BY <2>1, <4>1, <4>2, Zenon
      <4> QED
        BY <4>3, <4>4
    <3>2. Rest(t, y)
      <4> HIDE DEF y, Rest
      <4> QED
        BY <1>4, <3>1
    <3>3. PICK r \in Seq(M) : y = UnitsOf(r) /\ rest = t \o r
      BY <3>2
    <3>4. y # <<>> /\ y[1] = <<x, 1>>
      <4> HIDE DEF W
      <4>1. Len(w) \in Nat /\ Len(<<>>) = 0
        OBVIOUS
      <4>2. 1 \in 1 .. (Len(Units(x)) + Len(w))
        BY <1>2, <4>1
      <4>3. Len(y) = Len(Units(x)) + Len(w) /\ y[1] = Units(x)[1]
        BY <1>2, <4>1, <4>2, ConcatProperties
      <4> QED
        BY <1>2, <4>1, <4>3
    <3>5. PICK h \in M, q \in Seq(M) : /\ r = <<h>> \o q
                                       /\ UnitsOf(r) = Units(h) \o UnitsOf(q)
                                       /\ UnitsOf(r)[1] = <<h, 1>>
      BY <3>3, <3>4, FirstUnits
    <3>6. h = x
      BY <3>3, <3>4, <3>5
    <3>7. w = UnitsOf(q)
      <4>1. Units(x) \o w = Units(x) \o UnitsOf(q)
        BY <3>3, <3>5, <3>6
      <4> HIDE DEF W
      <4>2. Units(x) \in Seq(W) /\ UnitsOf(q) \in Seq(W)
        BY <1>1, <1>2
      <4> QED
        BY <4>1, <4>2, ConcatSimplifications
    <3>8. rest = Append(t, x) \o q
      <4>1. <<x>> \in Seq(M) /\ Append(t, x) = t \o <<x>>
        BY AppendIsConcat
      <4>2. (t \o <<x>>) \o q = t \o (<<x>> \o q)
        BY <4>1, ConcatAssociative
      <4> QED
        BY <3>3, <3>5, <3>6, <4>1, <4>2
    <3> QED
      BY <3>7, <3>8
  <2>2. Append(t, x) \in Seq(M)
    BY AppendProperties
  <2> HIDE DEF Rest, W
  <2> QED
    BY <2>1, <2>2
<1>5. s \in G
  <2> HIDE DEF G
  <2> QED
    BY <1>3, <1>4, SeqInduction, Zenon
<1>6. Rest(s, v)
  <2> HIDE DEF Rest
  <2> QED
    BY <1>5
<1> QED
  BY <1>6 DEF LeftAfter

-----------------------------------------------------------------------------
(* What goes over the wires *)

Reason == {"POST_ONLY_CROSSED", "FOK_INSUFFICIENT", "UNKNOWN_ORDER", "INVALID_MESSAGE"}
Reply ==
    [type : {"EXECUTION"}, id : Nat, qty : Nat, remaining : Nat]
    \cup [type : {"REJECT"}, id : Nat, reason : Reason]
    \cup [type : {"ACCEPTED"}, id : Nat, remaining : Nat]

NetType ==
    /\ toServer \in [Client -> Seq(Message \X Nat)]
    /\ toClient \in [Client -> Seq(Reply \X Nat)]
    /\ fd \in Client /\ buf \in Seq(Message \X Nat)
    /\ handling # Nothing => \E r \in Orders : handling = NewOrder(r)
    /\ asked \in [Client -> Seq(Message)] /\ handled \in [Client -> Seq(Message)]
    /\ answers \in [Client -> Seq(Reply)] /\ printed \in [Client -> Seq(Reply)]
    /\ owner \in [ME!Id -> SUBSET Client]

LEMMA MessageSizes == HasSizes(Message)
<1>1. NewOrderSize \in Nat \ {0} /\ CancelSize \in Nat \ {0}
  BY OrderEntryAssumption
<1>2. \A r \in Orders : Size(NewOrder(r)) = NewOrderSize
  BY DEF Size, NewOrder
<1>3. \A i \in Cancels : Size(Cancel(i)) = CancelSize
  BY DEF Size, Cancel
<1> QED
  BY <1>1, <1>2, <1>3 DEF HasSizes, Message

LEMMA ReplySizes == HasSizes(Reply)
<1>1. ExecutionSize \in Nat \ {0} /\ RejectSize \in Nat \ {0} /\ AcceptedSize \in Nat \ {0}
  BY OrderEntryAssumption
<1>2. \A a \in Reply : \/ a.type = "EXECUTION" /\ Size(a) = ExecutionSize
                       \/ a.type = "REJECT" /\ Size(a) = RejectSize
                       \/ a.type = "ACCEPTED" /\ Size(a) = AcceptedSize
  BY DEF Reply, Size
<1> QED
  BY <1>1, <1>2 DEF HasSizes

LEMMA MessageKinds ==
    ASSUME NEW m \in Message
    PROVE  /\ m.type = "NEW_ORDER" => m.order \in Orders /\ m = NewOrder(m.order)
           /\ m.type = "CANCEL" => m.id \in Cancels /\ m = Cancel(m.id)
           /\ m.type \in {"NEW_ORDER", "CANCEL"}
<1>1. ASSUME NEW r \in Orders, m = NewOrder(r)
      PROVE  m.type = "NEW_ORDER" /\ m.order = r
  BY <1>1 DEF NewOrder
<1>2. ASSUME NEW i \in Cancels, m = Cancel(i)
      PROVE  m.type = "CANCEL" /\ m.id = i
  BY <1>2 DEF Cancel
<1>3. (\E r \in Orders : m = NewOrder(r)) \/ (\E i \in Cancels : m = Cancel(i))
  BY DEF Message
<1> QED
  BY <1>1, <1>2, <1>3

LEMMA RepliesTyped ==
    /\ \A i \in Nat, q \in Nat, r \in Nat : Execution(i, q, r) \in Reply
    /\ \A i \in Nat, r \in Nat : Accepted(i, r) \in Reply
    /\ \A i \in Nat, x \in Reason : Reject(i, x) \in Reply
BY DEF Reply, Execution, Accepted, Reject

(* A read of a stream leaves streams.                                      *)
LEMMA ReadTyped ==
    ASSUME NEW M, NEW u \in Seq(M \X Nat), NEW n \in Nat, n <= Len(u)
    PROVE  /\ SubSeq(u, 1, n) \in Seq(M \X Nat) /\ After(u, n) \in Seq(M \X Nat)
           /\ SubSeq(u, 1, n) \o After(u, n) = u
           /\ Len(SubSeq(u, 1, n)) = n
<1> DEFINE W == M \X Nat
<1>1. u \in Seq(W) /\ Len(u) \in Nat /\ \A i \in 1 .. Len(u) : u[i] \in W
  OBVIOUS
<1> HIDE DEF W
<1>2. SubSeq(u, 1, n) \in Seq(W) /\ Len(SubSeq(u, 1, n)) = n
  BY <1>1, SubSeqProperties
<1>3. SubSeq(u, n + 1, Len(u)) \in Seq(W)
  BY <1>1, SubSeqProperties
<1>4. SubSeq(u, 1, n) \o SubSeq(u, n + 1, Len(u)) = SubSeq(u, 1, Len(u))
  <2>1. 1 \in 1 .. Len(u) + 1 /\ n \in 1 - 1 .. Len(u) /\ Len(u) \in n .. Len(u)
    BY <1>1
  <2> QED
    BY <1>1, <2>1, ConcatAdjacentSubSeq
<1>5. SubSeq(u, 1, Len(u)) = u
  BY <1>1, SubSeqFull
<1> QED
  BY <1>2, <1>3, <1>4, <1>5 DEF After, W

LEMMA ReportsTyped ==
    ASSUME NEW r \in Orders, NEW res,
           res.id \in Nat, res.trades \in Seq(MEP!Trade)
    PROVE  /\ Reports(r, res) \in Seq(Reply) /\ Status(r, res) \in Seq(Reply)
           /\ Len(Reports(r, res)) = Len(res.trades)
<1> DEFINE qtys == [k \in DOMAIN res.trades |-> res.trades[k].qty]
<1>1. /\ Len(res.trades) \in Nat /\ DOMAIN res.trades = 1 .. Len(res.trades)
      /\ \A k \in 1 .. Len(res.trades) : res.trades[k] \in MEP!Trade
  OBVIOUS
<1>2. \A k \in 1 .. Len(res.trades) : res.trades[k].qty \in Nat
  BY <1>1 DEF MEP!Trade
<1>3. qtys \in Seq(Int)
  <2>1. qtys \in [1 .. Len(res.trades) -> Int]
    BY <1>1, <1>2
  <2> HIDE DEF qtys
  <2> QED
    BY <1>1, <2>1
<1>4. ME!SumOf(qtys) \in Int
  <2> HIDE DEF qtys
  <2> QED
    BY <1>3, MEP!SumPartial, EngineConstants, SameSum
<1>5. r.total_qty \in Nat
  <2>1. r \in ME!Request /\ Qty \subseteq 0 .. (QMod - 1) /\ QMod \in Nat
    BY OrderEntryAssumption
  <2>2. r.total_qty \in Qty
    BY <2>1 DEF ME!Request
  <2>3. r.total_qty \in 0 .. (QMod - 1)
    BY <2>1, <2>2, Zenon
  <2>4. \A x \in 0 .. (QMod - 1) : x \in Nat
    BY <2>1
  <2> QED
    BY <2>3, <2>4, Zenon
<1> DEFINE t == ME!SumOf(qtys)
           rest == IF r.total_qty > t THEN r.total_qty - t ELSE 0
<1>6. rest \in Nat
  <2> HIDE DEF t
  <2>1. t \in Int
    BY <1>4 DEF t
  <2> QED
    BY <1>5, <2>1
<1>7. Reports(r, res) = [k \in 1 .. Len(res.trades) |-> Execution(res.id, res.trades[k].qty, rest)]
  BY <1>1 DEF Reports
<1> HIDE DEF rest
<1>8. \A k \in 1 .. Len(res.trades) : Execution(res.id, res.trades[k].qty, rest) \in Reply
  BY <1>2, <1>6, RepliesTyped
<1>9. Reports(r, res) \in Seq(Reply) /\ Len(Reports(r, res)) = Len(res.trades)
  <2>1. Reports(r, res) \in [1 .. Len(res.trades) -> Reply]
    BY <1>7, <1>8
  <2> QED
    BY <1>1, <2>1
<1>10. /\ Reject(res.id, "POST_ONLY_CROSSED") \in Reply /\ Reject(res.id, "FOK_INSUFFICIENT") \in Reply
       /\ Accepted(res.id, r.total_qty) \in Reply
  BY <1>5, RepliesTyped DEF Reason
<1>11. Status(r, res) \in Seq(Reply)
  BY <1>10 DEF Status
<1> QED
  BY <1>9, <1>11

-----------------------------------------------------------------------------
(* The engine behind the server *)

EngineUnmoved ==
    \/ \E c \in Client : \/ Receive(c) \/ Timeout(c) \/ PrintResponse(c)
                         \/ \E m \in Message : Enter(c, m)
    \/ HandleInvalid \/ HandleIgnored \/ ReplyNewOrder \/ UNCHANGED vars

LEMMA EngineUnchanged ==
    ASSUME EngineUnmoved
    PROVE  UNCHANGED engine
BY DEF EngineUnmoved, Receive, Timeout, PrintResponse, Enter, HandleInvalid, HandleIgnored,
       ReplyNewOrder, vars

LEMMA UnmovedVars ==
    ASSUME UNCHANGED engine
    PROVE  UNCHANGED MEP!vars /\ UNCHANGED ME!vars
BY DEF engine, MEP!vars, MEP!book, MEP!bergs, MEP!call, MEP!tape, MEP!hist,
       ME!vars, ME!book, ME!bergs, ME!call, ME!tape, ME!hist

LEMMA StepKinds ==
    ASSUME [Next]_vars
    PROVE  EngineUnmoved \/ HandleNewOrder \/ HandleCancel \/ EngineRuns
BY Zenon DEF Next, Server, EngineUnmoved

(* What the server takes the front of a read for is a message of a user.   *)
LEMMA ReadingsAreMessages ==
    ASSUME NetType, buf # <<>>
    PROVE  Readings \subseteq Message
<1>1. buf \in Seq(Message \X Nat)
  BY DEF NetType
<1>2. Head(buf) \in Message \X Nat
  BY <1>1, HeadTailProperties
<1> QED
  BY <1>2 DEF Readings

LEMMA EngineMoves ==
    ASSUME NetType, [Next]_vars
    PROVE  [MEP!Next]_(MEP!vars)
<1>1. CASE EngineUnmoved
  BY <1>1, EngineUnchanged, UnmovedVars
<1>2. CASE HandleNewOrder
  <2>1. PICK m \in Readings : m.type = "NEW_ORDER" /\ ME!SubmitOrder(m.order)
    BY <1>2 DEF HandleNewOrder
  <2>2. buf # <<>>
    BY <1>2 DEF HandleNewOrder
  <2>3. m.order \in ME!Request
    BY <2>1, <2>2, ReadingsAreMessages, MessageKinds, OrderEntryAssumption
  <2>4. m.order \in MEP!Request /\ MEP!SubmitOrder(m.order)
    BY <2>1, <2>3, SameRequest, SameSubmit, Zenon
  <2> QED
    BY <2>4, Zenon DEF MEP!Next, MEP!Submit
<1>3. CASE HandleCancel
  <2>1. PICK m \in Readings : m.type = "CANCEL" /\ ME!CancelOrder(m.id)
    BY <1>3 DEF HandleCancel
  <2>2. buf # <<>>
    BY <1>3 DEF HandleCancel
  <2>3. m.id \in ME!Id
    BY <2>1, <2>2, ReadingsAreMessages, MessageKinds, OrderEntryAssumption
  <2>4. m.id \in MEP!Id /\ MEP!CancelOrder(m.id)
    BY <2>1, <2>3, SameCancel, Zenon DEF ME!Id, MEP!Id
  <2> QED
    BY <2>4, Zenon DEF MEP!Next
<1>4. CASE EngineRuns
  <2>1. MEP!Engine
    BY <1>4, SameEngine, Zenon DEF EngineRuns
  <2> QED
    BY <2>1, Zenon DEF MEP!Next
<1> QED
  BY <1>1, <1>2, <1>3, <1>4, StepKinds, Zenon

Base == MEP!IInv /\ NetType

LEMMA BaseInit == Init => Base
<1> SUFFICES ASSUME Init PROVE Base
  OBVIOUS
<1>1. MEP!IInv
  <2>1. MEP!Init
    BY SameInit, Zenon DEF Init
  <2> QED
    BY <2>1, EngineConstants, MEP!InitInv
<1>2. NetType
  <2>1. /\ <<>> \in Seq(Message \X Nat) /\ <<>> \in Seq(Reply \X Nat)
        /\ <<>> \in Seq(Message) /\ <<>> \in Seq(Reply)
    BY EmptySeq
  <2> QED
    BY <2>1 DEF Init, NetType
<1> QED
  BY <1>1, <1>2 DEF Base

(* What a reader of a reply needs of the engine's types.                   *)
LEMMA ResultTyped ==
    ASSUME MEP!IInv
    PROVE  /\ result.id \in Nat /\ result.trades \in Seq(MEP!Trade)
           /\ result.id \in MEP!Id \cup {0}
           /\ trades \in Seq(MEP!Trade) /\ remaining \in Nat
           /\ order \in [MEP!Id -> MEP!Order] /\ took \in [MEP!Id -> Nat]
           /\ next_order_id_ \in 1 .. (MaxOrders + 1)
           /\ taker \in MEP!Id \cup {0}
<1>1. MEP!TypeOK
  BY Zenon DEF MEP!IInv
<1>2. \A i \in MEP!Id \cup {0} : i \in Nat
  BY DEF MEP!Id
<1>3. /\ result.trades \in Seq(MEP!Trade) /\ result.id \in MEP!Id \cup {0}
      /\ trades \in Seq(MEP!Trade) /\ remaining \in Nat
      /\ order \in [MEP!Id -> MEP!Order] /\ took \in [MEP!Id -> Nat]
      /\ next_order_id_ \in 1 .. (MaxOrders + 1)
      /\ taker \in MEP!Id \cup {0}
  BY <1>1, Zenon DEF MEP!TypeOK
<1> QED
  BY <1>2, <1>3, Zenon

(* The server answers client fd, whatever the answers are.                 *)
LEMMA SendTyped ==
    ASSUME NetType, NEW replies \in Seq(Reply), Send(fd, replies)
    PROVE  /\ toClient' \in [Client -> Seq(Reply \X Nat)]
           /\ answers' \in [Client -> Seq(Reply)]
           /\ toClient' = [toClient EXCEPT ![fd] = @ \o UnitsOf(replies)]
           /\ answers' = [answers EXCEPT ![fd] = @ \o replies]
<1> DEFINE W == Reply \X Nat
<1>1. UnitsOf(replies) \in Seq(W)
  BY ReplySizes, UnitsOfType
<1>2. fd \in Client /\ toClient \in [Client -> Seq(W)] /\ answers \in [Client -> Seq(Reply)]
  BY DEF NetType
<1>3. toClient' = [toClient EXCEPT ![fd] = @ \o UnitsOf(replies)]
  BY DEF Send
<1>4. answers' = [answers EXCEPT ![fd] = @ \o replies]
  BY DEF Send
<1> HIDE DEF W
<1>5. toClient[fd] \o UnitsOf(replies) \in Seq(W) /\ answers[fd] \o replies \in Seq(Reply)
  BY <1>1, <1>2, ConcatProperties
<1> QED
  BY <1>2, <1>3, <1>4, <1>5 DEF W

(* ... and moves on by one message.                                        *)
LEMMA HandleTyped ==
    ASSUME NetType, buf # <<>>, NEW m \in Readings, Handle(m)
    PROVE  /\ m \in Message
           /\ Size(m) \in Nat \ {0} /\ Size(m) <= Len(buf)
           /\ buf' = After(buf, Size(m)) /\ buf' \in Seq(Message \X Nat)
           /\ handled' = [handled EXCEPT ![fd] = Append(@, m)]
           /\ handled' \in [Client -> Seq(Message)]
           /\ UNCHANGED <<fd, toServer, client, cut>>
<1>1. m \in Message
  BY ReadingsAreMessages
<1>2. Size(m) \in Nat \ {0}
  BY <1>1, MessageSizes DEF HasSizes
<1>3. buf \in Seq(Message \X Nat) /\ fd \in Client /\ handled \in [Client -> Seq(Message)]
  BY DEF NetType
<1>4. Size(m) <= Len(buf)
  BY <1>2, <1>3 DEF Handle
<1>5. After(buf, Size(m)) \in Seq(Message \X Nat)
  BY <1>2, <1>3, <1>4, ReadTyped
<1>6. Append(handled[fd], m) \in Seq(Message)
  BY <1>1, <1>3, AppendProperties
<1>7. handled' = [handled EXCEPT ![fd] = Append(@, m)]
  BY DEF Handle
<1>8. handled' \in [Client -> Seq(Message)]
  BY <1>3, <1>6, <1>7
<1> QED
  BY <1>1, <1>2, <1>4, <1>5, <1>7, <1>8 DEF Handle

(* One recv of a client: u is read, of which read is printed.              *)
Reads(c, n, u, read) ==
    /\ n \in 1 .. Len(toClient[c])
    /\ u = SubSeq(toClient[c], 1, n)
    /\ \/ AtStart(u) /\ read = WholeIn(u)
       \/ ~AtStart(u)
    /\ read \in Seq(Reply)
    /\ printed' = [printed EXCEPT ![c] = @ \o read]
    /\ cut' = IF UnitsOf(read) = u THEN cut ELSE cut \cup {c}
    /\ toClient' = [toClient EXCEPT ![c] = After(@, n)]
    /\ UNCHANGED <<engine, toServer, server, asked>>

LEMMA PrintReads ==
    ASSUME NetType, NEW c \in Client, PrintResponse(c)
    PROVE  \E n, u, read : Reads(c, n, u, read)
<1> DEFINE s == toClient[c]
<1>1. s \in Seq(Reply \X Nat) /\ Len(s) \in Nat /\ PrintBuf \in Nat
  BY OrderEntryAssumption DEF NetType
<1>2. PICK n \in 1 .. ME!MinOf(Len(s), PrintBuf) :
        \E k \in IF AtStart(SubSeq(s, 1, n)) THEN {0} ELSE 1 .. n :
          LET u == SubSeq(s, 1, n)
              read == IF AtStart(After(u, k)) THEN WholeIn(After(u, k)) ELSE <<>>
          IN  /\ printed' = [printed EXCEPT ![c] = @ \o read]
              /\ cut' = IF UnitsOf(read) = u THEN cut ELSE cut \cup {c}
              /\ toClient' = [toClient EXCEPT ![c] = After(@, n)]
  BY Zenon DEF PrintResponse
<1> DEFINE u == SubSeq(s, 1, n)
<1>3. PICK k \in IF AtStart(u) THEN {0} ELSE 1 .. n :
          LET read == IF AtStart(After(u, k)) THEN WholeIn(After(u, k)) ELSE <<>>
          IN  /\ printed' = [printed EXCEPT ![c] = @ \o read]
              /\ cut' = IF UnitsOf(read) = u THEN cut ELSE cut \cup {c}
              /\ toClient' = [toClient EXCEPT ![c] = After(@, n)]
  BY <1>2, Zenon
<1> DEFINE read == IF AtStart(After(u, k)) THEN WholeIn(After(u, k)) ELSE <<>>
<1>4. n \in 1 .. Len(s) /\ n \in Nat /\ n <= Len(s)
  BY <1>1 DEF ME!MinOf
<1>5. u \in Seq(Reply \X Nat) /\ Len(u) = n
  BY <1>1, <1>4, ReadTyped
<1>6. k \in Nat /\ k <= Len(u)
  BY <1>3, <1>4, <1>5
<1>7. After(u, k) \in Seq(Reply \X Nat)
  <2> HIDE DEF u
  <2> QED
    BY <1>5, <1>6, ReadTyped
<1>8. read \in Seq(Reply)
  <2> HIDE DEF u
  <2> QED
    BY <1>7, WholeInType, EmptySeq
<1>9. AtStart(u) => read = WholeIn(u)
  <2> HIDE DEF u
  <2> SUFFICES ASSUME AtStart(u) PROVE read = WholeIn(u)
    OBVIOUS
  <2>1. k = 0
    BY <1>3
  <2>2. After(u, 0) = u
    <3>1. SubSeq(u, 1, Len(u)) = u /\ 0 + 1 = 1
      BY <1>5, SubSeqFull
    <3> QED
      BY <3>1 DEF After
  <2> QED
    BY <2>1, <2>2
<1>10. /\ printed' = [printed EXCEPT ![c] = @ \o read]
       /\ cut' = IF UnitsOf(read) = u THEN cut ELSE cut \cup {c}
       /\ toClient' = [toClient EXCEPT ![c] = After(@, n)]
  BY <1>3, Zenon
<1>11. UNCHANGED <<engine, toServer, server, asked>>
  BY DEF PrintResponse
<1>12. Reads(c, n, u, read)
  <2> HIDE DEF read, u
  <2>1. u = SubSeq(toClient[c], 1, n)
    BY DEF u
  <2> QED
    BY <1>4, <1>8, <1>9, <1>10, <1>11, <2>1, Zenon DEF Reads
<1> QED
  BY <1>12, Zenon

LEMMA UnmovedTyped ==
    ASSUME NetType, EngineUnmoved, ~HandleInvalid, ~ReplyNewOrder
    PROVE  NetType'
<1>0. /\ toServer \in [Client -> Seq(Message \X Nat)]
      /\ toClient \in [Client -> Seq(Reply \X Nat)]
      /\ fd \in Client /\ buf \in Seq(Message \X Nat)
      /\ asked \in [Client -> Seq(Message)] /\ handled \in [Client -> Seq(Message)]
      /\ printed \in [Client -> Seq(Reply)]
  BY DEF NetType
<1>1. ASSUME NEW c \in Client, Receive(c)
      PROVE  NetType'
  <2> DEFINE s == toServer[c]
  <2>1. s \in Seq(Message \X Nat) /\ Len(s) \in Nat /\ RecvBuf \in Nat
    BY <1>0, OrderEntryAssumption
  <2>2. PICK n \in 1 .. ME!MinOf(Len(s), RecvBuf) :
            buf' = SubSeq(s, 1, n) /\ toServer' = [toServer EXCEPT ![c] = After(@, n)]
    BY <1>1 DEF Receive
  <2>3. n \in Nat /\ n <= Len(s)
    BY <2>1 DEF ME!MinOf
  <2>4. SubSeq(s, 1, n) \in Seq(Message \X Nat) /\ After(s, n) \in Seq(Message \X Nat)
    BY <2>1, <2>3, ReadTyped
  <2>5. toServer' \in [Client -> Seq(Message \X Nat)]
    BY <1>0, <2>2, <2>4
  <2>6. fd' = c /\ UNCHANGED <<toClient, handling, handled, answers, owner, asked, printed>>
    BY <1>1 DEF Receive, client
  <2> QED
    BY <2>2, <2>4, <2>5, <2>6 DEF NetType
<1>2. ASSUME NEW c \in Client, Timeout(c)
      PROVE  NetType'
  BY <1>2 DEF Timeout, NetType, server
<1>3. ASSUME NEW c \in Client, PrintResponse(c)
      PROVE  NetType'
  <2>1. PICK n, u, read : Reads(c, n, u, read)
    BY <1>3, PrintReads
  <2>2. toClient[c] \in Seq(Reply \X Nat) /\ n \in Nat /\ n <= Len(toClient[c])
    BY <1>0, <2>1 DEF Reads
  <2>3. After(toClient[c], n) \in Seq(Reply \X Nat)
    BY <2>2, ReadTyped
  <2>4. printed[c] \o read \in Seq(Reply)
    BY <1>0, <2>1, ConcatProperties DEF Reads
  <2>5. toClient' = [toClient EXCEPT ![c] = After(@, n)] /\ printed' = [printed EXCEPT ![c] = @ \o read]
    BY <2>1 DEF Reads
  <2>6. toClient' \in [Client -> Seq(Reply \X Nat)]
    BY <1>0, <2>3, <2>5
  <2>7. printed' \in [Client -> Seq(Reply)]
    BY <1>0, <2>4, <2>5
  <2>8. UNCHANGED <<toServer, fd, buf, handling, handled, answers, owner, asked>>
    BY <2>1 DEF Reads, server
  <2> QED
    BY <2>6, <2>7, <2>8 DEF NetType
<1>4. ASSUME NEW c \in Client, NEW m \in Message, Enter(c, m)
      PROVE  NetType'
  <2>1. Units(m) \in Seq(Message \X Nat)
    BY MessageSizes, UnitsType
  <2> DEFINE W == Message \X Nat
  <2>2. toServer[c] \o Units(m) \in Seq(W)
    <3>1. toServer[c] \in Seq(W) /\ Units(m) \in Seq(W)
      BY <1>0, <2>1
    <3> HIDE DEF W
    <3> QED
      BY <3>1, ConcatProperties
  <2>3. Append(asked[c], m) \in Seq(Message)
    BY <1>0, AppendProperties
  <2>4. toServer' = [toServer EXCEPT ![c] = @ \o Units(m)] /\ asked' = [asked EXCEPT ![c] = Append(@, m)]
    BY <1>4 DEF Enter
  <2>5. toServer' \in [Client -> Seq(W)]
    BY <1>0, <2>2, <2>4
  <2>6. asked' \in [Client -> Seq(Message)]
    BY <1>0, <2>3, <2>4
  <2>7. UNCHANGED <<toClient, fd, buf, handling, handled, answers, owner, printed>>
    BY <1>4 DEF Enter, server
  <2> QED
    BY <2>5, <2>6, <2>7 DEF NetType
<1>5. CASE HandleIgnored
  <2>1. PICK n \in {ExecutionSize, RejectSize, AcceptedSize, MarketDataSize} :
            n <= Len(buf) /\ buf' = After(buf, n)
    BY <1>5 DEF HandleIgnored
  <2>2. n \in Nat
    BY OrderEntryAssumption
  <2>3. buf' \in Seq(Message \X Nat)
    BY <1>0, <2>1, <2>2, ReadTyped
  <2>4. UNCHANGED <<toServer, toClient, fd, handling, handled, answers, owner, asked, printed>>
    BY <1>5 DEF HandleIgnored, client
  <2> QED
    BY <2>3, <2>4 DEF NetType
<1>6. CASE UNCHANGED vars
  BY <1>6 DEF vars, server, client, NetType
<1> QED
  BY <1>1, <1>2, <1>3, <1>4, <1>5, <1>6 DEF EngineUnmoved

(* What the server sends on a step of its own                              *)
LEMMA RejectsInvalid ==
    ASSUME NetType, HandleInvalid
    PROVE  <<Reject(0, "INVALID_MESSAGE")>> \in Seq(Reply)
<1>1. Reject(0, "INVALID_MESSAGE") \in Reply
  BY RepliesTyped DEF Reason
<1> QED
  BY <1>1

LEMMA AnswersOrder ==
    ASSUME Base, ReplyNewOrder
    PROVE  \E r \in Orders :
               /\ handling = NewOrder(r) /\ handling.order = r
               /\ Reports(r, result) \in Seq(Reply) /\ Status(r, result) \in Seq(Reply)
               /\ Reports(r, result) \o Status(r, result) \in Seq(Reply)
               /\ Send(fd, Reports(r, result) \o Status(r, result))
<1>1. PICK r \in Orders : handling = NewOrder(r)
  BY DEF Base, NetType, ReplyNewOrder
<1>2. handling.order = r
  BY <1>1 DEF NewOrder
<1>3. result.id \in Nat /\ result.trades \in Seq(MEP!Trade)
  BY ResultTyped DEF Base
<1>4. Reports(r, result) \in Seq(Reply) /\ Status(r, result) \in Seq(Reply)
  BY <1>3, ReportsTyped
<1>5. Reports(r, result) \o Status(r, result) \in Seq(Reply)
  BY <1>4, ConcatProperties
<1>6. Send(fd, Reports(r, result) \o Status(r, result))
  BY <1>2 DEF ReplyNewOrder
<1> QED
  BY <1>1, <1>2, <1>4, <1>5, <1>6

CancelReply(m, yes) ==
    <<IF yes THEN Accepted(m.id, 0) ELSE Reject(m.id, "UNKNOWN_ORDER")>>

LEMMA AnswersCancel ==
    ASSUME NetType, HandleCancel
    PROVE  \E m \in Readings :
               /\ buf # <<>> /\ m.type = "CANCEL" /\ Handle(m)
               /\ \E yes \in BOOLEAN : /\ CancelReply(m, yes) \in Seq(Reply)
                                       /\ Send(fd, CancelReply(m, yes))
<1>1. PICK m \in Readings :
        /\ m.type = "CANCEL" /\ Handle(m)
        /\ Send(fd, <<IF result'.status = "CancelTrue" THEN Accepted(m.id, 0)
                                                       ELSE Reject(m.id, "UNKNOWN_ORDER")>>)
  BY DEF HandleCancel
<1>2. buf # <<>>
  BY DEF HandleCancel
<1>3. m.id \in Nat
  <2>1. m.id \in ME!Id
    BY <1>1, <1>2, ReadingsAreMessages, MessageKinds, OrderEntryAssumption
  <2> QED
    BY <2>1 DEF ME!Id
<1>4. Accepted(m.id, 0) \in Reply /\ Reject(m.id, "UNKNOWN_ORDER") \in Reply
  BY <1>3, RepliesTyped DEF Reason
<1> DEFINE yes == result'.status = "CancelTrue"
<1>5. yes \in BOOLEAN /\ Send(fd, CancelReply(m, yes))
  BY <1>1 DEF CancelReply
<1>6. CancelReply(m, yes) \in Seq(Reply)
  <2> HIDE DEF yes
  <2> QED
    BY <1>4 DEF CancelReply
<1> QED
  BY <1>1, <1>2, <1>5, <1>6

LEMMA BaseNext == Base /\ [Next]_vars => Base'
<1> SUFFICES ASSUME Base, [Next]_vars PROVE Base'
  OBVIOUS
<1>0. NetType
  BY DEF Base
<1>1. MEP!IInv'
  <2>1. [MEP!Next]_(MEP!vars)
    BY <1>0, EngineMoves
  <2>2. MEP!IInv /\ [MEP!Next]_(MEP!vars) => MEP!IInv'
    BY EngineConstants, MEP!NextInv
  <2> QED
    BY <2>1, <2>2 DEF Base
<1>2. CASE EngineUnmoved /\ ~HandleInvalid /\ ~ReplyNewOrder
  BY <1>0, <1>1, <1>2, UnmovedTyped DEF Base
<1>3. CASE HandleInvalid
  <2>1. Send(fd, <<Reject(0, "INVALID_MESSAGE")>>) /\ buf' = <<>>
    BY <1>3 DEF HandleInvalid
  <2>2. toClient' \in [Client -> Seq(Reply \X Nat)] /\ answers' \in [Client -> Seq(Reply)]
    BY <1>0, <1>3, <2>1, RejectsInvalid, SendTyped
  <2>3. UNCHANGED <<toServer, fd, handling, handled, owner, asked, printed>>
    BY <1>3 DEF HandleInvalid, client
  <2>4. <<>> \in Seq(Message \X Nat)
    BY EmptySeq
  <2>5. NetType'
    BY <1>0, <2>1, <2>2, <2>3, <2>4 DEF NetType
  <2> QED
    BY <1>1, <2>5 DEF Base
<1>4. CASE ReplyNewOrder
  <2>1. toClient' \in [Client -> Seq(Reply \X Nat)] /\ answers' \in [Client -> Seq(Reply)]
    BY <1>0, <1>4, AnswersOrder, SendTyped
  <2>2. handling' = Nothing /\ UNCHANGED <<toServer, fd, buf, handled, owner, asked, printed>>
    BY <1>4 DEF ReplyNewOrder, client
  <2>3. NetType'
    BY <1>0, <2>1, <2>2 DEF NetType
  <2> QED
    BY <1>1, <2>3 DEF Base
<1>5. CASE HandleNewOrder
  <2>1. PICK m \in Readings : m.type = "NEW_ORDER" /\ Handle(m) /\ handling' = m
    BY <1>5 DEF HandleNewOrder
  <2>2. buf # <<>>
    BY <1>5 DEF HandleNewOrder
  <2>3. /\ m \in Message /\ buf' \in Seq(Message \X Nat)
        /\ handled' \in [Client -> Seq(Message)]
        /\ UNCHANGED <<fd, toServer, client>>
    BY <1>0, <2>1, <2>2, HandleTyped
  <2>4. UNCHANGED <<toClient, answers>> /\ owner' = [owner EXCEPT ![next_order_id_] = {fd}]
    BY <1>5 DEF HandleNewOrder
  <2>5. m.order \in Orders /\ m = NewOrder(m.order)
    BY <2>1, <2>3, MessageKinds
  <2>6. owner' \in [ME!Id -> SUBSET Client]
    BY <1>0, <2>4 DEF NetType
  <2>7. NetType'
    BY <1>0, <2>1, <2>3, <2>4, <2>5, <2>6 DEF NetType, client
  <2> QED
    BY <1>1, <2>7 DEF Base
<1>6. CASE HandleCancel
  <2>1. PICK m \in Readings : /\ buf # <<>> /\ m.type = "CANCEL" /\ Handle(m)
                              /\ \E yes \in BOOLEAN : /\ CancelReply(m, yes) \in Seq(Reply)
                                                      /\ Send(fd, CancelReply(m, yes))
    BY <1>0, <1>6, AnswersCancel
  <2>2. /\ buf' \in Seq(Message \X Nat)
        /\ handled' \in [Client -> Seq(Message)]
        /\ UNCHANGED <<fd, toServer, client>>
    BY <1>0, <2>1, HandleTyped
  <2>3. toClient' \in [Client -> Seq(Reply \X Nat)] /\ answers' \in [Client -> Seq(Reply)]
    BY <1>0, <2>1, SendTyped
  <2>4. UNCHANGED <<handling, owner>>
    BY <1>6 DEF HandleCancel
  <2>5. NetType'
    BY <1>0, <2>2, <2>3, <2>4 DEF NetType, client
  <2> QED
    BY <1>1, <2>5 DEF Base
<1>7. CASE EngineRuns
  <2>1. NetType'
    BY <1>0, <1>7 DEF EngineRuns, NetType, server, client
  <2> QED
    BY <1>1, <2>1 DEF Base
<1> QED
  BY <1>2, <1>3, <1>4, <1>5, <1>6, <1>7, StepKinds

(* The server's thread is the only one that calls the engine, and calls it *)
(* as MatchingEngine says: what is proved of MatchingEngine holds behind   *)
(* the sockets, also when messages are cut and misread.                    *)
THEOREM OrderEntryDrivesEngine == Spec => ME!Spec
<1>1. Init => ME!Init
  BY DEF Init
<1>2. Base /\ [Next]_vars => [ME!Next]_(ME!vars)
  <2>1. MEP!Next => ME!Next \/ MEP!ClearRecentTrades
    BY SameSubmit, SameRequest, SameEngine, SameCancel, Zenon
       DEF MEP!Next, ME!Next, MEP!Submit, ME!Submit, MEP!Id, ME!Id
  <2>2. MEP!ClearRecentTrades => ME!ClearRecentTrades
    BY Zenon DEF MEP!ClearRecentTrades, ME!ClearRecentTrades, MEP!book, ME!book,
       MEP!bergs, ME!bergs, MEP!call, ME!call, MEP!hist, ME!hist
  <2>3. UNCHANGED MEP!vars => UNCHANGED ME!vars
    BY DEF MEP!vars, MEP!book, MEP!bergs, MEP!call, MEP!tape, MEP!hist,
           ME!vars, ME!book, ME!bergs, ME!call, ME!tape, ME!hist
  <2>4. Base /\ [Next]_vars => [MEP!Next]_(MEP!vars)
    BY EngineMoves DEF Base
  <2> QED
    BY <2>1, <2>2, <2>3, <2>4, Zenon DEF ME!Next
<1> QED
  BY <1>1, <1>2, BaseInit, BaseNext, PTL DEF Spec, ME!Spec

-----------------------------------------------------------------------------
(* In order, and once *)

(* What of client c is on its way to processMessage                        *)
Coming(c) == (IF fd = c THEN buf ELSE <<>>) \o toServer[c]

(* It is whole messages, those that follow the handled ones: stronger than *)
(* HandledInOrder, which does not say that nothing lies between them.      *)
CommandsLeft(c) ==
    \E rest \in Seq(Message) : Coming(c) = UnitsOf(rest) /\ handled[c] \o rest = asked[c]
CommandsInv == \A c \in Client \ cut : CommandsLeft(c)

RepliesLeft(c) ==
    \E rest \in Seq(Reply) : toClient[c] = UnitsOf(rest) /\ printed[c] \o rest = answers[c]
RepliesInv == \A c \in Client \ cut : RepliesLeft(c)

LEMMA ComingTyped ==
    ASSUME NetType, NEW c \in Client
    PROVE  /\ Coming(c) \in Seq(Message \X Nat) /\ toServer[c] \in Seq(Message \X Nat)
           /\ handled[c] \in Seq(Message) /\ asked[c] \in Seq(Message)
<1> DEFINE W == Message \X Nat
           front == IF fd = c THEN buf ELSE <<>>
<1>1. /\ buf \in Seq(W) /\ toServer[c] \in Seq(W) /\ <<>> \in Seq(W)
      /\ handled[c] \in Seq(Message) /\ asked[c] \in Seq(Message)
  BY EmptySeq DEF NetType
<1> HIDE DEF W
<1>2. front \in Seq(W)
  BY <1>1
<1>3. front \o toServer[c] \in Seq(W)
  <2> HIDE DEF front
  <2> QED
    BY <1>1, <1>2, ConcatProperties
<1> QED
  BY <1>1, <1>3 DEF Coming, W

(* A client that a step leaves alone                                       *)
LEMMA ComingSame ==
    ASSUME NEW c, CommandsLeft(c), Coming(c)' = Coming(c), handled'[c] = handled[c],
           asked'[c] = asked[c]
    PROVE  CommandsLeft(c)'
BY DEF CommandsLeft

LEMMA RepliesSame ==
    ASSUME NEW c, RepliesLeft(c), toClient'[c] = toClient[c], printed'[c] = printed[c],
           answers'[c] = answers[c]
    PROVE  RepliesLeft(c)'
BY DEF RepliesLeft

(* The message at the front of a read is the next one.                     *)
LEMMA NextOfRead ==
    ASSUME NetType, buf # <<>>, CommandsLeft(fd)
    PROVE  /\ AtStart(buf)
           /\ \E m \in Message, rest \in Seq(Message) :
                 /\ Readings = {m}
                 /\ Coming(fd) = Units(m) \o UnitsOf(rest)
                 /\ handled[fd] \o (<<m>> \o rest) = asked[fd]
<1>1. PICK all \in Seq(Message) : Coming(fd) = UnitsOf(all) /\ handled[fd] \o all = asked[fd]
  BY DEF CommandsLeft
<1>2. buf \in Seq(Message \X Nat) /\ fd \in Client /\ toServer[fd] \in Seq(Message \X Nat)
  BY DEF NetType
<1> DEFINE W == Message \X Nat
<1>3. Len(buf) >= 1 /\ Len(buf) \in Nat
  BY <1>2
<1>4. Coming(fd)[1] = buf[1] /\ Coming(fd) # <<>>
  <2>1. Coming(fd) = buf \o toServer[fd]
    BY DEF Coming
  <2>2. buf \in Seq(W) /\ toServer[fd] \in Seq(W)
    BY <1>2
  <2> HIDE DEF W
  <2>3. Len(toServer[fd]) \in Nat /\ Len(<<>>) = 0
    BY <2>2
  <2>4. 1 \in 1 .. (Len(buf) + Len(toServer[fd])) /\ Len(buf) + Len(toServer[fd]) # 0
    BY <1>3, <2>3
  <2>5. /\ Len(buf \o toServer[fd]) = Len(buf) + Len(toServer[fd])
        /\ (buf \o toServer[fd])[1] = buf[1]
    BY <1>3, <2>2, <2>4, ConcatProperties
  <2> QED
    BY <2>1, <2>3, <2>4, <2>5
<1>5. PICK m \in Message, rest \in Seq(Message) :
          /\ all = <<m>> \o rest
          /\ UnitsOf(all) = Units(m) \o UnitsOf(rest)
          /\ UnitsOf(all)[1] = <<m, 1>>
  BY <1>1, <1>4, MessageSizes, FirstUnits
<1>6. Head(buf) = <<m, 1>>
  BY <1>1, <1>2, <1>3, <1>4, <1>5
<1>7. AtStart(buf) /\ Readings = {m}
  BY <1>6 DEF AtStart, Readings
<1> QED
  BY <1>1, <1>5, <1>7

(* The server takes it.                                                    *)
LEMMA HandleMovesOn ==
    ASSUME NetType, buf # <<>>, NEW m \in Readings, Handle(m), CommandsLeft(fd)
    PROVE  CommandsLeft(fd)'
<1>1. /\ m \in Message /\ Size(m) \in Nat \ {0} /\ Size(m) <= Len(buf)
      /\ buf' = After(buf, Size(m))
      /\ handled' = [handled EXCEPT ![fd] = Append(@, m)]
      /\ UNCHANGED <<fd, toServer, client>>
  BY HandleTyped
<1>2. PICK rest \in Seq(Message) : /\ Coming(fd) = Units(m) \o UnitsOf(rest)
                                   /\ handled[fd] \o (<<m>> \o rest) = asked[fd]
  BY NextOfRead
<1>3. /\ buf \in Seq(Message \X Nat) /\ fd \in Client /\ toServer[fd] \in Seq(Message \X Nat)
      /\ handled \in [Client -> Seq(Message)] /\ handled[fd] \in Seq(Message)
  BY DEF NetType
<1> DEFINE front == SubSeq(buf, 1, Size(m))
           back == After(buf, Size(m))
<1>4. /\ front \in Seq(Message \X Nat) /\ back \in Seq(Message \X Nat)
      /\ front \o back = buf /\ Len(front) = Size(m)
  BY <1>1, <1>3, ReadTyped
<1>5. /\ Units(m) \in Seq(Message \X Nat) /\ Len(Units(m)) = Size(m)
      /\ UnitsOf(rest) \in Seq(Message \X Nat)
  BY <1>1, MessageSizes, UnitsType, UnitsOfType
<1> HIDE DEF front, back
<1> DEFINE W == Message \X Nat
<1>6. front \o (back \o toServer[fd]) = Units(m) \o UnitsOf(rest)
  <2>1. front \in Seq(W) /\ back \in Seq(W) /\ toServer[fd] \in Seq(W)
    BY <1>3, <1>4
  <2>2. Coming(fd) = buf \o toServer[fd]
    BY DEF Coming
  <2> HIDE DEF W
  <2>3. \A t \in Seq(W) : (front \o back) \o t = front \o (back \o t)
    BY <2>1, ConcatAssociative
  <2> QED
    BY <1>2, <1>4, <2>1, <2>2, <2>3
<1>7. back \o toServer[fd] = UnitsOf(rest)
  <2> DEFINE b == back \o toServer[fd]
  <2>1. /\ front \in Seq(W) /\ Units(m) \in Seq(W) /\ UnitsOf(rest) \in Seq(W)
        /\ back \in Seq(W) /\ toServer[fd] \in Seq(W)
    BY <1>3, <1>4, <1>5
  <2> HIDE DEF W
  <2>2. b \in Seq(W)
    BY <2>1, ConcatProperties
  <2>3. front \o b = Units(m) \o UnitsOf(rest)
    BY <1>6
  <2> HIDE DEF b
  <2>4. front = Units(m) /\ b = UnitsOf(rest)
    BY <1>4, <1>5, <2>1, <2>2, <2>3, SameLengthFront
  <2> QED
    BY <2>4 DEF b
<1>8. Coming(fd)' = UnitsOf(rest)
  BY <1>1, <1>7 DEF Coming, back
<1>9. handled'[fd] \o rest = asked'[fd]
  <2>1. <<m>> \in Seq(Message) /\ Append(handled[fd], m) = handled[fd] \o <<m>>
    BY <1>1, <1>3, AppendIsConcat
  <2>2. (handled[fd] \o <<m>>) \o rest = handled[fd] \o (<<m>> \o rest)
    BY <1>3, <2>1, ConcatAssociative
  <2>3. handled'[fd] = Append(handled[fd], m)
    BY <1>1, <1>3
  <2>4. asked' = asked
    BY <1>1 DEF client
  <2> QED
    BY <1>2, <2>1, <2>2, <2>3, <2>4
<1>10. fd' = fd
  BY <1>1
<1> QED
  BY <1>8, <1>9, <1>10 DEF CommandsLeft

LEMMA CommandsInit == Init => CommandsInv
<1> SUFFICES ASSUME Init, NEW c \in Client PROVE CommandsLeft(c)
  BY DEF CommandsInv
<1>1. Coming(c) = <<>> \o <<>> /\ handled[c] = <<>> /\ asked[c] = <<>>
  BY DEF Init, Coming
<1>2. <<>> \in Seq(Message) /\ <<>> \o <<>> = <<>>
  BY EmptySeq, ConcatEmptySeq
<1>3. UnitsOf(<<>>) = <<>>
  BY UnitsOfEmpty
<1> QED
  BY <1>1, <1>2, <1>3, Zenon DEF CommandsLeft

LEMMA CommandsNext == Base /\ CommandsInv /\ [Next]_vars => CommandsInv'
<1> SUFFICES ASSUME Base, CommandsInv, [Next]_vars, NEW c \in Client \ cut'
             PROVE  CommandsLeft(c)'
  BY DEF CommandsInv
<1>0. NetType /\ c \in Client
  BY DEF Base
<1>1. ASSUME NEW d \in Client, Receive(d)
      PROVE  CommandsLeft(c)'
  <2> DEFINE s == toServer[d]
  <2>1. buf = <<>> /\ fd' = d /\ UNCHANGED <<handled, asked, cut>>
    BY <1>1 DEF Receive, client
  <2>2. s \in Seq(Message \X Nat) /\ Len(s) \in Nat /\ RecvBuf \in Nat
    <3>1. toServer \in [Client -> Seq(Message \X Nat)]
      BY <1>0 DEF NetType
    <3>2. RecvBuf \in Nat
      BY OrderEntryAssumption
    <3> QED
      BY <3>1, <3>2
  <2>3. PICK n \in 1 .. ME!MinOf(Len(s), RecvBuf) :
            buf' = SubSeq(s, 1, n) /\ toServer' = [toServer EXCEPT ![d] = After(@, n)]
    BY <1>1 DEF Receive
  <2>4. n \in Nat /\ n <= Len(s)
    BY <2>2 DEF ME!MinOf
  <2>5. SubSeq(s, 1, n) \o After(s, n) = s
    BY <2>2, <2>4, ReadTyped
  <2>6. toServer \in [Client -> Seq(Message \X Nat)] /\ toServer[c] \in Seq(Message \X Nat)
    BY <1>0 DEF NetType
  <2>7. <<>> \o toServer[c] = toServer[c]
    BY <2>6, ConcatEmptySeq
  <2>8. Coming(c) = toServer[c]
    BY <2>1, <2>7 DEF Coming
  <2>9. CASE c = d
    <3>1. Coming(c)' = buf' \o toServer'[d]
      BY <2>1, <2>9 DEF Coming
    <3>2. toServer'[d] = After(s, n)
      BY <2>3, <2>6
    <3>3. Coming(c)' = s
      BY <2>3, <2>5, <3>1, <3>2
    <3> QED
      BY <2>1, <2>8, <2>9, <3>3, ComingSame DEF CommandsInv
  <2>10. CASE c # d
    <3>1. Coming(c)' = <<>> \o toServer'[c]
      BY <2>1, <2>10 DEF Coming
    <3>2. toServer'[c] = toServer[c]
      BY <2>3, <2>6, <2>10
    <3> QED
      BY <2>1, <2>7, <2>8, <3>1, <3>2, ComingSame DEF CommandsInv
  <2> QED
    BY <2>9, <2>10
<1>2. ASSUME NEW d \in Client, NEW m \in Message, Enter(d, m)
      PROVE  CommandsLeft(c)'
  <2>1. /\ toServer' = [toServer EXCEPT ![d] = @ \o Units(m)]
        /\ asked' = [asked EXCEPT ![d] = Append(@, m)]
        /\ UNCHANGED <<fd, buf, handled, cut>>
    BY <1>2 DEF Enter, server
  <2>2. toServer \in [Client -> Seq(Message \X Nat)] /\ asked \in [Client -> Seq(Message)]
    BY <1>0 DEF NetType
  <2>3. CASE c # d
    <3>1. toServer'[c] = toServer[c] /\ asked'[c] = asked[c]
      BY <2>1, <2>2, <2>3
    <3>2. Coming(c)' = Coming(c)
      BY <2>1, <3>1 DEF Coming
    <3> QED
      BY <2>1, <3>1, <3>2, ComingSame DEF CommandsInv
  <2>4. CASE c = d
    <3>1. PICK rest \in Seq(Message) : Coming(c) = UnitsOf(rest) /\ handled[c] \o rest = asked[c]
      BY <2>1 DEF CommandsInv, CommandsLeft
    <3>2. toServer'[c] = toServer[c] \o Units(m) /\ asked'[c] = Append(asked[c], m)
      BY <2>1, <2>2, <2>4
    <3> DEFINE W == Message \X Nat
               front == IF fd = c THEN buf ELSE <<>>
    <3>3. front \in Seq(W) /\ toServer[c] \in Seq(W) /\ Units(m) \in Seq(W)
      <4>1. buf \in Seq(W) /\ <<>> \in Seq(W)
        BY <1>0, EmptySeq DEF NetType
      <4>2. toServer[c] \in Seq(W)
        BY <1>0, <2>2
      <4>3. Units(m) \in Seq(W)
        BY MessageSizes, UnitsType
      <4> QED
        BY <4>1, <4>2, <4>3
    <3>4. Coming(c) = front \o toServer[c] /\ Coming(c)' = front \o (toServer[c] \o Units(m))
      BY <2>1, <3>2 DEF Coming
    <3>5. Coming(c)' = UnitsOf(Append(rest, m))
      <4> HIDE DEF W, front
      <4>1. (front \o toServer[c]) \o Units(m) = front \o (toServer[c] \o Units(m))
        <5>1. \A t \in Seq(W), x \in Seq(W) : (front \o t) \o x = front \o (t \o x)
          BY <3>3, ConcatAssociative
        <5> QED
          BY <3>3, <5>1
      <4>2. UnitsOf(Append(rest, m)) = UnitsOf(rest) \o Units(m)
        BY MessageSizes, UnitsOfAppend
      <4> QED
        BY <3>1, <3>4, <4>1, <4>2
    <3>6. handled[c] \in Seq(Message) /\ Append(rest, m) \in Seq(Message)
      BY <1>0, AppendProperties DEF NetType
    <3>7. handled[c] \o Append(rest, m) = Append(handled[c] \o rest, m)
      <4>1. \A h \in Seq(Message) : h \o Append(rest, m) = Append(h \o rest, m)
        OBVIOUS
      <4> QED
        BY <3>6, <4>1
    <3>8. handled'[c] \o Append(rest, m) = asked'[c]
      BY <2>1, <3>1, <3>2, <3>7
    <3> QED
      BY <3>5, <3>6, <3>8 DEF CommandsLeft
  <2> QED
    BY <2>3, <2>4
<1>3. ASSUME NEW m \in Readings, buf # <<>>, Handle(m)
      PROVE  CommandsLeft(c)'
  <2>1. /\ handled' = [handled EXCEPT ![fd] = Append(@, m)]
        /\ UNCHANGED <<fd, toServer, asked, cut>>
    BY <1>0, <1>3, HandleTyped DEF client
  <2>2. CASE c = fd
    BY <1>0, <1>3, <2>1, <2>2, HandleMovesOn DEF CommandsInv
  <2>3. CASE c # fd
    <3>0. handled \in [Client -> Seq(Message)]
      BY <1>0 DEF NetType
    <3>1. handled'[c] = handled[c]
      BY <1>0, <2>1, <2>3, <3>0
    <3>2. Coming(c)' = Coming(c)
      BY <2>1, <2>3 DEF Coming
    <3> QED
      BY <2>1, <3>1, <3>2, ComingSame DEF CommandsInv
  <2> QED
    BY <2>2, <2>3
<1>4. CASE HandleInvalid
  <2>1. c # fd /\ c \in Client \ cut /\ UNCHANGED <<fd, toServer, handled, asked>>
    BY <1>4 DEF HandleInvalid, client
  <2>2. Coming(c)' = Coming(c)
    BY <2>1 DEF Coming
  <2> QED
    BY <2>1, <2>2, ComingSame DEF CommandsInv
<1>5. CASE HandleIgnored
  <2>1. /\ buf # <<>> /\ ~AtStart(buf)
        /\ UNCHANGED <<toServer, fd, handled, asked, cut>>
    BY <1>5 DEF HandleIgnored, client
  <2>2. c # fd
    BY <1>0, <2>1, NextOfRead DEF CommandsInv
  <2>3. Coming(c)' = Coming(c)
    BY <2>1, <2>2 DEF Coming
  <2> QED
    BY <2>1, <2>3, ComingSame DEF CommandsInv
<1>6. ASSUME UNCHANGED <<toServer, fd, buf, handled, asked>>, cut \subseteq cut'
      PROVE  CommandsLeft(c)'
  <2>1. Coming(c)' = Coming(c)
    BY <1>6 DEF Coming
  <2> QED
    BY <1>6, <2>1, ComingSame DEF CommandsInv
<1>7. CASE HandleNewOrder
  BY <1>3, <1>7 DEF HandleNewOrder
<1>8. CASE HandleCancel
  BY <1>3, <1>8 DEF HandleCancel
<1>9. CASE EngineRuns \/ ReplyNewOrder \/ UNCHANGED vars \/ \E d \in Client : Timeout(d)
  BY <1>6, <1>9 DEF EngineRuns, ReplyNewOrder, Timeout, vars, server, client
<1>10. ASSUME NEW d \in Client, PrintResponse(d)
       PROVE  CommandsLeft(c)'
  <2>1. PICK n, u, read : Reads(d, n, u, read)
    BY <1>0, <1>10, PrintReads
  <2> QED
    BY <1>6, <2>1 DEF Reads, server
<1> QED
  BY <1>1, <1>2, <1>4, <1>5, <1>7, <1>8, <1>9, <1>10, StepKinds DEF EngineUnmoved

LEMMA RepliesInit == Init => RepliesInv
<1> SUFFICES ASSUME Init, NEW c \in Client PROVE RepliesLeft(c)
  BY DEF RepliesInv
<1>1. toClient[c] = <<>> /\ printed[c] = <<>> /\ answers[c] = <<>>
  BY DEF Init
<1>2. <<>> \in Seq(Reply) /\ <<>> \o <<>> = <<>>
  BY EmptySeq, ConcatEmptySeq
<1>3. UnitsOf(<<>>) = <<>>
  BY UnitsOfEmpty
<1> QED
  BY <1>1, <1>2, <1>3, Zenon DEF RepliesLeft

(* What is sent follows what was sent before.                              *)
LEMMA SendFollows ==
    ASSUME NetType, NEW replies \in Seq(Reply), Send(fd, replies), printed' = printed,
           NEW c \in Client, RepliesLeft(c)
    PROVE  RepliesLeft(c)'
<1>1. /\ toClient' = [toClient EXCEPT ![fd] = @ \o UnitsOf(replies)]
      /\ answers' = [answers EXCEPT ![fd] = @ \o replies]
  BY SendTyped
<1>2. /\ fd \in Client /\ toClient \in [Client -> Seq(Reply \X Nat)]
      /\ answers \in [Client -> Seq(Reply)] /\ printed[c] \in Seq(Reply)
  BY DEF NetType
<1>3. CASE c # fd
  BY <1>1, <1>2, <1>3, RepliesSame
<1>4. CASE c = fd
  <2>1. PICK rest \in Seq(Reply) : toClient[c] = UnitsOf(rest) /\ printed[c] \o rest = answers[c]
    BY DEF RepliesLeft
  <2>2. UnitsOf(rest \o replies) = UnitsOf(rest) \o UnitsOf(replies) /\ rest \o replies \in Seq(Reply)
    BY ReplySizes, UnitsOfConcat, ConcatProperties
  <2>3. (printed[c] \o rest) \o replies = printed[c] \o (rest \o replies)
    <3>1. \A p \in Seq(Reply) : (p \o rest) \o replies = p \o (rest \o replies)
      BY ConcatAssociative
    <3> QED
      BY <1>2, <3>1
  <2>4. toClient'[c] = toClient[c] \o UnitsOf(replies) /\ answers'[c] = answers[c] \o replies
    BY <1>1, <1>2, <1>4
  <2>5. toClient'[c] = UnitsOf(rest \o replies) /\ printed'[c] \o (rest \o replies) = answers'[c]
    BY <2>1, <2>2, <2>3, <2>4
  <2> QED
    BY <2>2, <2>5 DEF RepliesLeft
<1> QED
  BY <1>3, <1>4

(* What is read is a first part of what is left.                           *)
LEMMA PrintFollows ==
    ASSUME NetType, NEW d \in Client, NEW n, NEW u, NEW read, Reads(d, n, u, read),
           NEW c \in Client \ cut', RepliesLeft(c)
    PROVE  RepliesLeft(c)'
<1>1. /\ toClient \in [Client -> Seq(Reply \X Nat)] /\ printed \in [Client -> Seq(Reply)]
      /\ c \in Client /\ printed[c] \in Seq(Reply)
  BY DEF NetType
<1>2. /\ n \in 1 .. Len(toClient[d]) /\ u = SubSeq(toClient[d], 1, n)
      /\ read \in Seq(Reply)
      /\ printed' = [printed EXCEPT ![d] = @ \o read]
      /\ toClient' = [toClient EXCEPT ![d] = After(@, n)]
      /\ answers' = answers
      /\ c = d => UnitsOf(read) = u
  BY DEF Reads, server
<1>3. CASE c # d
  BY <1>1, <1>2, <1>3, RepliesSame
<1>4. CASE c = d
  <2>1. PICK rest \in Seq(Reply) : toClient[c] = UnitsOf(rest) /\ printed[c] \o rest = answers[c]
    BY DEF RepliesLeft
  <2> DEFINE v == After(toClient[c], n)
  <2>2. toClient[c] \in Seq(Reply \X Nat) /\ n \in Nat /\ n <= Len(toClient[c])
    BY <1>1, <1>2, <1>4
  <2>3. u \o v = toClient[c] /\ v \in Seq(Reply \X Nat)
    BY <1>2, <1>4, <2>2, ReadTyped
  <2>4. UnitsOf(read) \o v = UnitsOf(rest)
    BY <1>2, <1>4, <2>1, <2>3
  <2> HIDE DEF v
  <2>0. read \in Seq(Reply)
    BY <1>2
  <2>5. PICK r \in Seq(Reply) : v = UnitsOf(r) /\ rest = read \o r
    <3>1. v \in Seq(Reply \X Nat)
      BY <2>3
    <3>2. LeftAfter(Reply, read, v, rest)
      BY <2>0, <2>4, <3>1, ReplySizes, UnitsOfRest, Zenon
    <3> QED
      BY <3>2 DEF LeftAfter
  <2>6. (printed[c] \o read) \o r = printed[c] \o (read \o r)
    <3>1. \A p \in Seq(Reply) : (p \o read) \o r = p \o (read \o r)
      BY <2>0, ConcatAssociative
    <3> QED
      BY <1>1, <3>1
  <2>7. toClient'[c] = v /\ printed'[c] = printed[c] \o read
    BY <1>1, <1>2, <1>4 DEF v
  <2>8. toClient'[c] = UnitsOf(r) /\ printed'[c] \o r = answers'[c]
    BY <1>2, <2>1, <2>5, <2>6, <2>7
  <2> QED
    BY <2>8 DEF RepliesLeft
<1> QED
  BY <1>3, <1>4

LEMMA RepliesNext == Base /\ RepliesInv /\ [Next]_vars => RepliesInv'
<1> SUFFICES ASSUME Base, RepliesInv, [Next]_vars, NEW c \in Client \ cut'
             PROVE  RepliesLeft(c)'
  BY DEF RepliesInv
<1>0. NetType /\ c \in Client
  BY DEF Base
<1>1. ASSUME NEW d \in Client, PrintResponse(d)
      PROVE  RepliesLeft(c)'
  <2>1. PICK n, u, read : Reads(d, n, u, read)
    BY <1>0, <1>1, PrintReads
  <2>2. c \in Client \ cut
    BY <2>1 DEF Reads
  <2> QED
    BY <1>0, <2>1, <2>2, PrintFollows DEF RepliesInv
<1>2. CASE HandleInvalid
  <2>1. Send(fd, <<Reject(0, "INVALID_MESSAGE")>>) /\ printed' = printed /\ c \in Client \ cut
    BY <1>2 DEF HandleInvalid, client
  <2> QED
    BY <1>0, <1>2, <2>1, RejectsInvalid, SendFollows DEF RepliesInv
<1>3. CASE HandleCancel
  <2>1. PICK m \in Readings : /\ buf # <<>> /\ m.type = "CANCEL" /\ Handle(m)
                              /\ \E yes \in BOOLEAN : /\ CancelReply(m, yes) \in Seq(Reply)
                                                      /\ Send(fd, CancelReply(m, yes))
    BY <1>0, <1>3, AnswersCancel
  <2>2. printed' = printed /\ cut' = cut
    BY <2>1 DEF Handle, client
  <2> QED
    BY <1>0, <2>1, <2>2, SendFollows DEF RepliesInv
<1>4. CASE ReplyNewOrder
  <2>1. printed' = printed /\ cut' = cut
    BY <1>4 DEF ReplyNewOrder, client
  <2> QED
    BY <1>0, <1>4, <2>1, AnswersOrder, SendFollows DEF RepliesInv
<1>5. ASSUME UNCHANGED <<toClient, printed, answers, cut>>
      PROVE  RepliesLeft(c)'
  BY <1>5, RepliesSame DEF RepliesInv
<1>6. CASE HandleNewOrder
  <2>1. PICK m \in Readings : Handle(m)
    BY <1>6 DEF HandleNewOrder
  <2>2. UNCHANGED <<toClient, answers>>
    BY <1>6 DEF HandleNewOrder
  <2> QED
    BY <1>5, <2>1, <2>2 DEF Handle, client
<1>7. CASE \/ EngineRuns \/ HandleIgnored \/ UNCHANGED vars
           \/ \E d \in Client : Receive(d) \/ Timeout(d) \/ \E m \in Message : Enter(d, m)
  BY <1>5, <1>7 DEF EngineRuns, HandleIgnored, vars, Receive, Timeout, Enter, server, client
<1> QED
  BY <1>1, <1>2, <1>3, <1>4, <1>6, <1>7, StepKinds DEF EngineUnmoved

(* While a client's messages arrive whole, they are processed in the order *)
(* they were entered and none twice, for any sizes of messages and buffers *)
(* and however many a read brings.                                         *)
THEOREM InOrder == Spec => []HandledInOrder
<1>1. Base /\ CommandsInv => HandledInOrder
  <2> SUFFICES ASSUME Base, CommandsInv, NEW c \in Client \ cut
               PROVE  handled[c] \o WholeIn(Coming(c)) = asked[c]
    BY DEF HandledInOrder, Coming
  <2>1. PICK rest \in Seq(Message) : Coming(c) = UnitsOf(rest) /\ handled[c] \o rest = asked[c]
    BY DEF CommandsInv, CommandsLeft
  <2>2. WholeIn(UnitsOf(rest)) = rest
    BY MessageSizes, WholeInUnitsOf
  <2> QED
    BY <2>1, <2>2
<1> QED
  BY <1>1, BaseInit, BaseNext, CommandsInit, CommandsNext, PTL DEF Spec

(* A client none of whose replies was cut has printed a first part of what *)
(* was sent to it, in order and each once, and the rest is on its way.     *)
THEOREM Printed == Spec => []PrintedInOrder
<1>1. Base /\ RepliesInv => PrintedInOrder
  <2> SUFFICES ASSUME Base, RepliesInv, NEW c \in Client \ cut
               PROVE  printed[c] \o WholeIn(toClient[c]) = answers[c]
    BY DEF PrintedInOrder
  <2>1. PICK rest \in Seq(Reply) : toClient[c] = UnitsOf(rest) /\ printed[c] \o rest = answers[c]
    BY DEF RepliesInv, RepliesLeft
  <2>2. WholeIn(UnitsOf(rest)) = rest
    BY ReplySizes, WholeInUnitsOf
  <2> QED
    BY <2>1, <2>2
<1> QED
  BY <1>1, BaseInit, BaseNext, RepliesInit, RepliesNext, PTL DEF Spec

-----------------------------------------------------------------------------
(* What clients are told adds up                                           *)

LEMMA SumFacts ==
    /\ ME!SumOf(<<>>) = 0
    /\ \A w \in Seq(Int) : ME!SumOf(w) \in Int
<1>1. MEP!SumOf(<<>>) = 0
  BY MEP!SumEmpty, EngineConstants
<1>2. \A w \in Seq(Int) : MEP!SumOf(w) \in Int
  BY MEP!SumPartial, EngineConstants
<1> QED
  BY <1>1, <1>2, SameSum

LEMMA SumJoin ==
    ASSUME NEW a \in Seq(Int), NEW b \in Seq(Int)
    PROVE  ME!SumOf(a \o b) = ME!SumOf(a) + ME!SumOf(b)
<1> DEFINE u == a \o b
<1>1. /\ u \in Seq(Int) /\ Len(u) = Len(a) + Len(b)
      /\ Len(a) \in Nat /\ Len(b) \in Nat
      /\ \A k \in 1 .. (Len(a) + Len(b)) : u[k] = IF k <= Len(a) THEN a[k] ELSE b[k - Len(a)]
  BY ConcatProperties
<1> HIDE DEF u
<1>2. \A k \in 1 .. Len(a) : u[k] = a[k]
  BY <1>1
<1>3. \A k \in 1 .. Len(b) : u[Len(a) + k] = b[k]
  <2> TAKE k \in 1 .. Len(b)
  <2>1. Len(a) + k \in 1 .. (Len(a) + Len(b)) /\ ~(Len(a) + k <= Len(a)) /\ (Len(a) + k) - Len(a) = k
    BY <1>1
  <2> QED
    BY <1>1, <2>1
<1>4. MEP!SumOf(u) = MEP!SumOf(a) + MEP!SumOf(b)
  BY <1>1, <1>2, <1>3, MEP!SumConcat, EngineConstants
<1> QED
  BY <1>4, SameSum DEF u

LEMMA SumAppend ==
    ASSUME NEW a \in Seq(Int), NEW x \in Int
    PROVE  ME!SumOf(Append(a, x)) = ME!SumOf(a) + x
<1> DEFINE u == Append(a, x)
<1>1. /\ u \in Seq(Int) /\ Len(u) = Len(a) + 1 /\ u[Len(a) + 1] = x
      /\ \A k \in 1 .. Len(a) : u[k] = a[k]
  BY AppendProperties
<1> HIDE DEF u
<1>2. MEP!SumOf(u) = MEP!SumOf(a) + u[Len(u)]
  BY <1>1, MEP!SumGrow, EngineConstants
<1> QED
  BY <1>1, <1>2, SameSum DEF u

LEMMA SumZero ==
    ASSUME NEW w \in Seq(Int), \A k \in 1 .. Len(w) : w[k] = 0
    PROVE  ME!SumOf(w) = 0
<1> DEFINE g == [k \in 0 .. Len(w) |-> 0]
<1>1. Len(w) \in Nat
  OBVIOUS
<1>2. g[0] = 0 /\ g[Len(w)] = 0
  BY <1>1
<1>3. \A k \in 1 .. Len(w) : g[k] = g[k - 1] + w[k]
  BY <1>1
<1> HIDE DEF g
<1>4. MEP!SumOf(w) = g[Len(w)]
  BY <1>2, <1>3, MEP!SumUnique, EngineConstants
<1> QED
  BY <1>2, <1>4, SameSum

(* What the replies s say of order i                                       *)
ToldIn(s, i) == [k \in DOMAIN s |-> IF Tells(s[k], i) THEN s[k].qty ELSE 0]

LEMMA ToldInType ==
    ASSUME NEW s \in Seq(Reply), NEW i
    PROVE  /\ ToldIn(s, i) \in Seq(Int) /\ Len(ToldIn(s, i)) = Len(s)
           /\ ME!SumOf(ToldIn(s, i)) \in Int
<1>1. Len(s) \in Nat /\ DOMAIN s = 1 .. Len(s) /\ \A k \in 1 .. Len(s) : s[k] \in Reply
  OBVIOUS
<1>2. \A a \in Reply : Tells(a, i) => a.qty \in Int
  BY DEF Reply, Tells
<1>3. ToldIn(s, i) \in [1 .. Len(s) -> Int]
  BY <1>1, <1>2 DEF ToldIn
<1>4. ToldIn(s, i) \in Seq(Int) /\ Len(ToldIn(s, i)) = Len(s)
  BY <1>1, <1>3
<1> QED
  BY <1>4, SumFacts

LEMMA ToldInJoin ==
    ASSUME NEW s \in Seq(Reply), NEW t \in Seq(Reply), NEW i
    PROVE  ME!SumOf(ToldIn(s \o t, i)) = ME!SumOf(ToldIn(s, i)) + ME!SumOf(ToldIn(t, i))
<1> DEFINE a == ToldIn(s, i)
           b == ToldIn(t, i)
           u == s \o t
<1>1. a \in Seq(Int) /\ b \in Seq(Int) /\ Len(a) = Len(s) /\ Len(b) = Len(t)
  BY ToldInType
<1>2. /\ u \in Seq(Reply) /\ Len(u) = Len(s) + Len(t)
      /\ Len(s) \in Nat /\ Len(t) \in Nat
      /\ \A k \in 1 .. (Len(s) + Len(t)) : u[k] = IF k <= Len(s) THEN s[k] ELSE t[k - Len(s)]
  BY ConcatProperties
<1>3. ToldIn(u, i) \in Seq(Int) /\ Len(ToldIn(u, i)) = Len(u)
  BY <1>2, ToldInType
<1> DEFINE v == a \o b
<1>4. /\ v \in Seq(Int) /\ Len(v) = Len(s) + Len(t)
      /\ \A k \in 1 .. (Len(s) + Len(t)) : v[k] = IF k <= Len(s) THEN a[k] ELSE b[k - Len(s)]
  <2> HIDE DEF a, b
  <2>1. /\ v \in Seq(Int) /\ Len(v) = Len(a) + Len(b)
        /\ \A k \in 1 .. (Len(a) + Len(b)) : v[k] = IF k <= Len(a) THEN a[k] ELSE b[k - Len(a)]
    BY <1>1, ConcatProperties
  <2> HIDE DEF v
  <2> QED
    BY <1>1, <2>1
<1>5. ASSUME NEW k \in 1 .. (Len(s) + Len(t)) PROVE ToldIn(u, i)[k] = v[k]
  <2> HIDE DEF v, u
  <2>1. k \in DOMAIN u
    BY <1>2
  <2>2. ToldIn(u, i)[k] = IF Tells(u[k], i) THEN u[k].qty ELSE 0
    BY <2>1 DEF ToldIn
  <2>3. CASE k <= Len(s)
    <3>1. k \in DOMAIN s
      BY <1>2, <2>3
    <3>2. a[k] = IF Tells(s[k], i) THEN s[k].qty ELSE 0
      BY <3>1 DEF ToldIn
    <3> QED
      BY <1>2, <1>4, <2>2, <2>3, <3>2
  <2>4. CASE ~(k <= Len(s))
    <3> DEFINE j == k - Len(s)
    <3>1. j \in DOMAIN t
      BY <1>2, <2>4
    <3>2. b[j] = IF Tells(t[j], i) THEN t[j].qty ELSE 0
      BY <3>1 DEF ToldIn
    <3>3. u[k] = t[j] /\ v[k] = b[j]
      BY <1>2, <1>4, <2>4
    <3> HIDE DEF a, b, j
    <3> QED
      BY <2>2, <3>2, <3>3
  <2> QED
    BY <2>3, <2>4
<1> HIDE DEF a, b, u, v
<1>6. ToldIn(u, i) = v
  BY <1>2, <1>3, <1>4, <1>5, SeqEqual
<1>7. ME!SumOf(v) = ME!SumOf(a) + ME!SumOf(b)
  BY <1>1, SumJoin DEF v
<1> QED
  BY <1>6, <1>7 DEF u, a, b

LEMMA ToldInNothing ==
    ASSUME NEW s \in Seq(Reply), NEW i, \A k \in DOMAIN s : ~Tells(s[k], i)
    PROVE  ME!SumOf(ToldIn(s, i)) = 0
<1>1. ToldIn(s, i) \in Seq(Int) /\ Len(ToldIn(s, i)) = Len(s) /\ DOMAIN s = 1 .. Len(s)
  BY ToldInType
<1>2. \A k \in 1 .. Len(s) : ToldIn(s, i)[k] = 0
  BY <1>1 DEF ToldIn
<1> QED
  BY <1>1, <1>2, SumZero

(* What an order has traded in the trades ts of its own call               *)
Traded(ts) == ME!SumOf([k \in DOMAIN ts |-> ts[k].qty])

LEMMA QtysTyped ==
    ASSUME NEW ts \in Seq(MEP!Trade)
    PROVE  /\ [k \in DOMAIN ts |-> ts[k].qty] \in Seq(Int)
           /\ Len([k \in DOMAIN ts |-> ts[k].qty]) = Len(ts)
           /\ \A k \in DOMAIN ts : ts[k].qty \in Nat
           /\ Traded(ts) \in Int
<1> DEFINE w == [k \in DOMAIN ts |-> ts[k].qty]
<1>1. Len(ts) \in Nat /\ DOMAIN ts = 1 .. Len(ts) /\ \A k \in 1 .. Len(ts) : ts[k] \in MEP!Trade
  OBVIOUS
<1>2. \A k \in 1 .. Len(ts) : ts[k].qty \in Nat
  BY <1>1 DEF MEP!Trade
<1>3. w \in [1 .. Len(ts) -> Int]
  BY <1>1, <1>2
<1>4. w \in Seq(Int) /\ Len(w) = Len(ts)
  <2> HIDE DEF w
  <2> QED
    BY <1>1, <1>3
<1>5. Traded(ts) \in Int
  <2>1. Traded(ts) = ME!SumOf(w)
    BY DEF Traded
  <2> HIDE DEF w
  <2> QED
    BY <1>4, <2>1, SumFacts
<1> QED
  BY <1>1, <1>2, <1>4, <1>5

LEMMA TradedNothing == Traded(<<>>) = 0
<1>1. [k \in DOMAIN <<>> |-> <<>>[k].qty] = <<>>
  OBVIOUS
<1> QED
  BY <1>1, SumFacts DEF Traded

LEMMA TradedMore ==
    ASSUME NEW ts \in Seq(MEP!Trade), NEW t \in MEP!Trade
    PROVE  Traded(Append(ts, t)) = Traded(ts) + t.qty /\ t.qty \in Nat
<1> DEFINE Q(s) == [k \in DOMAIN s |-> s[k].qty]
           v == Append(ts, t)
<1>1. /\ v \in Seq(MEP!Trade) /\ Len(v) = Len(ts) + 1 /\ Len(ts) \in Nat
      /\ v[Len(ts) + 1] = t
      /\ \A k \in 1 .. Len(ts) : v[k] = ts[k]
      /\ DOMAIN v = 1 .. (Len(ts) + 1) /\ DOMAIN ts = 1 .. Len(ts)
  BY AppendProperties
<1> HIDE DEF v
<1>2. Q(ts) \in Seq(Int) /\ Len(Q(ts)) = Len(ts) /\ Q(v) \in Seq(Int) /\ Len(Q(v)) = Len(v)
  BY <1>1, QtysTyped
<1>3. t.qty \in Nat
  BY DEF MEP!Trade
<1> DEFINE z == Append(Q(ts), t.qty)
<1>4. /\ z \in Seq(Int) /\ Len(z) = Len(ts) + 1 /\ z[Len(ts) + 1] = t.qty
      /\ \A k \in 1 .. Len(ts) : z[k] = Q(ts)[k]
  <2> HIDE DEF Q
  <2>1. t.qty \in Int
    BY <1>3
  <2> QED
    BY <1>2, <2>1, AppendProperties
<1>5. ASSUME NEW k \in 1 .. (Len(ts) + 1) PROVE Q(v)[k] = z[k]
  <2> HIDE DEF z
  <2>1. Q(v)[k] = v[k].qty
    BY <1>1
  <2>2. CASE k = Len(ts) + 1
    BY <1>1, <1>4, <2>1, <2>2
  <2>3. CASE k # Len(ts) + 1
    <3>1. k \in 1 .. Len(ts)
      BY <1>1, <2>3
    <3>2. Q(ts)[k] = ts[k].qty
      BY <1>1, <3>1
    <3> QED
      BY <1>1, <1>4, <2>1, <3>1, <3>2
  <2> QED
    BY <2>2, <2>3
<1>6. Q(v) = z
  <2> HIDE DEF Q, z
  <2> QED
    BY <1>1, <1>2, <1>4, <1>5, SeqEqual
<1>7. ME!SumOf(z) = ME!SumOf(Q(ts)) + t.qty
  <2> HIDE DEF Q
  <2>1. t.qty \in Int
    BY <1>3
  <2> QED
    BY <1>2, <2>1, SumAppend
<1>8. Traded(v) = ME!SumOf(Q(v)) /\ Traded(ts) = ME!SumOf(Q(ts))
  BY DEF Traded
<1> HIDE DEF Q, z
<1> QED
  BY <1>3, <1>6, <1>7, <1>8 DEF v

(* What the replies s tell of order i comes to q units, each with rest     *)
(* named as what was left                                                  *)
Adds(s, q, rest, i) ==
    /\ ME!SumOf(ToldIn(s, i)) = q
    /\ \A k \in DOMAIN s : Tells(s[k], i) => s[k].remaining = rest
Answered(s, i) == \E k \in DOMAIN s : s[k].id = i

LEMMA AddsUpParts ==
    ASSUME NEW c, NEW i
    PROVE  /\ AddsUp(c, i) <=>
                 /\ Adds(answers[c], IF c \in owner[i] THEN took[i] ELSE 0, order[i].total_qty - took[i], i)
                 /\ c \in owner[i] /\ order[i].total_qty > 0 => Answered(answers[c], i)
           /\ AddsUp(c, i)' <=>
                 /\ Adds(answers'[c], IF c \in owner'[i] THEN took'[i] ELSE 0,
                         order'[i].total_qty - took'[i], i)
                 /\ c \in owner'[i] /\ order'[i].total_qty > 0 => Answered(answers'[c], i)
BY Zenon DEF AddsUp, Adds, Answered, Told, ToldIn

LEMMA JoinAt ==
    ASSUME NEW s \in Seq(Reply), NEW t \in Seq(Reply)
    PROVE  /\ s \o t \in Seq(Reply)
           /\ \A k \in DOMAIN s : k \in DOMAIN (s \o t) /\ (s \o t)[k] = s[k]
           /\ \A k \in DOMAIN t : Len(s) + k \in DOMAIN (s \o t) /\ (s \o t)[Len(s) + k] = t[k]
           /\ \A k \in DOMAIN (s \o t) : \/ k \in DOMAIN s /\ (s \o t)[k] = s[k]
                                         \/ k - Len(s) \in DOMAIN t /\ (s \o t)[k] = t[k - Len(s)]
<1> DEFINE u == s \o t
<1>1. /\ u \in Seq(Reply) /\ Len(u) = Len(s) + Len(t) /\ Len(s) \in Nat /\ Len(t) \in Nat
      /\ \A k \in 1 .. (Len(s) + Len(t)) : u[k] = IF k <= Len(s) THEN s[k] ELSE t[k - Len(s)]
  BY ConcatProperties
<1> HIDE DEF u
<1>2. DOMAIN u = 1 .. (Len(s) + Len(t)) /\ DOMAIN s = 1 .. Len(s) /\ DOMAIN t = 1 .. Len(t)
  BY <1>1
<1>3. \A k \in DOMAIN s : k \in DOMAIN u /\ u[k] = s[k]
  BY <1>1, <1>2
<1>4. \A k \in DOMAIN t : Len(s) + k \in DOMAIN u /\ u[Len(s) + k] = t[k]
  <2> TAKE k \in DOMAIN t
  <2>1. /\ Len(s) + k \in 1 .. (Len(s) + Len(t)) /\ ~(Len(s) + k <= Len(s))
        /\ (Len(s) + k) - Len(s) = k
    BY <1>1, <1>2
  <2> QED
    BY <1>1, <1>2, <2>1
<1>5. \A k \in DOMAIN u : \/ k \in DOMAIN s /\ u[k] = s[k]
                          \/ k - Len(s) \in DOMAIN t /\ u[k] = t[k - Len(s)]
  BY <1>1, <1>2
<1> QED
  BY <1>1, <1>3, <1>4, <1>5 DEF u

LEMMA AddsJoin ==
    ASSUME NEW s \in Seq(Reply), NEW t \in Seq(Reply), NEW p, NEW q, NEW rest, NEW i,
           Adds(s, p, rest, i), Adds(t, q, rest, i)
    PROVE  Adds(s \o t, p + q, rest, i)
<1> DEFINE u == s \o t
<1>1. ME!SumOf(ToldIn(u, i)) = p + q
  BY ToldInJoin DEF Adds
<1>2. ASSUME NEW k \in DOMAIN u, Tells(u[k], i)
      PROVE  u[k].remaining = rest
  <2>1. \/ k \in DOMAIN s /\ u[k] = s[k]
        \/ k - Len(s) \in DOMAIN t /\ u[k] = t[k - Len(s)]
    BY JoinAt
  <2> HIDE DEF u
  <2> QED
    BY <1>2, <2>1 DEF Adds
<1> QED
  BY <1>1, <1>2 DEF Adds

LEMMA AddsNothing ==
    ASSUME NEW s \in Seq(Reply), NEW i, \A k \in DOMAIN s : ~Tells(s[k], i), NEW rest
    PROVE  Adds(s, 0, rest, i)
BY ToldInNothing DEF Adds

LEMMA AnsweredJoin ==
    ASSUME NEW s \in Seq(Reply), NEW t \in Seq(Reply), NEW i, Answered(s, i) \/ Answered(t, i)
    PROVE  Answered(s \o t, i)
<1>1. CASE Answered(s, i)
  <2>1. PICK k \in DOMAIN s : s[k].id = i
    BY <1>1 DEF Answered
  <2>2. k \in DOMAIN (s \o t) /\ (s \o t)[k] = s[k]
    BY JoinAt
  <2> QED
    BY <2>1, <2>2, Zenon DEF Answered
<1>2. CASE Answered(t, i)
  <2>1. PICK k \in DOMAIN t : t[k].id = i
    BY <1>2 DEF Answered
  <2>2. Len(s) + k \in DOMAIN (s \o t) /\ (s \o t)[Len(s) + k] = t[k]
    BY JoinAt
  <2> QED
    BY <2>1, <2>2, Zenon DEF Answered
<1> QED
  BY <1>1, <1>2

(* The last answers of an order tell all it traded, in the end.            *)
LEMMA ReportsAdd ==
    ASSUME NEW r \in Orders, NEW res,
           res.id \in Nat, res.trades \in Seq(MEP!Trade),
           Traded(res.trades) <= r.total_qty, r.total_qty \in Nat,
           r.total_qty > 0 /\ res.trades = <<>> => res.status \in {"Rejected", "Cancelled", "Accepted"}
    PROVE  LET sent == Reports(r, res) \o Status(r, res)
           IN  /\ Adds(sent, Traded(res.trades), r.total_qty - Traded(res.trades), res.id)
               /\ r.total_qty > 0 => Answered(sent, res.id)
               /\ \A k \in DOMAIN sent : sent[k].type = "EXECUTION" => sent[k].id = res.id
<1> DEFINE ts == res.trades
           a == Reports(r, res)
           b == Status(r, res)
           q == Traded(ts)
           rest == IF r.total_qty > q THEN r.total_qty - q ELSE 0
<1>1. /\ a \in Seq(Reply) /\ b \in Seq(Reply) /\ Len(a) = Len(ts)
      /\ Len(ts) \in Nat /\ DOMAIN ts = 1 .. Len(ts) /\ DOMAIN a = 1 .. Len(ts)
  BY ReportsTyped
<1>2. q \in Int /\ \A k \in DOMAIN ts : ts[k].qty \in Nat
  BY QtysTyped
<1>3. rest = r.total_qty - q
  <2> HIDE DEF q
  <2>1. q \in Int /\ q <= r.total_qty
    BY <1>2 DEF q
  <2> QED
    BY <2>1
<1>4. a = [k \in DOMAIN ts |-> Execution(res.id, ts[k].qty, rest)]
  BY DEF Reports, Traded
<1> HIDE DEF rest
<1>5. ASSUME NEW k \in DOMAIN a
      PROVE  /\ a[k].type = "EXECUTION" /\ a[k].id = res.id /\ a[k].qty = ts[k].qty
             /\ a[k].remaining = rest
  <2>1. a[k] = Execution(res.id, ts[k].qty, rest)
    BY <1>1, <1>4
  <2> QED
    BY <2>1 DEF Execution
<1>6. ToldIn(a, res.id) = [k \in DOMAIN ts |-> ts[k].qty]
  <2>1. \A k \in DOMAIN a : (IF Tells(a[k], res.id) THEN a[k].qty ELSE 0) = ts[k].qty
    BY <1>5 DEF Tells
  <2>2. DOMAIN a = DOMAIN ts
    BY <1>1
  <2> HIDE DEF a
  <2> QED
    BY <2>1, <2>2 DEF ToldIn
<1>7. Adds(a, q, rest, res.id)
  BY <1>5, <1>6 DEF Adds, Traded
<1>8. /\ \A k \in DOMAIN b : b[k].type # "EXECUTION" /\ b[k].id = res.id
      /\ res.status \in {"Rejected", "Cancelled", "Accepted"} /\ ts = <<>> => 1 \in DOMAIN b
  BY DEF Status, Reject, Accepted
<1>9. Adds(b, 0, rest, res.id)
  BY <1>1, <1>8, AddsNothing DEF Tells
<1> HIDE DEF a, b, q
<1>10. Adds(a \o b, q + 0, rest, res.id)
  BY <1>1, <1>7, <1>9, AddsJoin
<1>11. q + 0 = q
  BY <1>2 DEF q
<1>12. r.total_qty > 0 => Answered(a \o b, res.id)
  <2> SUFFICES ASSUME r.total_qty > 0 PROVE Answered(a \o b, res.id)
    OBVIOUS
  <2>1. CASE ts = <<>>
    <3>1. 1 \in DOMAIN b /\ b[1].id = res.id
      BY <1>8, <2>1 DEF b, ts
    <3>2. Answered(b, res.id)
      BY <3>1, Zenon DEF Answered
    <3> QED
      BY <1>1, <3>2, AnsweredJoin
  <2>2. CASE ts # <<>>
    <3>1. 1 \in DOMAIN a
      BY <1>1, <2>2
    <3>2. Answered(a, res.id)
      BY <1>5, <3>1, Zenon DEF Answered
    <3> QED
      BY <1>1, <3>2, AnsweredJoin
  <2> QED
    BY <2>1, <2>2
<1>13. \A k \in DOMAIN (a \o b) : (a \o b)[k].type = "EXECUTION" => (a \o b)[k].id = res.id
  BY <1>1, <1>5, <1>8, JoinAt
<1> QED
  BY <1>3, <1>10, <1>11, <1>12, <1>13 DEF a, b, q

(* What a call of submitOrder does to what the answers will name           *)
LEMMA SubmitFacts ==
    ASSUME MEP!IInv, NEW r \in MEP!Request, MEP!SubmitOrder(r)
    PROVE  /\ pc = "idle" /\ next_order_id_ \in MEP!Id
           /\ next_order_id_' = next_order_id_ + 1
           /\ order'[next_order_id_].total_qty = r.total_qty
           /\ \A i \in MEP!Id : i # next_order_id_ => order'[i] = order[i]
           /\ took' = took /\ took[next_order_id_] = 0
           /\ \/ /\ pc' = "idle"
                 /\ result'.id = next_order_id_ /\ result'.trades = <<>>
                 /\ result'.status \in {"Rejected", "Accepted"}
              \/ /\ pc' = "idle"
                 /\ result'.id = next_order_id_ /\ result'.trades = <<>>
                 /\ result'.status = "Cancelled"
              \/ /\ pc' = "match" /\ taker' = next_order_id_
                 /\ remaining' = r.total_qty /\ trades' = <<>>
<1>1. order \in [MEP!Id -> MEP!Order] /\ next_order_id_ \in 1 .. (MaxOrders + 1)
  BY ResultTyped
<1>2. next_order_id_ \in MEP!Id => took[next_order_id_] = 0
  <2>1. MEP!FreshUntouched
    BY Zenon DEF MEP!IInv
  <2>2. next_order_id_ \notin MEP!Submitted
    BY <1>1 DEF MEP!Submitted
  <2> QED
    BY <2>1, <2>2 DEF MEP!FreshUntouched
<1>3. CASE MEP!SubmitPostOnly(r)
  BY <1>1, <1>2, <1>3 DEF MEP!SubmitPostOnly, MEP!NewOrder, MEP!ReturnAtOnce, MEP!hist
<1>4. CASE MEP!SubmitFOK(r)
  BY <1>1, <1>2, <1>4 DEF MEP!SubmitFOK, MEP!NewOrder, MEP!ReturnAtOnce, MEP!BeginMatching, MEP!hist
<1>5. CASE MEP!SubmitStandard(r)
  BY <1>1, <1>2, <1>5 DEF MEP!SubmitStandard, MEP!NewOrder, MEP!BeginMatching, MEP!hist
<1>6. CASE MEP!SubmitIceberg(r)
  <2> DEFINE invalid == r.visible_qty = 0 \/ r.visible_qty >= r.total_qty
             o == [r EXCEPT !.visible_qty = IF invalid THEN 0 ELSE @]
  <2>1. MEP!NewOrder(o) /\ MEP!BeginMatching(o)
    BY <1>6 DEF MEP!SubmitIceberg
  <2>2. o.total_qty = r.total_qty
    BY DEF MEP!Request
  <2> HIDE DEF o
  <2> QED
    BY <1>1, <1>2, <2>1, <2>2 DEF MEP!NewOrder, MEP!BeginMatching, MEP!hist
<1> QED
  BY <1>3, <1>4, <1>5, <1>6 DEF MEP!SubmitOrder

(* ... and what a step of the call does                                    *)
LEMMA EngineFacts ==
    ASSUME MEP!IInv, MEP!IInv', MEP!Engine
    PROVE  /\ pc # "idle"
           /\ next_order_id_' = next_order_id_ /\ order' = order
           /\ \/ /\ pc = "match" /\ UNCHANGED <<pc, taker, took>>
                 /\ \E t \in MEP!Trade : /\ trades' = Append(trades, t)
                                         /\ remaining' = remaining - t.qty
              \/ /\ pc = "match" /\ pc' = "refresh" /\ UNCHANGED <<taker, remaining, trades>>
                 /\ took' = [took EXCEPT ![taker] = order[taker].total_qty - remaining]
              \/ pc = "refresh" /\ UNCHANGED <<pc, taker, remaining, trades, took>>
              \/ /\ pc = "refresh" /\ pc' = "idle" /\ took' = took
                 /\ result'.id = taker /\ result'.trades = trades
                 /\ remaining > 0 /\ trades = <<>> => result'.status \in {"Accepted", "Cancelled"}
<1>1. CASE MEP!MatchStep
  <2>1. PICK p : MEP!FillFront(p)
    BY <1>1 DEF MEP!MatchStep
  <2> DEFINE m == Head(queue[MEP!Opposite(order[taker].side)][p])
             can_fill == MEP!MinOf(remaining, remaining_qty[m])
             t == [maker |-> m, taker |-> taker, price |-> p, qty |-> can_fill]
  <2>2. trades' = Append(trades, t) /\ remaining' = remaining - t.qty
    <3>1. trades' = Append(trades, t) /\ remaining' = remaining - can_fill
      BY <2>1 DEF MEP!FillFront
    <3>2. t.qty = can_fill
      OBVIOUS
    <3> QED
      BY <3>1, <3>2
  <2> HIDE DEF t
  <2>3. t \in MEP!Trade
    <3>1. trades' \in Seq(MEP!Trade) /\ trades \in Seq(MEP!Trade)
      <4>1. MEP!TypeOK /\ MEP!TypeOK'
        BY Zenon DEF MEP!IInv
      <4> QED
        BY <4>1, Zenon DEF MEP!TypeOK
    <3>2. /\ Len(Append(trades, t)) = Len(trades) + 1 /\ Append(trades, t)[Len(trades) + 1] = t
          /\ Len(trades) \in Nat
      BY <3>1
    <3> QED
      BY <2>2, <3>1, <3>2
  <2>4. pc = "match" /\ UNCHANGED <<pc, taker, took, next_order_id_, order>>
    BY <1>1, <2>1 DEF MEP!MatchStep, MEP!FillFront
  <2> QED
    BY <2>2, <2>3, <2>4
<1>2. CASE MEP!EndMatch
  BY <1>2 DEF MEP!EndMatch, MEP!call
<1>3. CASE MEP!RefreshExhausted
  BY <1>3 DEF MEP!RefreshExhausted, MEP!hist
<1>4. CASE MEP!RefreshSlice
  BY <1>4 DEF MEP!RefreshSlice, MEP!hist
<1>5. CASE MEP!ReturnStandard
  BY <1>5 DEF MEP!ReturnStandard, MEP!Returning, MEP!Return, MEP!hist
<1>6. CASE MEP!ReturnFOK
  BY <1>6 DEF MEP!ReturnFOK, MEP!Returning, MEP!Return, MEP!hist
<1>7. CASE MEP!ReturnIOC
  BY <1>7 DEF MEP!ReturnIOC, MEP!Returning, MEP!Return, MEP!hist
<1>8. CASE MEP!ReturnIceberg
  BY <1>8 DEF MEP!ReturnIceberg, MEP!Returning, MEP!Return, MEP!hist
<1> QED
  BY <1>1, <1>2, <1>3, <1>4, <1>5, <1>6, <1>7, <1>8 DEF MEP!Engine

(* The order of the NEW_ORDER being processed is the newest one.           *)
Cur == next_order_id_ - 1
Done == IF handling = Nothing THEN 1 .. (next_order_id_ - 1) ELSE 1 .. (next_order_id_ - 2)

(* How far its call is: all it traded is in the trades that the call will  *)
(* return, with which it will be answered.                                 *)
OnOrder ==
    /\ Cur \in ME!Id /\ owner[Cur] = {fd}
    /\ order[Cur].total_qty = handling.order.total_qty
    /\ pc # "idle" => taker = Cur /\ Traded(trades) + remaining = order[Cur].total_qty
    /\ pc = "refresh" => took[Cur] + remaining = order[Cur].total_qty
    /\ pc = "idle" =>
          /\ result.id = Cur
          /\ Traded(result.trades) = took[Cur] /\ took[Cur] <= order[Cur].total_qty
          /\ order[Cur].total_qty > 0 /\ result.trades = <<>>
                => result.status \in {"Rejected", "Cancelled", "Accepted"}

(* Nobody has been told of a trade of an order not yet answered.           *)
ToldOfDone ==
    \A c \in Client : \A k \in DOMAIN answers[c] :
        answers[c][k].type = "EXECUTION" => answers[c][k].id \in Done

ReportInv ==
    /\ pc # "idle" => handling # Nothing
    /\ handling # Nothing => OnOrder
    /\ ToldOfDone
    /\ \A c \in Client, i \in Done : AddsUp(c, i)

LEMMA ReportInit == Init => ReportInv
<1> SUFFICES ASSUME Init PROVE ReportInv
  OBVIOUS
<1>1. next_order_id_ = 1 /\ handling = Nothing /\ pc = "idle" /\ answers = [c \in Client |-> <<>>]
  BY DEF Init, ME!Init
<1>2. Done = {}
  BY <1>1 DEF Done
<1> QED
  BY <1>1, <1>2 DEF ReportInv, ToldOfDone

(* A step that leaves an order, its trades on entry and the answers alone  *)
LEMMA ReportSameAnswers ==
    ASSUME NEW c, NEW i, AddsUp(c, i), answers' = answers,
           owner'[i] = owner[i], took'[i] = took[i], order'[i] = order[i]
    PROVE  AddsUp(c, i)'
BY Zenon DEF AddsUp, Told

(* A step that is about neither orders nor answers                         *)
LEMMA ReportQuiet ==
    ASSUME ReportInv, UNCHANGED <<engine, answers, owner, handling>>,
           handling # Nothing => fd' = fd
    PROVE  ReportInv'
<1>1. UNCHANGED <<next_order_id_, order, pc, taker, remaining, trades, result, took>>
  BY DEF engine
<1>2. Cur' = Cur /\ Done' = Done
  BY <1>1 DEF Cur, Done
<1>3. handling # Nothing => OnOrder'
  BY <1>1, <1>2 DEF ReportInv, OnOrder
<1>4. ToldOfDone'
  BY <1>2 DEF ReportInv, ToldOfDone
<1>5. \A c \in Client, i \in Done : AddsUp(c, i)'
  BY <1>1, ReportSameAnswers DEF ReportInv
<1> QED
  BY <1>1, <1>2, <1>3, <1>4, <1>5 DEF ReportInv

(* Replies that tell nothing of order i leave what was told of it.         *)
LEMMA StillAddsUp ==
    ASSUME NetType, NEW c \in Client, NEW i, NEW replies \in Seq(Reply),
           answers'[c] \in {answers[c], answers[c] \o replies},
           \A k \in DOMAIN replies : ~Tells(replies[k], i),
           owner'[i] = owner[i], took'[i] = took[i], order'[i] = order[i],
           AddsUp(c, i)
    PROVE  AddsUp(c, i)'
<1> DEFINE p == IF c \in owner[i] THEN took[i] ELSE 0
           rest == order[i].total_qty - took[i]
           s == answers[c]
<1>1. s \in Seq(Reply)
  BY DEF NetType
<1>2. Adds(s, p, rest, i) /\ (c \in owner[i] /\ order[i].total_qty > 0 => Answered(s, i))
  BY AddsUpParts, Zenon
<1> HIDE DEF p, rest, s
<1>3. Adds(s \o replies, p, rest, i)
  <2>1. Adds(replies, 0, rest, i)
    BY AddsNothing
  <2>2. Adds(s \o replies, p + 0, rest, i)
    BY <1>1, <1>2, <2>1, AddsJoin
  <2>3. p \in Int
    BY <1>1, <1>2, ToldInType DEF Adds
  <2> QED
    BY <2>2, <2>3
<1>4. Answered(s, i) => Answered(s \o replies, i)
  BY <1>1, AnsweredJoin
<1>5. Adds(answers'[c], p, rest, i) /\ (Answered(s, i) => Answered(answers'[c], i))
  BY <1>2, <1>3, <1>4 DEF s
<1> QED
  BY <1>2, <1>5, AddsUpParts, Zenon DEF p, rest

LEMMA AnswersAfter ==
    ASSUME NetType, NEW replies \in Seq(Reply), Send(fd, replies), NEW c \in Client
    PROVE  /\ answers'[c] = IF c = fd THEN answers[c] \o replies ELSE answers[c]
           /\ answers[c] \in Seq(Reply)
<1>1. answers' = [answers EXCEPT ![fd] = @ \o replies]
  BY SendTyped
<1>2. answers \in [Client -> Seq(Reply)] /\ fd \in Client
  BY DEF NetType
<1> QED
  BY <1>1, <1>2

(* An answer to a cancel, or to what is no message                         *)
LEMMA ReportOther ==
    ASSUME NetType, ReportInv, BetweenMessages, NEW replies \in Seq(Reply), Send(fd, replies),
           \A k \in DOMAIN replies : replies[k].type # "EXECUTION",
           UNCHANGED <<pc, handling, next_order_id_, order, took, owner>>
    PROVE  ReportInv'
<1>1. Done' = Done /\ handling' = Nothing
  BY DEF Done, BetweenMessages
<1>2. ToldOfDone'
  <2> SUFFICES ASSUME NEW c \in Client, NEW k \in DOMAIN answers'[c], answers'[c][k].type = "EXECUTION"
               PROVE  answers'[c][k].id \in Done
    BY <1>1 DEF ToldOfDone
  <2>1. answers'[c] = (IF c = fd THEN answers[c] \o replies ELSE answers[c]) /\ answers[c] \in Seq(Reply)
    BY AnswersAfter
  <2>2. CASE c # fd
    BY <2>1, <2>2 DEF ReportInv, ToldOfDone
  <2>3. CASE c = fd
    <3>1. answers'[c] = answers[c] \o replies
      BY <2>1, <2>3
    <3>2. \/ k \in DOMAIN answers[c] /\ answers'[c][k] = answers[c][k]
          \/ k - Len(answers[c]) \in DOMAIN replies
                /\ answers'[c][k] = replies[k - Len(answers[c])]
      BY <2>1, <3>1, JoinAt
    <3> QED
      BY <3>2 DEF ReportInv, ToldOfDone
  <2> QED
    BY <2>2, <2>3
<1>3. \A c \in Client, i \in Done : AddsUp(c, i)'
  <2> SUFFICES ASSUME NEW c \in Client, NEW i \in Done PROVE AddsUp(c, i)'
    OBVIOUS
  <2>1. answers'[c] \in {answers[c], answers[c] \o replies}
    BY AnswersAfter
  <2>2. \A k \in DOMAIN replies : ~Tells(replies[k], i)
    BY DEF Tells
  <2>3. AddsUp(c, i)
    BY DEF ReportInv
  <2> QED
    BY <2>1, <2>2, <2>3, StillAddsUp
<1> QED
  BY <1>1, <1>2, <1>3 DEF ReportInv, BetweenMessages

LEMMA ReportNewOrder ==
    ASSUME Base, Base', ReportInv, HandleNewOrder
    PROVE  ReportInv'
<1> DEFINE n == next_order_id_
<1>0. NetType /\ NetType' /\ MEP!IInv /\ MEP!IInv' /\ handling = Nothing /\ pc = "idle"
  BY DEF Base, HandleNewOrder, BetweenMessages
<1>1. PICK m \in Readings : /\ m.type = "NEW_ORDER" /\ Handle(m)
                            /\ ME!SubmitOrder(m.order) /\ handling' = m
  BY DEF HandleNewOrder
<1>2. m.order \in Orders /\ m # Nothing
  <2>1. buf # <<>>
    BY DEF HandleNewOrder
  <2>2. m \in Message
    BY <1>0, <1>1, <2>1, ReadingsAreMessages
  <2>3. Nothing.type = "None"
    BY DEF Nothing
  <2> QED
    BY <1>1, <2>2, <2>3, MessageKinds
<1>3. m.order \in MEP!Request /\ MEP!SubmitOrder(m.order)
  BY <1>1, <1>2, SameRequest, SameSubmit, OrderEntryAssumption, Zenon
<1>4. answers' = answers /\ fd' = fd /\ owner' = [owner EXCEPT ![n] = {fd}]
  BY <1>1 DEF HandleNewOrder, Handle
<1>5. /\ n \in MEP!Id /\ next_order_id_' = n + 1
      /\ order'[n].total_qty = m.order.total_qty
      /\ \A i \in MEP!Id : i # n => order'[i] = order[i]
      /\ took' = took /\ took[n] = 0
      /\ \/ /\ pc' = "idle" /\ result'.id = n /\ result'.trades = <<>>
            /\ result'.status \in {"Rejected", "Accepted", "Cancelled"}
         \/ /\ pc' = "match" /\ taker' = n
            /\ remaining' = m.order.total_qty /\ trades' = <<>>
  BY <1>0, <1>3, SubmitFacts
<1>6. MEP!Id = ME!Id /\ owner \in [ME!Id -> SUBSET Client] /\ n \in Nat
  <2>1. MEP!Id = ME!Id
    BY DEF MEP!Id, ME!Id
  <2> QED
    BY <1>0, <1>5, <2>1 DEF NetType, ME!Id
<1>7. Cur' = n /\ Done = 1 .. (n - 1) /\ Done' = Done
  BY <1>0, <1>1, <1>2, <1>5, <1>6 DEF Cur, Done
<1>8. order'[n].total_qty \in Nat
  <2>1. order' \in [MEP!Id -> MEP!Order]
    <3>1. MEP!TypeOK'
      BY <1>0, Zenon DEF MEP!IInv
    <3> QED
      BY <3>1, Zenon DEF MEP!TypeOK
  <2> QED
    BY <1>5, <2>1 DEF MEP!Order
<1>9. OnOrder'
  <2>1. Traded(<<>>) = 0
    BY TradedNothing
  <2>2. n \in ME!Id /\ owner'[n] = {fd'}
    BY <1>4, <1>5, <1>6
  <2>3. order'[n].total_qty = handling'.order.total_qty
    BY <1>1, <1>5
  <2>4. pc' # "idle" => taker' = n /\ Traded(trades') + remaining' = order'[n].total_qty
    <3> SUFFICES ASSUME pc' # "idle" PROVE taker' = n /\ Traded(trades') + remaining' = order'[n].total_qty
      OBVIOUS
    <3>1. taker' = n /\ remaining' = order'[n].total_qty /\ trades' = <<>>
      BY <1>5
    <3>2. Traded(trades') = 0
      BY <2>1, <3>1
    <3> QED
      BY <1>8, <3>1, <3>2
  <2>5. pc' # "refresh"
    BY <1>5
  <2>6. pc' = "idle" => /\ result'.id = n /\ result'.trades = <<>>
                        /\ result'.status \in {"Rejected", "Accepted", "Cancelled"}
    BY <1>5
  <2>7. took'[n] = 0 /\ 0 <= order'[n].total_qty
    BY <1>5, <1>8
  <2>8. pc' = "idle" => Traded(result'.trades) = took'[n]
    BY <2>1, <2>6, <2>7
  <2> HIDE DEF n
  <2> QED
    BY <1>7, <2>2, <2>3, <2>4, <2>5, <2>6, <2>7, <2>8 DEF OnOrder, Traded
<1>10. ToldOfDone'
  BY <1>4, <1>7 DEF ReportInv, ToldOfDone
<1>11. \A c \in Client, i \in Done : AddsUp(c, i)'
  <2> SUFFICES ASSUME NEW c \in Client, NEW i \in Done PROVE AddsUp(c, i)'
    OBVIOUS
  <2>1. i # n /\ i \in ME!Id
    <3>1. i \in 1 .. (n - 1) /\ n \in 1 .. MaxOrders /\ MaxOrders \in Nat
      BY <1>5, <1>6, <1>7, OrderEntryAssumption DEF ME!Id
    <3> QED
      BY <3>1 DEF ME!Id
  <2>2. owner'[i] = owner[i] /\ order'[i] = order[i] /\ took'[i] = took[i]
    BY <1>4, <1>5, <1>6, <2>1
  <2>3. AddsUp(c, i)
    BY DEF ReportInv
  <2> QED
    BY <1>4, <2>2, <2>3, ReportSameAnswers
<1>12. handling' # Nothing
  BY <1>1, <1>2
<1> QED
  BY <1>7, <1>9, <1>10, <1>11, <1>12 DEF ReportInv

LEMMA ReportEngine ==
    ASSUME Base, Base', ReportInv, EngineRuns
    PROVE  ReportInv'
<1>0. MEP!IInv /\ MEP!IInv' /\ MEP!Engine
  BY SameEngine, Zenon DEF Base, EngineRuns
<1>1. UNCHANGED <<answers, owner, handling, fd>>
  BY DEF EngineRuns, server
<1>2. /\ pc # "idle"
      /\ next_order_id_' = next_order_id_ /\ order' = order
      /\ \/ /\ pc = "match" /\ UNCHANGED <<pc, taker, took>>
            /\ \E t \in MEP!Trade : /\ trades' = Append(trades, t)
                                    /\ remaining' = remaining - t.qty
         \/ /\ pc = "match" /\ pc' = "refresh" /\ UNCHANGED <<taker, remaining, trades>>
            /\ took' = [took EXCEPT ![taker] = order[taker].total_qty - remaining]
         \/ pc = "refresh" /\ UNCHANGED <<pc, taker, remaining, trades, took>>
         \/ /\ pc = "refresh" /\ pc' = "idle" /\ took' = took
            /\ result'.id = taker /\ result'.trades = trades
            /\ remaining > 0 /\ trades = <<>> => result'.status \in {"Accepted", "Cancelled"}
  BY <1>0, EngineFacts
<1>3. /\ handling # Nothing /\ OnOrder /\ taker = Cur
      /\ Traded(trades) + remaining = order[Cur].total_qty
      /\ Cur \in ME!Id
  BY <1>2 DEF ReportInv, OnOrder
<1>4. Cur' = Cur /\ Done' = Done /\ Done = 1 .. (Cur - 1)
  <2>1. next_order_id_ \in Int
    BY <1>0, ResultTyped
  <2> QED
    BY <1>1, <1>2, <1>3, <2>1 DEF Cur, Done
<1>5. /\ trades \in Seq(MEP!Trade) /\ remaining \in Nat /\ took \in [MEP!Id -> Nat]
      /\ order \in [MEP!Id -> MEP!Order] /\ Cur \in MEP!Id
  BY <1>0, <1>3, ResultTyped DEF ME!Id, MEP!Id
<1>6. order[Cur].total_qty \in Nat /\ Traded(trades) \in Int /\ took[Cur] \in Nat
  BY <1>5, QtysTyped DEF MEP!Order
<1>7. pc' # "idle" => taker' = Cur /\ Traded(trades') + remaining' = order[Cur].total_qty
  <2>1. ASSUME NEW t \in MEP!Trade, trades' = Append(trades, t), remaining' = remaining - t.qty
        PROVE  Traded(trades') + remaining' = order[Cur].total_qty
    <3>1. Traded(trades') = Traded(trades) + t.qty /\ t.qty \in Nat
      BY <1>5, <2>1, TradedMore
    <3> QED
      BY <1>3, <1>5, <1>6, <2>1, <3>1
  <2>2. UNCHANGED trades => Traded(trades') = Traded(trades)
    OBVIOUS
  <2> QED
    BY <1>2, <1>3, <2>1, <2>2
<1>8. pc' = "refresh" => took'[Cur] + remaining' = order[Cur].total_qty
  BY <1>2, <1>3, <1>5, <1>6 DEF OnOrder
<1>9. pc' = "idle" => /\ result'.id = Cur
                      /\ Traded(result'.trades) = took'[Cur] /\ took'[Cur] <= order[Cur].total_qty
                      /\ order[Cur].total_qty > 0 /\ result'.trades = <<>>
                            => result'.status \in {"Accepted", "Cancelled"}
  <2> SUFFICES ASSUME pc' = "idle"
               PROVE  /\ result'.id = Cur
                      /\ Traded(result'.trades) = took'[Cur] /\ took'[Cur] <= order[Cur].total_qty
                      /\ order[Cur].total_qty > 0 /\ result'.trades = <<>>
                            => result'.status \in {"Accepted", "Cancelled"}
    OBVIOUS
  <2>1. /\ pc = "refresh" /\ took' = took
        /\ result'.id = taker /\ result'.trades = trades
        /\ remaining > 0 /\ trades = <<>> => result'.status \in {"Accepted", "Cancelled"}
    BY <1>2
  <2>2. took[Cur] + remaining = order[Cur].total_qty
    BY <1>3, <2>1 DEF OnOrder
  <2>3. Traded(result'.trades) = Traded(trades)
    BY <2>1
  <2>4. trades = <<>> => Traded(trades) = 0
    BY TradedNothing
  <2> QED
    BY <1>3, <1>5, <1>6, <2>1, <2>2, <2>3, <2>4
<1>10. OnOrder'
  <2>1. owner'[Cur] = {fd'} /\ order'[Cur].total_qty = handling'.order.total_qty
    BY <1>1, <1>2, <1>3 DEF OnOrder
  <2> QED
    BY <1>2, <1>3, <1>4, <1>7, <1>8, <1>9, <2>1 DEF OnOrder, Traded
<1>11. ToldOfDone'
  BY <1>1, <1>4 DEF ReportInv, ToldOfDone
<1>12. \A c \in Client, i \in Done : AddsUp(c, i)'
  <2> SUFFICES ASSUME NEW c \in Client, NEW i \in Done PROVE AddsUp(c, i)'
    OBVIOUS
  <2>1. i # Cur
    BY <1>3, <1>4 DEF ME!Id
  <2>2. took'[i] = took[i]
    <3>1. taker # i
      BY <1>3, <2>1
    <3>2. \A x : [took EXCEPT ![taker] = x][i] = took[i]
      BY <1>5, <3>1
    <3>3. took' = took \/ \E x : took' = [took EXCEPT ![taker] = x]
      BY <1>2
    <3> QED
      BY <3>2, <3>3
  <2>3. AddsUp(c, i)
    BY DEF ReportInv
  <2> QED
    BY <1>1, <1>2, <2>2, <2>3, ReportSameAnswers
<1> QED
  BY <1>1, <1>3, <1>4, <1>10, <1>11, <1>12 DEF ReportInv

LEMMA ReportReply ==
    ASSUME Base, ReportInv, ReplyNewOrder
    PROVE  ReportInv'
<1>0. NetType /\ MEP!IInv /\ handling # Nothing /\ pc = "idle"
  BY DEF Base, ReplyNewOrder
<1>1. OnOrder
  BY <1>0 DEF ReportInv
<1>2. PICK r \in Orders :
        /\ handling = NewOrder(r) /\ handling.order = r
        /\ Reports(r, result) \o Status(r, result) \in Seq(Reply)
        /\ Send(fd, Reports(r, result) \o Status(r, result))
  BY AnswersOrder
<1> DEFINE sent == Reports(r, result) \o Status(r, result)
<1>3. sent \in Seq(Reply) /\ Send(fd, sent)
  BY <1>2
<1>4. handling' = Nothing /\ UNCHANGED <<pc, next_order_id_, order, took, owner, fd>>
  BY DEF ReplyNewOrder, engine
<1>5. /\ result.id = Cur /\ result.trades \in Seq(MEP!Trade) /\ Cur \in Nat /\ next_order_id_ \in Nat
      /\ Traded(result.trades) = took[Cur] /\ took[Cur] <= order[Cur].total_qty
      /\ order[Cur].total_qty = r.total_qty /\ order[Cur].total_qty \in Nat
      /\ owner[Cur] = {fd} /\ took[Cur] \in Nat
      /\ order[Cur].total_qty > 0 /\ result.trades = <<>>
              => result.status \in {"Rejected", "Cancelled", "Accepted"}
  <2>1. Cur \in MEP!Id /\ order \in [MEP!Id -> MEP!Order] /\ took \in [MEP!Id -> Nat]
    BY <1>0, <1>1, ResultTyped DEF OnOrder, ME!Id, MEP!Id
  <2>2. order[Cur].total_qty \in Nat /\ took[Cur] \in Nat
    BY <2>1 DEF MEP!Order
  <2>3. result.trades \in Seq(MEP!Trade) /\ result.id \in Nat /\ next_order_id_ \in Nat
    BY <1>0, ResultTyped
  <2> QED
    BY <1>0, <1>1, <1>2, <2>2, <2>3 DEF OnOrder
<1> DEFINE q == took[Cur]
           rest == order[Cur].total_qty - took[Cur]
<1>6. /\ Adds(sent, q, rest, Cur)
      /\ order[Cur].total_qty > 0 => Answered(sent, Cur)
      /\ \A k \in DOMAIN sent : sent[k].type = "EXECUTION" => sent[k].id = Cur
  <2>1. /\ result.id \in Nat /\ Traded(result.trades) <= r.total_qty /\ r.total_qty \in Nat
        /\ r.total_qty > 0 /\ result.trades = <<>>
              => result.status \in {"Rejected", "Cancelled", "Accepted"}
    BY <1>5
  <2>2. /\ Adds(sent, Traded(result.trades), r.total_qty - Traded(result.trades), result.id)
        /\ r.total_qty > 0 => Answered(sent, result.id)
        /\ \A k \in DOMAIN sent : sent[k].type = "EXECUTION" => sent[k].id = result.id
    BY <1>5, <2>1, ReportsAdd
  <2> HIDE DEF sent
  <2> QED
    BY <1>5, <2>2
<1> HIDE DEF sent, q, rest
<1>7. Done = 1 .. (Cur - 1) /\ Done' = 1 .. Cur
  BY <1>0, <1>4, <1>5 DEF Cur, Done
<1>8. ASSUME NEW c \in Client
      PROVE  /\ answers'[c] = IF c = fd THEN answers[c] \o sent ELSE answers[c]
             /\ answers[c] \in Seq(Reply)
             /\ \A k \in DOMAIN answers[c] : ~Tells(answers[c][k], Cur)
  <2>1. Cur \notin Done
    BY <1>5, <1>7
  <2>2. \A k \in DOMAIN answers[c] : ~Tells(answers[c][k], Cur)
    BY <2>1 DEF ReportInv, ToldOfDone, Tells
  <2>3. /\ answers'[c] = IF c = fd THEN answers[c] \o sent ELSE answers[c]
        /\ answers[c] \in Seq(Reply)
    BY <1>0, <1>3, AnswersAfter
  <2> QED
    BY <2>2, <2>3
<1>9. ToldOfDone'
  <2> SUFFICES ASSUME NEW c \in Client, NEW k \in DOMAIN answers'[c], answers'[c][k].type = "EXECUTION"
               PROVE  answers'[c][k].id \in Done'
    BY DEF ToldOfDone
  <2>1. Done \subseteq Done' /\ Cur \in Done'
    BY <1>1, <1>5, <1>7 DEF OnOrder, ME!Id
  <2>2. CASE c # fd
    BY <1>8, <2>1, <2>2 DEF ReportInv, ToldOfDone
  <2>3. CASE c = fd
    <3>1. answers'[c] = answers[c] \o sent /\ answers[c] \in Seq(Reply)
      BY <1>8, <2>3
    <3>2. \/ k \in DOMAIN answers[c] /\ answers'[c][k] = answers[c][k]
          \/ k - Len(answers[c]) \in DOMAIN sent /\ answers'[c][k] = sent[k - Len(answers[c])]
      BY <1>3, <3>1, JoinAt
    <3> QED
      BY <1>6, <2>1, <3>2 DEF ReportInv, ToldOfDone
  <2> QED
    BY <2>2, <2>3
<1>10. ASSUME NEW c \in Client, NEW i \in Done
       PROVE  AddsUp(c, i)'
  <2>1. i # Cur
    BY <1>5, <1>7
  <2>2. \A k \in DOMAIN sent : ~Tells(sent[k], i)
    BY <1>6, <2>1 DEF Tells
  <2>3. AddsUp(c, i) /\ answers'[c] \in {answers[c], answers[c] \o sent}
    BY <1>8 DEF ReportInv
  <2>4. owner'[i] = owner[i] /\ took'[i] = took[i] /\ order'[i] = order[i]
    BY <1>4
  <2> QED
    BY <1>0, <1>3, <2>2, <2>3, <2>4, StillAddsUp
<1>11. ASSUME NEW c \in Client, NEW i, i = Cur
       PROVE  AddsUp(c, i)'
  <2>1. Adds(answers[c], 0, rest, Cur)
    BY <1>8, AddsNothing
  <2>2. CASE c = fd
    <3>1. Adds(answers[c] \o sent, 0 + q, rest, Cur)
      BY <1>3, <1>6, <1>8, <2>1, AddsJoin
    <3>2. 0 + q = q
      BY <1>5 DEF q
    <3>3. order[Cur].total_qty > 0 => Answered(answers[c] \o sent, Cur)
      BY <1>3, <1>6, <1>8, AnsweredJoin
    <3>4. answers'[c] = answers[c] \o sent /\ c \in owner[Cur]
      BY <1>5, <1>8, <2>2
    <3>5. /\ Adds(answers'[c], took[Cur], order[Cur].total_qty - took[Cur], Cur)
          /\ order[Cur].total_qty > 0 => Answered(answers'[c], Cur)
      BY <3>1, <3>2, <3>3, <3>4 DEF q, rest
    <3> QED
      BY <1>4, <1>11, <3>4, <3>5, AddsUpParts, Zenon
  <2>3. CASE c # fd
    <3>1. answers'[c] = answers[c] /\ c \notin owner[Cur]
      BY <1>5, <1>8, <2>3
    <3>2. Adds(answers'[c], 0, order[Cur].total_qty - took[Cur], Cur)
      BY <2>1, <3>1 DEF rest
    <3> QED
      BY <1>4, <1>11, <3>1, <3>2, AddsUpParts, Zenon
  <2> QED
    BY <2>2, <2>3
<1>12. \A i \in Done' : i \in Done \/ i = Cur
  BY <1>5, <1>7
<1>13. \A c \in Client, i \in Done' : AddsUp(c, i)'
  <2> TAKE c \in Client, i \in Done'
  <2>1. CASE i \in Done
    BY <1>10, <2>1
  <2>2. CASE i = Cur
    BY <1>11, <2>2
  <2> QED
    BY <1>12, <2>1, <2>2
<1> QED
  BY <1>0, <1>4, <1>9, <1>13 DEF ReportInv

LEMMA CancelFacts ==
    ASSUME NEW i, ME!CancelOrder(i)
    PROVE  UNCHANGED <<pc, next_order_id_, order, took>>
BY DEF ME!CancelOrder, ME!CancelFound, ME!CancelUnknown, ME!hist

LEMMA ReportNext == Base /\ Base' /\ ReportInv /\ [Next]_vars => ReportInv'
<1> SUFFICES ASSUME Base, Base', ReportInv, [Next]_vars PROVE ReportInv'
  OBVIOUS
<1>0. NetType
  BY DEF Base
<1>1. CASE \/ HandleIgnored \/ UNCHANGED vars
           \/ \E d \in Client : Timeout(d) \/ PrintResponse(d) \/ \E m \in Message : Enter(d, m)
  BY <1>1, ReportQuiet DEF HandleIgnored, vars, Timeout, PrintResponse, Enter, server
<1>2. ASSUME NEW d \in Client, Receive(d)
      PROVE  ReportInv'
  <2>1. handling = Nothing /\ UNCHANGED <<engine, answers, owner, handling>>
    BY <1>2 DEF Receive, BetweenMessages
  <2> QED
    BY <2>1, ReportQuiet
<1>3. CASE HandleInvalid
  <2> DEFINE replies == <<Reject(0, "INVALID_MESSAGE")>>
  <2>1. /\ BetweenMessages /\ Send(fd, replies)
        /\ UNCHANGED <<pc, handling, next_order_id_, order, took, owner>>
    BY <1>3 DEF HandleInvalid, engine
  <2>2. \A k \in DOMAIN replies : replies[k].type # "EXECUTION"
    BY DEF Reject
  <2>3. replies \in Seq(Reply)
    BY <1>0, <1>3, RejectsInvalid
  <2> HIDE DEF replies
  <2> QED
    BY <1>0, <2>1, <2>2, <2>3, ReportOther
<1>4. CASE HandleCancel
  <2>1. BetweenMessages /\ UNCHANGED <<handling, owner>>
    BY <1>4 DEF HandleCancel
  <2>2. PICK m \in Readings, yes \in BOOLEAN :
            CancelReply(m, yes) \in Seq(Reply) /\ Send(fd, CancelReply(m, yes))
    BY <1>0, <1>4, AnswersCancel
  <2>3. \A k \in DOMAIN CancelReply(m, yes) : CancelReply(m, yes)[k].type # "EXECUTION"
    BY DEF CancelReply, Accepted, Reject
  <2>4. UNCHANGED <<pc, next_order_id_, order, took>>
    BY <1>4, CancelFacts DEF HandleCancel
  <2> QED
    BY <1>0, <2>1, <2>2, <2>3, <2>4, ReportOther
<1> QED
  BY <1>1, <1>2, <1>3, <1>4, ReportNewOrder, ReportEngine, ReportReply, StepKinds DEF EngineUnmoved

(* What a client is told of an order adds up: its EXECUTIONs are all the   *)
(* order traded when it came in, no one else hears of them, and an order   *)
(* for anything is answered - for any number of clients and orders, also   *)
(* when messages are cut and misread.                                      *)
THEOREM ReportsRight == Spec => []ReportsAddUp
<1>1. ReportInv => ReportsAddUp
  <2> SUFFICES ASSUME ReportInv, BetweenMessages PROVE \A c \in Client, i \in ME!Submitted : AddsUp(c, i)
    BY DEF ReportsAddUp
  <2>1. Done = ME!Submitted
    BY DEF BetweenMessages, Done, ME!Submitted
  <2> QED
    BY <2>1 DEF ReportInv
<1> QED
  BY <1>1, BaseInit, BaseNext, ReportInit, ReportNext, PTL DEF Spec
=============================================================================
