------------------------ MODULE MatchingEngineProofs ------------------------
(***************************************************************************)
(* Theorems about MatchingEngine, for every number of orders, prices,      *)
(* quantities and widths.  First its inductive invariant: types, the       *)
(* index, the conservation of quantity; then, without icebergs, that the   *)
(* book is never crossed; then that no iceberg's hidden quantity is        *)
(* stranded, that makers are filled best price and oldest first, that a    *)
(* level's cached total is the sum of its orders, and that the trade tape  *)
(* accounts for every fill.                                                *)
(***************************************************************************)
EXTENDS MatchingEngine, SequenceTheorems, WellFoundedInduction, TLAPS

-----------------------------------------------------------------------------
(* Sequences: what the level operations do to the orders in a queue *)

(* Appending adds one element, at no one's expense. *)
LEMMA AppendFacts ==
    ASSUME NEW S, NEW q \in Seq(S), NEW e \in S
    PROVE  /\ Append(q, e) \in Seq(S)
           /\ \A i : Contains(Append(q, e), i) <=> Contains(q, i) \/ i = e
           /\ IsInjective(q) /\ ~Contains(q, e) => IsInjective(Append(q, e))
<1>1. /\ Append(q, e) \in Seq(S)
      /\ Len(Append(q, e)) = Len(q) + 1
      /\ \A k \in 1 .. Len(q) : Append(q, e)[k] = q[k]
      /\ Append(q, e)[Len(q) + 1] = e
      /\ DOMAIN Append(q, e) = 1 .. (Len(q) + 1)
      /\ DOMAIN q = 1 .. Len(q)
      /\ Len(q) \in Nat
  BY AppendProperties, LenProperties
<1>2. \A i : Contains(Append(q, e), i) <=> Contains(q, i) \/ i = e
  BY <1>1 DEF Contains
<1>3. IsInjective(q) /\ ~Contains(q, e) => IsInjective(Append(q, e))
  BY <1>1 DEF Contains, IsInjective
<1>4. QED  BY <1>1, <1>2, <1>3

(* Popping the front removes exactly the front. *)
LEMMA TailFacts ==
    ASSUME NEW S, NEW q \in Seq(S), q # <<>>
    PROVE  /\ Tail(q) \in Seq(S)
           /\ Head(q) \in S
           /\ Contains(q, Head(q))
           /\ \A i : Contains(q, i) <=> Contains(Tail(q), i) \/ i = Head(q)
           /\ IsInjective(q) => IsInjective(Tail(q)) /\ ~Contains(Tail(q), Head(q))
<1>1. /\ Tail(q) \in Seq(S)
      /\ Head(q) \in S
      /\ Len(q) \in Nat /\ Len(q) >= 1
      /\ Len(Tail(q)) = Len(q) - 1
      /\ \A k \in 1 .. Len(Tail(q)) : Tail(q)[k] = q[k + 1]
      /\ Head(q) = q[1]
      /\ DOMAIN q = 1 .. Len(q)
      /\ DOMAIN Tail(q) = 1 .. Len(Tail(q))
  BY HeadTailProperties, LenProperties, EmptySeq
<1>2. Contains(q, Head(q))
  BY <1>1 DEF Contains
<1>3. ASSUME NEW i
      PROVE  Contains(q, i) <=> Contains(Tail(q), i) \/ i = Head(q)
  <2>1. ASSUME Contains(q, i), i # Head(q)
        PROVE  Contains(Tail(q), i)
    <3>1. PICK k \in 1 .. Len(q) : q[k] = i
      BY <2>1 DEF Contains
    <3>2. k - 1 \in 1 .. Len(Tail(q)) /\ Tail(q)[k - 1] = i
      BY <1>1, <2>1, <3>1
    <3>3. QED  BY <3>2 DEF Contains
  <2>2. ASSUME Contains(Tail(q), i)
        PROVE  Contains(q, i)
    <3>1. PICK k \in 1 .. Len(Tail(q)) : Tail(q)[k] = i
      BY <2>2 DEF Contains
    <3>2. k + 1 \in 1 .. Len(q) /\ q[k + 1] = i
      BY <1>1, <3>1
    <3>3. QED  BY <3>2 DEF Contains
  <2>3. QED  BY <1>2, <2>1, <2>2
<1>4. IsInjective(q) => IsInjective(Tail(q)) /\ ~Contains(Tail(q), Head(q))
  BY <1>1 DEF Contains, IsInjective
<1>5. QED  BY <1>1, <1>2, <1>3, <1>4

(* Removing position n shifts the orders behind it forward by one. *)
LEMMA RemoveAtFacts ==
    ASSUME NEW S, NEW q \in Seq(S), NEW n \in 1 .. Len(q)
    PROVE  /\ RemoveAt(q, n) \in Seq(S)
           /\ Len(RemoveAt(q, n)) = Len(q) - 1
           /\ \A k \in 1 .. (Len(q) - 1) : RemoveAt(q, n)[k] = IF k < n THEN q[k] ELSE q[k + 1]
<1>1. Len(q) \in Nat /\ \A k \in 1 .. Len(q) : q[k] \in S
  BY LenProperties, ElementOfSeq
<1>2. PICK a : a = SubSeq(q, 1, n - 1)  OBVIOUS
<1>3. PICK b : b = SubSeq(q, n + 1, Len(q))  OBVIOUS
<1>4. /\ a \in Seq(S) /\ Len(a) = n - 1
      /\ \A k \in 1 .. (n - 1) : a[k] = q[k]
  BY <1>1, <1>2, SubSeqProperties
<1>5. /\ b \in Seq(S)
      /\ Len(b) = IF n + 1 <= Len(q) THEN Len(q) - (n + 1) + 1 ELSE 0
      /\ \A k \in 1 .. (Len(q) - (n + 1) + 1) : b[k] = q[(n + 1) + k - 1]
  <2>1. n + 1 \in Int /\ Len(q) \in Int /\ \A k \in (n + 1) .. Len(q) : q[k] \in S
    BY <1>1
  <2>2. QED  BY <1>3, <2>1, SubSeqProperties
<1>6. /\ Len(b) = Len(q) - n
      /\ \A k \in 1 .. (Len(q) - n) : b[k] = q[n + k]
  BY <1>1, <1>5
<1>7. /\ a \o b \in Seq(S)
      /\ Len(a \o b) = Len(q) - 1
      /\ \A k \in 1 .. (Len(q) - 1) : (a \o b)[k] = IF k <= n - 1 THEN a[k] ELSE b[k - (n - 1)]
  <2>1. /\ a \o b \in Seq(S)
        /\ Len(a \o b) = Len(a) + Len(b)
        /\ \A k \in 1 .. Len(a) + Len(b) : (a \o b)[k] = IF k <= Len(a) THEN a[k] ELSE b[k - Len(a)]
    BY <1>4, <1>5, ConcatProperties
  <2>2. Len(a) + Len(b) = Len(q) - 1 /\ Len(a) = n - 1
    BY <1>1, <1>4, <1>6
  <2>3. QED  BY <2>1, <2>2
<1>8. PICK c : c = a \o b  OBVIOUS
<1>9. /\ c \in Seq(S)
      /\ Len(c) = Len(q) - 1
      /\ \A k \in 1 .. (Len(q) - 1) : c[k] = IF k <= n - 1 THEN a[k] ELSE b[k - (n - 1)]
  BY <1>7, <1>8
<1>10. ASSUME NEW k \in 1 .. (Len(q) - 1)
       PROVE  c[k] = IF k < n THEN q[k] ELSE q[k + 1]
  <2>1. CASE k < n
    BY <1>1, <1>4, <1>9, <2>1, SMTT(40)
  <2>2. CASE k >= n
    <3>1. k - (n - 1) \in 1 .. (Len(q) - n) /\ n + (k - (n - 1)) = k + 1
      BY <1>1, <2>2
    <3>2. b[k - (n - 1)] = q[k + 1]
      BY <3>1, <1>6
    <3>3. QED  BY <1>1, <1>9, <2>2, <3>2
  <2>3. QED  BY <1>1, <2>1, <2>2
<1>11. RemoveAt(q, n) = c
  BY <1>2, <1>3, <1>8 DEF RemoveAt
<1>12. QED  BY <1>9, <1>10, <1>11

(* Erasing an order from a level removes exactly that order. *)
LEMMA WithoutFacts ==
    ASSUME NEW S, NEW q \in Seq(S), NEW e, IsInjective(q)
    PROVE  /\ Without(q, e) \in Seq(S)
           /\ \A i : Contains(Without(q, e), i) <=> Contains(q, i) /\ i # e
           /\ IsInjective(Without(q, e))
<1>1. CASE ~Contains(q, e)
  BY <1>1 DEF Without, Contains
<1>2. CASE Contains(q, e)
  <2>1. PICK n \in 1 .. Len(q) : n = CHOOSE k \in 1 .. Len(q) : q[k] = e
    BY <1>2 DEF Contains
  <2>2. q[n] = e
    BY <1>2, <2>1 DEF Contains
  <2>3. Len(q) \in Nat /\ DOMAIN q = 1 .. Len(q)
    BY LenProperties
  <2>4. PICK r : r = RemoveAt(q, n)
    OBVIOUS
  <2>5. /\ r \in Seq(S)
        /\ Len(r) = Len(q) - 1
        /\ \A k \in 1 .. (Len(q) - 1) : r[k] = IF k < n THEN q[k] ELSE q[k + 1]
        /\ DOMAIN r = 1 .. (Len(q) - 1)
    BY <2>4, RemoveAtFacts, LenProperties
  <2>6. ASSUME NEW i
        PROVE  Contains(r, i) <=> Contains(q, i) /\ i # e
    <3>1. ASSUME Contains(r, i) PROVE Contains(q, i) /\ i # e
      BY <2>2, <2>3, <2>5, <3>1 DEF Contains, IsInjective
    <3>2. ASSUME Contains(q, i), i # e PROVE Contains(r, i)
      <4>1. PICK k \in 1 .. Len(q) : q[k] = i
        BY <3>2 DEF Contains
      <4>2. CASE k < n
        BY <2>3, <2>5, <4>1, <4>2 DEF Contains
      <4>3. CASE k > n
        <5>1. k - 1 \in 1 .. (Len(q) - 1) /\ r[k - 1] = i
          BY <2>3, <2>5, <4>1, <4>3
        <5>2. QED  BY <2>5, <5>1 DEF Contains
      <4>4. QED  BY <2>2, <2>3, <3>2, <4>1, <4>2, <4>3
    <3>3. QED  BY <3>1, <3>2
  <2>7. IsInjective(r)
    BY <2>3, <2>5, SMTT(40) DEF IsInjective
  <2>8. Without(q, e) = r
    BY <1>2, <2>1, <2>4 DEF Without
  <2>9. QED  BY <2>5, <2>6, <2>7, <2>8
<1>3. QED  BY <1>1, <1>2

-----------------------------------------------------------------------------
(* The book: what each way of writing it does, as a whole *)

LEMMA ModType == \A a \in Int : a % QMod \in 0 .. (QMod - 1)
BY ConstantsAssumption

(* The variables of the book have their types. *)
BookTypeOK ==
    /\ queue \in [Side -> [Price -> Seq(Id)]]
    /\ remaining_qty \in [Id -> Nat]
    /\ total_quantity \in [Side -> [Price -> 0 .. (QMod - 1)]]
    /\ orders_index_ \in [Id -> Location \cup {NoLoc}]

BookInjective == \A s \in Side, p \in Price : IsInjective(queue[s][p])

(* Placing an order that is not in the book puts it in one level, once. *)
LEMMA AddToLevelFacts ==
    ASSUME BookTypeOK, BookInjective,
           NEW id \in Id, NEW o, o.side \in Side, o.price \in Price, NEW q \in Nat,
           ~Resting(id), AddToLevel(id, o, q)
    PROVE  /\ BookTypeOK'
           /\ BookInjective'
           /\ \A s \in Side, p \in Price, i \in Id :
                 Contains(queue'[s][p], i) <=>
                     Contains(queue[s][p], i) \/ (i = id /\ s = o.side /\ p = o.price)
           /\ remaining_qty' = [remaining_qty EXCEPT ![id] = q]
           /\ orders_index_' = [orders_index_ EXCEPT ![id] = <<o.side, o.price>>]
<1> DEFINE old == queue[o.side][o.price]
<1>1. old \in Seq(Id) /\ ~Contains(old, id) /\ IsInjective(old)
  BY DEF BookTypeOK, BookInjective, Resting
<1>2. /\ Append(old, id) \in Seq(Id)
      /\ \A i : Contains(Append(old, id), i) <=> Contains(old, i) \/ i = id
      /\ IsInjective(Append(old, id))
  BY <1>1, AppendFacts
<1>3. \A s \in Side, p \in Price :
          queue'[s][p] = IF s = o.side /\ p = o.price THEN Append(old, id) ELSE queue[s][p]
  BY DEF BookTypeOK, AddToLevel
<1>4. /\ queue' \in [Side -> [Price -> Seq(Id)]]
      /\ remaining_qty' \in [Id -> Nat]
  BY <1>2 DEF BookTypeOK, AddToLevel
<1>5. total_quantity' \in [Side -> [Price -> 0 .. (QMod - 1)]]
  <2>1. total_quantity[o.side][o.price] + q \in Int
    <3>1. total_quantity[o.side][o.price] \in 0 .. (QMod - 1)
      BY DEF BookTypeOK
    <3>2. QED  BY <3>1, ConstantsAssumption
  <2>2. (total_quantity[o.side][o.price] + q) % QMod \in 0 .. (QMod - 1)
    BY <2>1, ModType
  <2>3. QED  BY <2>2 DEF BookTypeOK, AddToLevel
<1>6. orders_index_' \in [Id -> Location \cup {NoLoc}]
  BY DEF BookTypeOK, AddToLevel, Location
<1>7. BookInjective'
  BY <1>2, <1>3 DEF BookInjective
<1>8. QED  BY <1>2, <1>3, <1>4, <1>5, <1>6, <1>7, SMTT(40) DEF BookTypeOK, AddToLevel

(* Cancelling an indexed order takes it, and nothing else, out of the book. *)
LEMMA RemoveFromBookFacts ==
    ASSUME BookTypeOK, IndexCoversBook, NEW id \in Id, orders_index_[id] # NoLoc,
           RemoveFromBook(id)
    PROVE  /\ BookTypeOK'
           /\ BookInjective'
           /\ \A s \in Side, p \in Price, i \in Id :
                 Contains(queue'[s][p], i) <=> Contains(queue[s][p], i) /\ i # id
           /\ remaining_qty' = [remaining_qty EXCEPT ![id] = 0]
           /\ orders_index_' = [orders_index_ EXCEPT ![id] = NoLoc]
<1>1. PICK s0 \in Side, p0 \in Price : orders_index_[id] = <<s0, p0>>
  BY DEF BookTypeOK, Location
<1> DEFINE old == queue[s0][p0]
           new == Without(old, id)
<1>2. old \in Seq(Id) /\ IsInjective(old)
  BY DEF BookTypeOK, IndexCoversBook
<1>3. /\ new \in Seq(Id)
      /\ \A i : Contains(new, i) <=> Contains(old, i) /\ i # id
      /\ IsInjective(new)
  BY <1>2, WithoutFacts
<1>4. orders_index_[id][1] = s0 /\ orders_index_[id][2] = p0
  BY <1>1
<1> HIDE DEF new
<1>5. /\ queue' = [queue EXCEPT ![s0][p0] = new]
      /\ total_quantity' = [total_quantity EXCEPT ![s0][p0] =
                               IF new = <<>> THEN 0 ELSE (@ - remaining_qty[id]) % QMod]
  BY <1>4 DEF RemoveFromBook, new
<1>6. \A s \in Side, p \in Price :
          queue'[s][p] = IF s = s0 /\ p = p0 THEN new ELSE queue[s][p]
  BY <1>5 DEF BookTypeOK
<1>7. queue' \in [Side -> [Price -> Seq(Id)]]
  BY <1>3, <1>5 DEF BookTypeOK
<1>8. total_quantity' \in [Side -> [Price -> 0 .. (QMod - 1)]]
  <2>1. total_quantity[s0][p0] - remaining_qty[id] \in Int
    BY ConstantsAssumption DEF BookTypeOK
  <2>2. (total_quantity[s0][p0] - remaining_qty[id]) % QMod \in 0 .. (QMod - 1)
    BY <2>1, ModType
  <2>3. 0 \in 0 .. (QMod - 1)
    BY ConstantsAssumption
  <2>4. QED  BY <1>5, <2>2, <2>3 DEF BookTypeOK
<1>9. /\ remaining_qty' = [remaining_qty EXCEPT ![id] = 0]
      /\ orders_index_' = [orders_index_ EXCEPT ![id] = NoLoc]
      /\ remaining_qty' \in [Id -> Nat]
      /\ orders_index_' \in [Id -> Location \cup {NoLoc}]
  BY DEF RemoveFromBook, BookTypeOK
<1>10. \A s \in Side, p \in Price, i \in Id :
          Contains(queue'[s][p], i) <=> Contains(queue[s][p], i) /\ i # id
  <2> TAKE s \in Side, p \in Price, i \in Id
  <2>1. CASE s = s0 /\ p = p0
    BY <1>3, <1>6, <2>1
  <2>2. CASE ~(s = s0 /\ p = p0)
    <3>1. Contains(queue[s][p], id) => orders_index_[id] = <<s, p>>
      BY DEF IndexCoversBook
    <3>2. ~Contains(queue[s][p], id)
      BY <1>1, <2>2, <3>1
    <3>3. QED  BY <1>6, <2>2, <3>2
  <2>3. QED  BY <2>1, <2>2
<1>11. BookInjective'
  BY <1>3, <1>6 DEF BookInjective, IndexCoversBook
<1>12. QED  BY <1>7, <1>8, <1>9, <1>10, <1>11 DEF BookTypeOK

(* What a fill of c units of maker m at level p of side s leaves there     *)
RestAfter(s, p, m, c) == IF c = remaining_qty[m] THEN Tail(queue[s][p]) ELSE queue[s][p]

(* What it does                                                            *)
FillEffect(s, p, m, c) ==
    /\ m = Head(queue[s][p]) /\ Contains(queue[s][p], m)
    /\ queue' = [queue EXCEPT ![s][p] = RestAfter(s, p, m, c)]
    /\ total_quantity' = [total_quantity EXCEPT ![s][p] =
                             IF RestAfter(s, p, m, c) = <<>> THEN 0 ELSE (@ - c) % QMod]
    /\ c <= remaining /\ c <= remaining_qty[m]
    /\ c = remaining \/ c = remaining_qty[m]
    /\ remaining' = remaining - c
    /\ remaining_qty' = [remaining_qty EXCEPT ![m] = @ - c]
    /\ filled' = [filled EXCEPT ![m] = @ + c, ![taker] = @ + c]
    /\ trades' = Append(trades, [maker |-> m, taker |-> taker, price |-> p, qty |-> c])
    /\ iceberg_consumed' = IF c = remaining_qty[m] /\ IsIceberg(order[m])
                             THEN Append(iceberg_consumed, m) ELSE iceberg_consumed
    /\ \A t \in Side, l \in Price, i \in Id :
          Contains(queue'[t][l], i) <=>
              Contains(queue[t][l], i) /\ ~(i = m /\ c = remaining_qty[m])
    /\ BookTypeOK'
    /\ BookInjective'

(* One fill takes c units from one maker m, and removes m from the book    *)
(* exactly when nothing of m's copy is left.                               *)
LEMMA FillFrontFacts ==
    ASSUME BookTypeOK, IndexCoversBook, remaining \in Nat,
           NEW s \in Side, s = Opposite(order[taker].side),
           NEW p \in Price, queue[s][p] # <<>>,
           FillFront(p)
    PROVE  \E m \in Id, c \in Nat : FillEffect(s, p, m, c)
<1> DEFINE old == queue[s][p]
           m == Head(old)
           c == MinOf(remaining, remaining_qty[m])
           gone == c = remaining_qty[m]
           new == RestAfter(s, p, m, c)
<1>1. old \in Seq(Id) /\ IsInjective(old)
  BY DEF BookTypeOK, IndexCoversBook
<1>2. /\ Tail(old) \in Seq(Id)
      /\ m \in Id
      /\ Contains(old, m)
      /\ \A i : Contains(old, i) <=> Contains(Tail(old), i) \/ i = m
      /\ IsInjective(Tail(old)) /\ ~Contains(Tail(old), m)
  BY <1>1, TailFacts, SMTT(40)
<1>3. /\ remaining' = remaining - c
      /\ queue' = [queue EXCEPT ![s][p] = new]
      /\ remaining_qty' = [remaining_qty EXCEPT ![m] = @ - c]
      /\ total_quantity' = [total_quantity EXCEPT ![s][p] =
                               IF new = <<>> THEN 0 ELSE (@ - c) % QMod]
      /\ filled' = [filled EXCEPT ![m] = @ + c, ![taker] = @ + c]
      /\ trades' = Append(trades, [maker |-> m, taker |-> taker, price |-> p, qty |-> c])
      /\ iceberg_consumed' = IF gone /\ IsIceberg(order[m])
                               THEN Append(iceberg_consumed, m) ELSE iceberg_consumed
      /\ orders_index_' = orders_index_
      /\ m = Head(queue[s][p])
  BY ZenonT(40) DEF FillFront, RestAfter
<1>4. /\ new \in Seq(Id) /\ IsInjective(new)
      /\ \A i \in Id : Contains(new, i) <=> Contains(old, i) /\ ~(i = m /\ gone)
  BY <1>1, <1>2 DEF RestAfter
<1> HIDE DEF m
<1>5. /\ c \in Nat /\ c <= remaining /\ c <= remaining_qty[m]
      /\ c = remaining \/ c = remaining_qty[m]
      /\ remaining_qty[m] \in Nat
  BY <1>2 DEF MinOf, BookTypeOK
<1> HIDE DEF c, new
<1>6. \A t \in Side, l \in Price :
          queue'[t][l] = IF t = s /\ l = p THEN new ELSE queue[t][l]
  BY <1>3 DEF BookTypeOK
<1>7. \A t \in Side, l \in Price, i \in Id :
          Contains(queue'[t][l], i) <=> Contains(queue[t][l], i) /\ ~(i = m /\ gone)
  <2> TAKE t \in Side, l \in Price, i \in Id
  <2>1. CASE t = s /\ l = p
    BY <1>4, <1>6, <2>1
  <2>2. CASE ~(t = s /\ l = p)
    <3>1. orders_index_[m] = <<s, p>> /\ (Contains(queue[t][l], m) => orders_index_[m] = <<t, l>>)
      BY <1>2 DEF IndexCoversBook
    <3>2. ~Contains(queue[t][l], m)
      BY <2>2, <3>1
    <3>3. QED  BY <1>6, <2>2, <3>2
  <2>3. QED  BY <2>1, <2>2
<1>8. queue' \in [Side -> [Price -> Seq(Id)]]
  BY <1>3, <1>4 DEF BookTypeOK
<1>9. remaining_qty' \in [Id -> Nat]
  <2>1. remaining_qty[m] - c \in Nat
    BY <1>5
  <2>2. QED  BY <1>3, <2>1 DEF BookTypeOK
<1>10. total_quantity' \in [Side -> [Price -> 0 .. (QMod - 1)]]
  <2>1. total_quantity[s][p] - c \in Int
    <3>1. total_quantity[s][p] \in 0 .. (QMod - 1)
      BY DEF BookTypeOK
    <3>2. QED  BY <1>5, <3>1, ConstantsAssumption
  <2>2. (total_quantity[s][p] - c) % QMod \in 0 .. (QMod - 1)
    BY <2>1, ModType, SMTT(40)
  <2>3. 0 \in 0 .. (QMod - 1)
    BY ConstantsAssumption
  <2>4. QED  BY <1>3, <2>2, <2>3 DEF BookTypeOK
<1>11. BookTypeOK'
  BY <1>3, <1>8, <1>9, <1>10 DEF BookTypeOK
<1>12. BookInjective'
  BY <1>4, <1>6 DEF BookInjective, IndexCoversBook
<1>13. FillEffect(s, p, m, c)
  BY <1>2, <1>3, <1>5, <1>7, <1>11, <1>12, Zenon DEF FillEffect, new
<1>14. QED  BY <1>2, <1>5, <1>13

-----------------------------------------------------------------------------
(* The inductive invariant *)

LEMMA InitInv == Init => IInv
<1> SUFFICES ASSUME Init PROVE IInv
  OBVIOUS
<1> USE ConstantsAssumption DEF Init
<1>1. ~(0 \in Id) /\ Submitted = {} /\ Id \subseteq Nat
  BY DEF Id, Submitted
<1>2. TypeOK
  <2>1. NoOrder \in Order
    BY DEF NoOrder, Order, Side, OrderType
  <2>2. /\ <<>> \in Seq(Id)
        /\ <<>> \in Seq(Trade)
    OBVIOUS
  <2>3. 0 \in 0 .. (QMod - 1) /\ 1 \in 1 .. (MaxOrders + 1)
    OBVIOUS
  <2>4. queue \in [Side -> [Price -> Seq(Id)]]
    BY <2>2
  <2>5. QED  BY <2>1, <2>2, <2>3, <2>4 DEF TypeOK, NoResult
<1>3. \A s \in Side, p \in Price : queue[s][p] = <<>>
  OBVIOUS
<1>4. IndexCoversBook
  BY <1>3 DEF IndexCoversBook, Contains, IsInjective
<1>5. ConsumedCoherent
  BY DEF ConsumedCoherent, Consumed, Contains, IsInjective
<1>6. QED
  BY <1>1, <1>2, <1>4, <1>5
     DEF IInv, OrdersWellFormed, FreshUntouched, CallCoherent, Conservation

(* The parameters an order record can have *)
GoodOrder(o) ==
    /\ o \in Order
    /\ o.type \in OrderTypes
    /\ o.type # "Market" => o.price \in Price
    /\ o.visible_qty > 0 => o.type = "Iceberg" /\ o.visible_qty < o.total_qty

LEMMA RequestFacts ==
    ASSUME NEW r \in Request
    PROVE  /\ r.side \in Side /\ r.type \in OrderTypes
           /\ r.total_qty \in Nat /\ r.visible_qty \in Nat
           /\ r.type # "Market" => r.price \in Price
           /\ r \in Order
           /\ r.type # "Iceberg" => r.visible_qty = 0 /\ GoodOrder(r)
<1>1. r \in [side : Side, type : OrderTypes, price : Price \cup {MarketPrice},
             total_qty : Qty, visible_qty : Qty \cup {0}]
  BY DEF Request
<1>2. /\ r.side \in Side /\ r.type \in OrderTypes /\ r.price \in Price \cup {MarketPrice}
      /\ r.total_qty \in Qty /\ r.visible_qty \in Qty \cup {0}
      /\ r = [side |-> r.side, type |-> r.type, price |-> r.price,
              total_qty |-> r.total_qty, visible_qty |-> r.visible_qty]
  BY <1>1
<1>3. r.type \in OrderType /\ r.price \in Int
  BY <1>2, ConstantsAssumption DEF MarketPrice
<1>4. r.total_qty \in Nat /\ r.visible_qty \in Nat
  <2>1. Qty \subseteq Nat
    BY ConstantsAssumption
  <2>2. QED  BY <1>2, <2>1
<1>5. r \in Order
  BY <1>2, <1>3, <1>4 DEF Order
<1>6. /\ r.type # "Iceberg" => r.visible_qty = 0
      /\ r.type # "Market" => r.price \in Price
  BY DEF Request
<1>7. QED  BY <1>2, <1>4, <1>5, <1>6 DEF GoodOrder

(* A new order takes the next id, which nothing in the engine knows yet. *)
LEMMA NewOrderFacts ==
    ASSUME IInv, NEW o, GoodOrder(o), NewOrder(o)
    PROVE  LET n == next_order_id_ IN
           /\ n \in Id /\ n \notin Submitted
           /\ Submitted' = Submitted \cup {n} /\ Submitted \subseteq Id
           /\ next_order_id_' \in 1 .. (MaxOrders + 1)
           /\ order' \in [Id -> Order]
           /\ order'[n] = o
           /\ \A i \in Submitted : order'[i] = order[i]
           /\ \A s \in Side, p \in Price : ~Contains(queue[s][p], n)
           /\ ~Resting(n)
           /\ \A i : ~Consumed(i)
           /\ taker = 0 /\ 0 \notin Submitted /\ 0 \notin Id
           /\ OrdersWellFormed'
           /\ orders_index_[n] = NoLoc /\ n \notin icebergs_
           /\ hidden_remaining[n] = 0 /\ filled[n] = 0 /\ took[n] = 0
<1> DEFINE n == next_order_id_
<1>1. /\ n \in 1 .. (MaxOrders + 1) /\ MaxOrders \in Nat
      /\ n \in Id /\ Id = 1 .. MaxOrders
      /\ next_order_id_' = n + 1
      /\ order' = [order EXCEPT ![n] = o]
      /\ order \in [Id -> Order]
  BY ConstantsAssumption DEF IInv, TypeOK, NewOrder, Id
<1>2. /\ n \notin Submitted /\ Submitted' = Submitted \cup {n} /\ Submitted \subseteq Id
      /\ 0 \notin Submitted /\ 0 \notin Id
      /\ next_order_id_' \in 1 .. (MaxOrders + 1)
  BY <1>1 DEF Submitted
<1>3. /\ order' \in [Id -> Order]
      /\ order'[n] = o
      /\ \A i \in Submitted : order'[i] = order[i]
  BY <1>1, <1>2 DEF GoodOrder
<1>4. \A s \in Side, p \in Price : ~Contains(queue[s][p], n)
  BY <1>1, <1>2 DEF IInv, IndexCoversBook
<1>5. taker = 0 /\ \A i : ~Consumed(i)
  BY DEF NewOrder, IInv, CallCoherent, Consumed, Contains
<1>6. OrdersWellFormed'
  BY <1>2, <1>3 DEF OrdersWellFormed, IInv, GoodOrder
<1>7. /\ orders_index_[n] = NoLoc /\ n \notin icebergs_
      /\ hidden_remaining[n] = 0 /\ filled[n] = 0 /\ took[n] = 0
  BY <1>1, <1>2 DEF IInv, FreshUntouched
<1>8. ~Resting(n)
  BY <1>4 DEF Resting
<1>9. QED  BY <1>1, <1>2, <1>3, <1>4, <1>5, <1>6, <1>7, <1>8

(* What a step does not touch stays conserved. *)
LEMMA ConservedFrame ==
    ASSUME NEW i, Conserved(i),
           ~(i = taker /\ pc = "match"), ~(i = taker' /\ pc' = "match"),
           order'[i] = order[i], filled'[i] = filled[i], took'[i] = took[i],
           remaining_qty'[i] = remaining_qty[i], hidden_remaining'[i] = hidden_remaining[i],
           Resting(i)' <=> Resting(i), Consumed(i)' <=> Consumed(i)
    PROVE  Conserved(i)'
<1>1. Excess(i)' = Excess(i)
  BY DEF Excess
<1>2. QED  BY <1>1 DEF Conserved

LEMMA ExcessType ==
    ASSUME NEW i, order[i] \in Order, took[i] \in Nat
    PROVE  Excess(i) \in Nat
<1>1. order[i].total_qty \in Nat /\ order[i].visible_qty \in Nat
  BY DEF Order
<1>2. QED  BY <1>1 DEF Excess, MinOf, IsIceberg

(* A call that returns at once and leaves the book alone *)
LEMMA ReturnAtOnceInv ==
    ASSUME IInv, NEW o, GoodOrder(o), NewOrder(o), NEW status \in SubmitStatus,
           ReturnAtOnce(status), UNCHANGED book
    PROVE  IInv'
<1>n. PICK n : n = next_order_id_
  OBVIOUS
<1>0. /\ UNCHANGED <<queue, remaining_qty, total_quantity, orders_index_, icebergs_,
                     hidden_remaining, pc, taker, remaining, iceberg_consumed, trades,
                     total_trades_, recent_trades_, filled, took>>
      /\ pc = "idle"
  BY DEF ReturnAtOnce, book, bergs, call, tape, hist, NewOrder
<1>1. /\ n \in Id /\ n \notin Submitted
      /\ Submitted' = Submitted \cup {n} /\ Submitted \subseteq Id
      /\ next_order_id_' \in 1 .. (MaxOrders + 1)
      /\ order' \in [Id -> Order]
      /\ order'[n] = o
      /\ \A i \in Submitted : order'[i] = order[i]
      /\ ~Resting(n)
      /\ \A i : ~Consumed(i)
      /\ taker = 0 /\ 0 \notin Submitted
      /\ OrdersWellFormed'
      /\ filled[n] = 0 /\ took[n] = 0
  BY <1>n, NewOrderFacts
<1>2. TypeOK'
  <2>1. /\ result'.id \in Id \cup {0}
        /\ result'.status \in SubmitStatus \cup {"CancelTrue", "CancelFalse", "None"}
        /\ result'.trades \in Seq(Trade)
    BY <1>n, <1>1 DEF ReturnAtOnce
  <2>2. QED  BY <1>0, <1>1, <2>1 DEF TypeOK, IInv
<1>3. FreshUntouched'
  BY <1>0, <1>1 DEF FreshUntouched, IInv
<1>4. CallCoherent'
  BY <1>0 DEF CallCoherent, IInv
<1>5. ConsumedCoherent'
  BY <1>0, <1>1 DEF ConsumedCoherent, Consumed, IInv
<1>6. IndexCoversBook'
  BY <1>0, <1>1 DEF IndexCoversBook, IInv
<1>7. Conservation'
  <2>1. ASSUME NEW i \in Submitted PROVE Conserved(i)'
    <3>1. Conserved(i)
      BY DEF IInv, Conservation
    <3>2. (Resting(i)' <=> Resting(i)) /\ (Consumed(i)' <=> Consumed(i))
      BY <1>0, <1>1 DEF Resting, Consumed
    <3>3. QED  BY <1>0, <1>1, <3>1, <3>2, ConservedFrame
  <2>2. Conserved(n)'
    <3>1. ~Resting(n)' /\ ~Consumed(n)' /\ filled'[n] = 0 /\ pc' = "idle"
      BY <1>0, <1>1 DEF Resting, Consumed
    <3>2. Excess(n)' \in Nat /\ order'[n].total_qty \in Nat
      BY <1>0, <1>1 DEF Excess, MinOf, GoodOrder, Order, IsIceberg
    <3>3. QED  BY <3>1, <3>2 DEF Conserved
  <2>3. QED  BY <1>1, <2>1, <2>2 DEF Conservation
<1>8. QED  BY <1>1, <1>2, <1>3, <1>4, <1>5, <1>6, <1>7 DEF IInv

(* A post-only order that does not cross rests with all of its quantity. *)
LEMMA PostOnlyRestsInv ==
    ASSUME IInv, NEW o, GoodOrder(o), o.type = "PostOnly", o.visible_qty = 0, NewOrder(o),
           AddToLevel(next_order_id_, o, o.total_qty), ReturnAtOnce("Accepted")
    PROVE  IInv'
<1>n. PICK n : n = next_order_id_
  OBVIOUS
<1>0. /\ UNCHANGED <<icebergs_, hidden_remaining, pc, taker, remaining, iceberg_consumed,
                     trades, total_trades_, recent_trades_, filled, took>>
      /\ pc = "idle"
  BY DEF ReturnAtOnce, bergs, call, tape, hist, NewOrder
<1>1. /\ n \in Id /\ n \notin Submitted
      /\ Submitted' = Submitted \cup {n} /\ Submitted \subseteq Id
      /\ next_order_id_' \in 1 .. (MaxOrders + 1)
      /\ order' \in [Id -> Order]
      /\ order'[n] = o
      /\ \A i \in Submitted : order'[i] = order[i]
      /\ ~Resting(n)
      /\ \A i : ~Consumed(i)
      /\ taker = 0 /\ 0 \notin Submitted /\ 0 \notin Id
      /\ OrdersWellFormed'
      /\ filled[n] = 0 /\ took[n] = 0 /\ hidden_remaining[n] = 0
  BY <1>n, NewOrderFacts
<1>2. o.side \in Side /\ o.price \in Price /\ o.total_qty \in Nat
  BY DEF GoodOrder, Order
<1>3. BookTypeOK /\ BookInjective /\ AddToLevel(n, o, o.total_qty)
  BY <1>n DEF IInv, TypeOK, BookTypeOK, IndexCoversBook, BookInjective
<1>4. /\ BookTypeOK'
      /\ BookInjective'
      /\ \A s \in Side, p \in Price, i \in Id :
            Contains(queue'[s][p], i) <=>
                Contains(queue[s][p], i) \/ (i = n /\ s = o.side /\ p = o.price)
      /\ remaining_qty' = [remaining_qty EXCEPT ![n] = o.total_qty]
      /\ orders_index_' = [orders_index_ EXCEPT ![n] = <<o.side, o.price>>]
  BY <1>1, <1>2, <1>3, AddToLevelFacts
<1>5. TypeOK'
  <2>1. /\ result'.id \in Id \cup {0}
        /\ result'.status \in SubmitStatus \cup {"CancelTrue", "CancelFalse", "None"}
        /\ result'.trades \in Seq(Trade)
    BY <1>n, <1>1 DEF ReturnAtOnce, SubmitStatus
  <2>2. QED  BY <1>0, <1>1, <1>4, <2>1 DEF TypeOK, IInv, BookTypeOK
<1>6. FreshUntouched'
  BY <1>0, <1>1, <1>4 DEF FreshUntouched, IInv
<1>7. CallCoherent'
  BY <1>0, <1>1 DEF CallCoherent, IInv
<1>8. ConsumedCoherent'
  <2>1. \A i : ~Consumed(i)'
    BY <1>0, <1>1 DEF Consumed
  <2>2. IsInjective(iceberg_consumed')
    BY <1>0 DEF IInv, ConsumedCoherent
  <2>3. QED  BY <2>1, <2>2 DEF ConsumedCoherent
<1>9. IndexCoversBook'
  <2> SUFFICES ASSUME NEW s \in Side, NEW p \in Price, NEW i \in Id, Contains(queue'[s][p], i)
               PROVE  /\ i \in Submitted'
                      /\ order'[i].side = s /\ order'[i].price = p
                      /\ orders_index_'[i] = <<s, p>>
    BY <1>4 DEF IndexCoversBook, BookInjective
  <2>1. CASE i = n
    <3>1. s = o.side /\ p = o.price
      BY <1>1, <1>4, <2>1 DEF Resting
    <3>2. orders_index_'[n] = <<o.side, o.price>>
      BY <1>1, <1>3, <1>4 DEF BookTypeOK
    <3>3. QED  BY <1>1, <2>1, <3>1, <3>2
  <2>2. CASE i # n
    <3>1. /\ i \in Submitted
          /\ order[i].side = s /\ order[i].price = p
          /\ orders_index_[i] = <<s, p>>
      BY <1>4, <2>2 DEF IInv, IndexCoversBook
    <3>2. orders_index_'[i] = orders_index_[i]
      BY <1>3, <1>4, <2>2 DEF BookTypeOK
    <3>3. QED  BY <1>1, <3>1, <3>2
  <2>3. QED  BY <2>1, <2>2
<1>10. Conservation'
  <2>1. ASSUME NEW i \in Submitted PROVE Conserved(i)'
    <3>1. Conserved(i) /\ i \in Id /\ i # n
      BY <1>1 DEF IInv, Conservation
    <3>2. (Resting(i)' <=> Resting(i)) /\ (Consumed(i)' <=> Consumed(i))
      BY <1>0, <1>4, <3>1 DEF Resting, Consumed
    <3>3. remaining_qty'[i] = remaining_qty[i]
      BY <1>3, <1>4, <3>1 DEF BookTypeOK
    <3>4. QED  BY <1>0, <1>1, <3>1, <3>2, <3>3, ConservedFrame
  <2>2. Conserved(n)'
    <3>1. Resting(n)' /\ pc' = "idle"
      BY <1>0, <1>1, <1>2, <1>4 DEF Resting
    <3>2. /\ filled'[n] = 0 /\ hidden_remaining'[n] = 0
          /\ remaining_qty'[n] = o.total_qty
      BY <1>0, <1>1, <1>3, <1>4 DEF BookTypeOK
    <3>3. Excess(n)' = 0
      BY <1>1 DEF Excess, IsIceberg
    <3>4. QED  BY <1>1, <1>2, <3>1, <3>2, <3>3 DEF Conserved
  <2>3. QED  BY <1>1, <2>1, <2>2 DEF Conservation
<1>11. QED  BY <1>1, <1>5, <1>6, <1>7, <1>8, <1>9, <1>10 DEF IInv

(* Entering the matching loop, with an iceberg tracked first *)
LEMMA BeginMatchingInv ==
    ASSUME IInv, NEW o, GoodOrder(o), o.type # "PostOnly", NewOrder(o), BeginMatching(o),
           icebergs_' = IF IsIceberg(o) THEN icebergs_ \cup {next_order_id_} ELSE icebergs_,
           hidden_remaining' = IF IsIceberg(o)
               THEN [hidden_remaining EXCEPT ![next_order_id_] = o.total_qty - o.visible_qty]
               ELSE hidden_remaining
    PROVE  IInv'
<1>n. PICK n : n = next_order_id_
  OBVIOUS
<1>0. /\ UNCHANGED <<queue, remaining_qty, total_quantity, orders_index_,
                     total_trades_, recent_trades_, filled, took>>
      /\ pc = "idle" /\ pc' = "match"
      /\ taker' = n /\ remaining' = o.total_qty
      /\ iceberg_consumed' = <<>> /\ trades' = <<>>
      /\ result' = NoResult
  BY <1>n DEF BeginMatching, book, tape, hist, NewOrder
<1>1. /\ n \in Id /\ n \notin Submitted
      /\ Submitted' = Submitted \cup {n} /\ Submitted \subseteq Id
      /\ next_order_id_' \in 1 .. (MaxOrders + 1)
      /\ order' \in [Id -> Order]
      /\ order'[n] = o
      /\ \A i \in Submitted : order'[i] = order[i]
      /\ ~Resting(n)
      /\ \A i : ~Consumed(i)
      /\ OrdersWellFormed'
      /\ orders_index_[n] = NoLoc
      /\ filled[n] = 0 /\ took[n] = 0 /\ hidden_remaining[n] = 0
  BY <1>n, NewOrderFacts
<1>2. o.total_qty \in Nat /\ o.visible_qty \in Nat
  BY DEF GoodOrder, Order
<1>3. hidden_remaining \in [Id -> Nat]
  BY DEF IInv, TypeOK
<1>4. /\ hidden_remaining' \in [Id -> Nat]
      /\ hidden_remaining'[n] = IF IsIceberg(o) THEN o.total_qty - o.visible_qty ELSE 0
      /\ \A i \in Id \ {n} : hidden_remaining'[i] = hidden_remaining[i]
  <2>1. CASE IsIceberg(o)
    <3>1. o.total_qty - o.visible_qty \in Nat
      BY <1>2, <2>1 DEF IsIceberg
    <3>2. QED  BY <1>n, <1>1, <1>3, <2>1, <3>1
  <2>2. CASE ~IsIceberg(o)
    BY <1>n, <1>1, <1>3, <2>2
  <2>3. QED  BY <2>1, <2>2
<1>5. TypeOK'
  <2>1. icebergs_' \subseteq Id
    BY <1>n, <1>1 DEF IInv, TypeOK
  <2>2. /\ result'.id \in Id \cup {0}
        /\ result'.status \in SubmitStatus \cup {"CancelTrue", "CancelFalse", "None"}
        /\ result'.trades \in Seq(Trade)
    BY <1>0 DEF NoResult
  <2>3. iceberg_consumed' \in Seq(Id) /\ trades' \in Seq(Trade)
    BY <1>0
  <2>4. QED  BY <1>0, <1>1, <1>2, <1>4, <2>1, <2>2, <2>3 DEF TypeOK, IInv
<1>6. FreshUntouched'
  BY <1>n, <1>0, <1>1, <1>4 DEF FreshUntouched, IInv
<1>7. CallCoherent'
  <2>1. IsIceberg(order'[taker']) <=> IsIceberg(o)
    BY <1>0, <1>1
  <2>2. QED  BY <1>0, <1>1, <1>4, <2>1 DEF CallCoherent
<1>8. ConsumedCoherent'
  BY <1>0 DEF ConsumedCoherent, Consumed, Contains, IsInjective
<1>9. IndexCoversBook'
  BY <1>0, <1>1 DEF IndexCoversBook, IInv
<1>10. Conservation'
  <2>1. ASSUME NEW i \in Submitted PROVE Conserved(i)'
    <3>1. Conserved(i) /\ i \in Id /\ i # n
      BY <1>1 DEF IInv, Conservation
    <3>2. (Resting(i)' <=> Resting(i)) /\ (Consumed(i)' <=> Consumed(i))
      <4>1. ~Consumed(i)'
        BY <1>0 DEF Consumed, Contains
      <4>2. Resting(i)' <=> Resting(i)
        BY <1>0 DEF Resting
      <4>3. QED  BY <1>1, <4>1, <4>2
    <3>3. QED  BY <1>0, <1>1, <1>4, <3>1, <3>2, ConservedFrame
  <2>2. Conserved(n)'
    BY <1>0, <1>1, <1>2 DEF Conserved
  <2>3. QED  BY <1>1, <2>1, <2>2 DEF Conservation
<1>11. QED  BY <1>1, <1>5, <1>6, <1>7, <1>8, <1>9, <1>10 DEF IInv

LEMMA SubmitInv == IInv /\ Submit => IInv'
<1> SUFFICES ASSUME IInv, NEW r \in Request,
                    SubmitPostOnly(r) \/ SubmitFOK(r) \/ SubmitStandard(r) \/ SubmitIceberg(r)
             PROVE  IInv'
  BY DEF Submit, SubmitOrder
<1>1. /\ r.side \in Side /\ r.type \in OrderTypes
      /\ r.total_qty \in Nat /\ r.visible_qty \in Nat
      /\ r.type # "Market" => r.price \in Price
      /\ r \in Order
      /\ r.type # "Iceberg" => r.visible_qty = 0 /\ GoodOrder(r)
      /\ r.type # "Iceberg" => ~IsIceberg(r)
  BY RequestFacts DEF IsIceberg
<1>2. CASE SubmitPostOnly(r)
  <2>1. GoodOrder(r) /\ r.visible_qty = 0 /\ NewOrder(r)
    BY <1>1, <1>2 DEF SubmitPostOnly
  <2>2. CASE ReturnAtOnce("Rejected") /\ UNCHANGED book
    BY <2>1, <2>2, ReturnAtOnceInv DEF SubmitStatus
  <2>3. CASE /\ AddToLevel(next_order_id_, r, r.total_qty)
             /\ ReturnAtOnce("Accepted")
    BY <1>2, <2>1, <2>3, PostOnlyRestsInv DEF SubmitPostOnly
  <2>4. QED  BY <1>2, <2>2, <2>3 DEF SubmitPostOnly
<1>3. CASE SubmitFOK(r)
  <2>1. GoodOrder(r) /\ ~IsIceberg(r) /\ NewOrder(r) /\ r.type # "PostOnly"
    BY <1>1, <1>3 DEF SubmitFOK
  <2>2. CASE ReturnAtOnce("Cancelled") /\ UNCHANGED book
    BY <2>1, <2>2, ReturnAtOnceInv DEF SubmitStatus
  <2>3. CASE BeginMatching(r) /\ UNCHANGED bergs
    BY <2>1, <2>3, BeginMatchingInv DEF bergs
  <2>4. QED  BY <1>3, <2>2, <2>3 DEF SubmitFOK
<1>4. CASE SubmitStandard(r)
  BY <1>1, <1>4, BeginMatchingInv DEF SubmitStandard, bergs
<1>5. CASE SubmitIceberg(r)
  <2> DEFINE invalid == r.visible_qty = 0 \/ r.visible_qty >= r.total_qty
  <2>1. PICK o : o = [r EXCEPT !.visible_qty = IF invalid THEN 0 ELSE @]
    OBVIOUS
  <2>2. /\ o \in Order
        /\ o.type = r.type /\ o.price = r.price /\ o.total_qty = r.total_qty
        /\ o.visible_qty = IF invalid THEN 0 ELSE r.visible_qty
    BY <1>1, <2>1 DEF Order
  <2>3. GoodOrder(o) /\ o.type # "PostOnly" /\ NewOrder(o) /\ BeginMatching(o)
    BY <1>1, <1>5, <2>1, <2>2 DEF SubmitIceberg, GoodOrder, IsIceberg
  <2>4. CASE invalid
    <3>1. ~IsIceberg(o)
      BY <2>2, <2>4 DEF IsIceberg
    <3>2. UNCHANGED bergs
      BY <1>5, <2>4 DEF SubmitIceberg
    <3>3. QED  BY <2>3, <3>1, <3>2, BeginMatchingInv DEF bergs
  <2>5. CASE ~invalid
    <3>1. IsIceberg(o) /\ DisplayQty(o, o.total_qty) = o.visible_qty
      BY <1>1, <2>2, <2>5 DEF IsIceberg, DisplayQty, MinOf
    <3>2. /\ icebergs_' = icebergs_ \cup {next_order_id_}
          /\ hidden_remaining' = [hidden_remaining EXCEPT ![next_order_id_] =
                                     o.total_qty - DisplayQty(o, o.total_qty)]
      BY <1>5, <2>1, <2>5 DEF SubmitIceberg
    <3>3. QED  BY <2>3, <3>1, <3>2, BeginMatchingInv
  <2>6. QED  BY <2>4, <2>5
<1>6. QED  BY <1>2, <1>3, <1>4, <1>5

LEMMA SideFacts == \A s \in Side : Opposite(s) \in Side /\ Opposite(s) # s
BY DEF Side, Opposite

LEMMA SubmittedType == TypeOK => Submitted \subseteq Id
BY ConstantsAssumption DEF TypeOK, Submitted, Id

LEMMA MatchStepInv == IInv /\ MatchStep => IInv'
<1> SUFFICES ASSUME IInv, MatchStep PROVE IInv'
  OBVIOUS
<1>s. PICK s : s = Opposite(order[taker].side)
  OBVIOUS
<1>1. /\ taker \in Submitted /\ Submitted \subseteq Id
      /\ order \in [Id -> Order]
      /\ orders_index_[taker] = NoLoc
      /\ filled \in [Id -> Nat] /\ remaining \in Nat
      /\ pc = "match" /\ remaining > 0
  BY SubmittedType DEF IInv, TypeOK, CallCoherent, MatchStep
<1>2. s \in Side
  BY <1>s, <1>1, SideFacts DEF Order
<1>3. PICK p \in Reach : FillFront(p)
  BY DEF MatchStep
<1>4. p \in Price /\ queue[s][p] # <<>>
  BY <1>s DEF Reach, Levels
<1>5. BookTypeOK /\ IndexCoversBook
  BY DEF IInv, TypeOK, BookTypeOK
<1>e. PICK m \in Id, c \in Nat : FillEffect(s, p, m, c)
  <2>1. p \in Price /\ queue[s][p] # <<>> /\ FillFront(p) /\ remaining \in Nat
    BY <1>1, <1>3, <1>4
  <2>2. QED  BY <1>s, <1>2, <1>5, <2>1, FillFrontFacts
<1>6. /\ Contains(queue[s][p], m)
      /\ c <= remaining /\ c <= remaining_qty[m]
      /\ c = remaining \/ c = remaining_qty[m]
      /\ remaining' = remaining - c
      /\ remaining_qty' = [remaining_qty EXCEPT ![m] = @ - c]
      /\ filled' = [filled EXCEPT ![m] = @ + c, ![taker] = @ + c]
      /\ trades' = Append(trades, [maker |-> m, taker |-> taker, price |-> p, qty |-> c])
      /\ iceberg_consumed' = IF c = remaining_qty[m] /\ IsIceberg(order[m])
                               THEN Append(iceberg_consumed, m) ELSE iceberg_consumed
      /\ \A t \in Side, l \in Price, i \in Id :
            Contains(queue'[t][l], i) <=>
                Contains(queue[t][l], i) /\ ~(i = m /\ c = remaining_qty[m])
      /\ BookTypeOK'
      /\ BookInjective'
  BY <1>e, SMTT(40) DEF FillEffect
<1>7. UNCHANGED <<next_order_id_, order, orders_index_, icebergs_, hidden_remaining, pc,
                  taker, result, total_trades_, recent_trades_, took>>
  BY <1>3 DEF FillFront, bergs, tape
<1>8. m \in Submitted /\ Resting(m) /\ orders_index_[m] = <<s, p>> /\ m # taker
  <2>1. m \in Submitted /\ orders_index_[m] = <<s, p>> /\ Resting(m)
    BY <1>2, <1>4, <1>5, <1>6 DEF IndexCoversBook, Resting
  <2>2. <<s, p>> # NoLoc
    BY <1>2 DEF NoLoc, Side
  <2>3. QED  BY <1>1, <2>1, <2>2
<1>9. ~Consumed(m)
  BY <1>8 DEF IInv, ConsumedCoherent
<1>10. /\ filled' \in [Id -> Nat]
       /\ filled'[m] = filled[m] + c
       /\ filled'[taker] = filled[taker] + c
       /\ \A i \in Id \ {m, taker} : filled'[i] = filled[i]
  <2>1. filled' = [filled EXCEPT ![m] = @ + c, ![taker] = @ + c]
    BY <1>6
  <2>2. filled[m] + c \in Nat /\ filled[taker] + c \in Nat /\ taker \in Id
    BY <1>1
  <2>3. QED  BY <1>1, <1>8, <2>1, <2>2
<1>11. /\ iceberg_consumed' \in Seq(Id)
       /\ IsInjective(iceberg_consumed')
       /\ \A i \in Id : Consumed(i)' <=>
             Consumed(i) \/ (i = m /\ c = remaining_qty[m] /\ IsIceberg(order[m]))
  <2>1. iceberg_consumed \in Seq(Id) /\ IsInjective(iceberg_consumed)
    BY DEF IInv, TypeOK, ConsumedCoherent
  <2>2. /\ Append(iceberg_consumed, m) \in Seq(Id)
        /\ \A i : Contains(Append(iceberg_consumed, m), i) <=> Contains(iceberg_consumed, i) \/ i = m
        /\ IsInjective(Append(iceberg_consumed, m))
    BY <1>9, <2>1, AppendFacts DEF Consumed
  <2>3. QED  BY <1>6, <2>1, <2>2 DEF Consumed
<1>12. TypeOK'
  <2>1. trades' \in Seq(Trade)
    <3>1. [maker |-> m, taker |-> taker, price |-> p, qty |-> c] \in Trade
      BY <1>1, <1>4 DEF Trade
    <3>2. trades \in Seq(Trade)
      BY DEF IInv, TypeOK
    <3>3. QED  BY <1>6, <3>1, <3>2, AppendProperties
  <2>2. remaining' \in Nat
    BY <1>1, <1>6
  <2>3. QED  BY <1>6, <1>7, <1>10, <1>11, <2>1, <2>2 DEF IInv, TypeOK, BookTypeOK
<1>13. Submitted' = Submitted
  BY <1>7 DEF Submitted
<1>14. OrdersWellFormed'
  BY <1>7, <1>13 DEF IInv, OrdersWellFormed
<1>15. FreshUntouched'
  BY <1>1, <1>7, <1>8, <1>10, <1>13 DEF IInv, FreshUntouched
<1>16. CallCoherent'
  BY <1>1, <1>7, <1>13 DEF IInv, CallCoherent
<1>17. \A i \in Id : Resting(i)' <=> Resting(i) /\ ~(i = m /\ c = remaining_qty[m])
  BY <1>6 DEF Resting
<1>18. remaining_qty'[m] = remaining_qty[m] - c
       /\ \A i \in Id \ {m} : remaining_qty'[i] = remaining_qty[i]
  BY <1>5, <1>6 DEF BookTypeOK
<1>19. ConsumedCoherent'
  <2> SUFFICES ASSUME NEW i \in Id, Consumed(i)'
               PROVE  /\ i \in Submitted' \ {taker'}
                      /\ IsIceberg(order'[i])
                      /\ remaining_qty'[i] = 0
                      /\ ~Resting(i)'
    BY <1>11 DEF ConsumedCoherent
  <2>1. CASE i = m
    <3>1. c = remaining_qty[m] /\ IsIceberg(order[m])
      BY <1>9, <1>11, <2>1
    <3>2. QED  BY <1>7, <1>8, <1>13, <1>17, <1>18, <2>1, <3>1
  <2>2. CASE i # m
    <3>1. Consumed(i)
      BY <1>11, <2>2
    <3>2. /\ i \in Submitted \ {taker} /\ IsIceberg(order[i])
          /\ remaining_qty[i] = 0 /\ ~Resting(i)
      BY <3>1 DEF IInv, ConsumedCoherent
    <3>3. QED  BY <1>7, <1>13, <1>17, <1>18, <2>2, <3>2
  <2>3. QED  BY <2>1, <2>2
<1>20. IndexCoversBook'
  <2>1. ASSUME NEW t \in Side, NEW l \in Price, NEW i \in Id, Contains(queue'[t][l], i)
        PROVE  i \in Submitted' /\ order'[i].side = t /\ order'[i].price = l
               /\ orders_index_'[i] = <<t, l>>
    BY <1>5, <1>6, <1>7, <1>13, <2>1 DEF IndexCoversBook
  <2>2. QED  BY <1>6, <2>1 DEF IndexCoversBook, BookInjective
<1>21. Conservation'
  <2> SUFFICES ASSUME NEW i \in Submitted PROVE Conserved(i)'
    BY <1>13 DEF Conservation
  <2>1. i \in Id /\ Conserved(i)
    BY <1>1 DEF IInv, Conservation
  <2>2. CASE i = taker
    <3>1. filled[taker] + remaining = order[taker].total_qty
      BY <1>1, <2>1, <2>2 DEF Conserved
    <3>2. filled'[taker] + remaining' = filled[taker] + remaining
      BY <1>1, <1>6, <1>10
    <3>3. QED  BY <1>1, <1>7, <2>2, <3>1, <3>2 DEF Conserved
  <2>3. CASE i = m
    <3>1. filled[m] + remaining_qty[m] + hidden_remaining[m] = order[m].total_qty + Excess(m)
      BY <1>8, <2>1, <2>3 DEF Conserved
    <3>2. Excess(m)' = Excess(m)
      BY <1>7 DEF Excess
    <3>3. /\ remaining_qty[m] \in Nat /\ hidden_remaining[m] \in Nat /\ filled[m] \in Nat
      BY DEF IInv, TypeOK
    <3>4. filled'[m] + remaining_qty'[m] + hidden_remaining'[m]
             = order'[m].total_qty + Excess(m)'
      BY <1>7, <1>10, <1>18, <3>1, <3>2, <3>3
    <3>5. filled'[m] <= order'[m].total_qty + Excess(m)'
      <4>1. remaining_qty'[m] \in Nat /\ hidden_remaining'[m] \in Nat /\ filled'[m] \in Nat
        BY <1>6, <1>7, <1>10, <3>3 DEF BookTypeOK
      <4>2. QED  BY <3>4, <4>1
    <3>6. QED  BY <1>7, <1>8, <2>3, <3>4, <3>5 DEF Conserved
  <2>4. CASE i # taker /\ i # m
    BY <1>7, <1>10, <1>11, <1>17, <1>18, <2>1, <2>4, ConservedFrame
  <2>5. QED  BY <2>2, <2>3, <2>4
<1>22. QED
  BY <1>12, <1>14, <1>15, <1>16, <1>19, <1>20, <1>21 DEF IInv

(* An id the index does not know is not in the book. *)
LEMMA UnindexedNotResting ==
    ASSUME IndexCoversBook, NEW i \in Id, orders_index_[i] = NoLoc
    PROVE  ~Resting(i)
BY DEF IndexCoversBook, Resting, NoLoc, Side

(* What an order taking place in the book after its match shows and hides: *)
(* for an iceberg, more than it has left, by Excess.                       *)
LEMMA RestingArithmetic ==
    ASSUME NEW total \in Nat, NEW visible \in Nat, NEW rem \in Nat, rem <= total, rem > 0,
           visible > 0 => visible < total
    PROVE  LET hidden == IF visible > 0 THEN total - visible ELSE 0
               display == IF visible = 0 THEN rem ELSE MinOf(visible, rem)
               excess == IF visible > 0 THEN MinOf(total - rem, total - visible) ELSE 0
           IN  (total - rem) + display + hidden = total + excess
BY DEF MinOf

LEMMA EndMatchInv == IInv /\ EndMatch => IInv'
<1> SUFFICES ASSUME IInv, EndMatch PROVE IInv'
  OBVIOUS
<1>1. PICK n, o : n = taker /\ o = order[taker]
  OBVIOUS
<1>2. /\ n \in Submitted /\ Submitted \subseteq Id /\ n \in Id
      /\ o.type # "PostOnly"
      /\ order \in [Id -> Order]
      /\ orders_index_[n] = NoLoc
      /\ took[n] = 0
      /\ hidden_remaining[n] = IF IsIceberg(o) THEN o.total_qty - o.visible_qty ELSE 0
      /\ remaining \in Nat
      /\ pc = "match"
  BY <1>1, SubmittedType DEF IInv, TypeOK, CallCoherent, EndMatch
<1>3. o \in Order /\ o.total_qty \in Nat /\ o.visible_qty \in Nat /\ o.side \in Side
  BY <1>1, <1>2 DEF Order
<1>4. /\ o.type # "Market" => o.price \in Price
      /\ o.visible_qty > 0 => o.visible_qty < o.total_qty
  BY <1>1, <1>2 DEF IInv, OrdersWellFormed
<1>5. filled[n] + remaining = o.total_qty /\ filled[n] \in Nat
  BY <1>1, <1>2 DEF IInv, TypeOK, Conservation, Conserved
<1>6. ~Resting(n) /\ ~Consumed(n)
  BY <1>1, <1>2, UnindexedNotResting DEF IInv, ConsumedCoherent
<1>7. /\ UNCHANGED <<next_order_id_, order, icebergs_, hidden_remaining, taker, remaining,
                     iceberg_consumed, trades, result, total_trades_, recent_trades_, filled>>
      /\ took' = [took EXCEPT ![n] = o.total_qty - remaining]
      /\ pc' = "refresh"
  BY <1>1 DEF EndMatch, bergs, call, tape
<1>8. /\ took' \in [Id -> Nat]
      /\ took'[n] = o.total_qty - remaining
      /\ \A i \in Id \ {n} : took'[i] = took[i]
  <2>1. o.total_qty - remaining \in Nat
    BY <1>2, <1>3, <1>5
  <2>2. took \in [Id -> Nat]
    BY DEF IInv, TypeOK
  <2>3. QED  BY <1>2, <1>7, <2>1, <2>2
<1>9. /\ Submitted' = Submitted
      /\ \A i : Consumed(i)' <=> Consumed(i)
  BY <1>7 DEF Submitted, Consumed
<1>10. OrdersWellFormed'
  BY <1>7, <1>9 DEF IInv, OrdersWellFormed
<1>11. BookTypeOK /\ BookInjective /\ IndexCoversBook
  BY DEF IInv, TypeOK, BookTypeOK, BookInjective, IndexCoversBook
(* The book afterwards *)
<1>12. CASE remaining > 0 /\ o.type # "Market"
  <2>1. PICK q : q = DisplayQty(o, remaining)
    OBVIOUS
  <2>2. q \in Nat
    BY <1>2, <1>3, <2>1 DEF DisplayQty, MinOf
  <2>3. AddToLevel(n, o, q) /\ o.price \in Price
    BY <1>1, <1>4, <1>12, <2>1 DEF EndMatch
  <2>4. /\ BookTypeOK'
        /\ BookInjective'
        /\ \A s \in Side, p \in Price, i \in Id :
              Contains(queue'[s][p], i) <=>
                  Contains(queue[s][p], i) \/ (i = n /\ s = o.side /\ p = o.price)
        /\ remaining_qty' = [remaining_qty EXCEPT ![n] = q]
        /\ orders_index_' = [orders_index_ EXCEPT ![n] = <<o.side, o.price>>]
    BY <1>2, <1>3, <1>6, <1>11, <2>2, <2>3, AddToLevelFacts
  <2>5. /\ remaining_qty'[n] = q /\ orders_index_'[n] = <<o.side, o.price>>
        /\ \A i \in Id \ {n} : /\ remaining_qty'[i] = remaining_qty[i]
                               /\ orders_index_'[i] = orders_index_[i]
    BY <1>2, <1>11, <2>4 DEF BookTypeOK
  <2>6. /\ Resting(n)'
        /\ \A i \in Id \ {n} : Resting(i)' <=> Resting(i)
    BY <1>2, <1>3, <2>3, <2>4 DEF Resting
  <2>7. TypeOK'
    BY <1>7, <1>8, <2>4 DEF IInv, TypeOK, BookTypeOK
  <2>8. FreshUntouched'
    BY <1>2, <1>7, <1>8, <1>9, <2>5 DEF IInv, FreshUntouched
  <2>9. CallCoherent'
    BY <1>1, <1>2, <1>7, <1>9, <1>12, <2>5 DEF CallCoherent
  <2>10. ConsumedCoherent'
    BY <1>1, <1>7, <1>9, <2>5, <2>6 DEF IInv, ConsumedCoherent
  <2>11. IndexCoversBook'
    <3> SUFFICES ASSUME NEW s \in Side, NEW p \in Price, NEW i \in Id, Contains(queue'[s][p], i)
                 PROVE  /\ i \in Submitted'
                        /\ order'[i].side = s /\ order'[i].price = p
                        /\ orders_index_'[i] = <<s, p>>
      BY <2>4 DEF IndexCoversBook, BookInjective
    <3>1. CASE i = n
      BY <1>1, <1>2, <1>6, <1>7, <1>9, <2>4, <2>5, <3>1 DEF Resting
    <3>2. CASE i # n
      BY <1>7, <1>9, <1>11, <2>4, <2>5, <3>2 DEF IndexCoversBook
    <3>3. QED  BY <3>1, <3>2
  <2>12. Conservation'
    <3> SUFFICES ASSUME NEW i \in Submitted PROVE Conserved(i)'
      BY <1>9 DEF Conservation
    <3>1. i \in Id /\ Conserved(i)
      BY <1>2 DEF IInv, Conservation
    <3>2. CASE i = n
      <4>1. /\ filled'[n] = o.total_qty - remaining
            /\ remaining_qty'[n] = IF o.visible_qty = 0 THEN remaining
                                   ELSE MinOf(o.visible_qty, remaining)
            /\ hidden_remaining'[n] = IF o.visible_qty > 0 THEN o.total_qty - o.visible_qty ELSE 0
        BY <1>2, <1>3, <1>4, <1>5, <1>7, <2>1, <2>5 DEF DisplayQty, IsIceberg
      <4>2. Excess(n)' = IF o.visible_qty > 0
                           THEN MinOf(o.total_qty - remaining, o.total_qty - o.visible_qty) ELSE 0
        BY <1>1, <1>2, <1>3, <1>4, <1>7, <1>8, <1>12 DEF Excess, IsIceberg
      <4>3. remaining <= o.total_qty
        BY <1>2, <1>3, <1>5
      <4>4. filled'[n] + remaining_qty'[n] + hidden_remaining'[n] = o.total_qty + Excess(n)'
        BY <1>2, <1>3, <1>4, <1>12, <4>1, <4>2, <4>3, RestingArithmetic
      <4>5. QED  BY <1>1, <1>7, <2>6, <3>2, <4>4 DEF Conserved
    <3>3. CASE i # n
      BY <1>1, <1>7, <1>8, <1>9, <2>5, <2>6, <3>1, <3>3, ConservedFrame
    <3>4. QED  BY <3>2, <3>3
  <2>13. QED  BY <1>10, <2>7, <2>8, <2>9, <2>10, <2>11, <2>12 DEF IInv
<1>13. CASE ~(remaining > 0 /\ o.type # "Market")
  <2>1. UNCHANGED <<queue, remaining_qty, total_quantity, orders_index_>>
    BY <1>1, <1>13 DEF EndMatch, book
  <2>2. \A i : Resting(i)' <=> Resting(i)
    BY <2>1 DEF Resting
  <2>3. TypeOK'
    BY <1>7, <1>8, <2>1 DEF IInv, TypeOK
  <2>4. FreshUntouched'
    BY <1>2, <1>7, <1>8, <1>9, <2>1 DEF IInv, FreshUntouched
  <2>5. CallCoherent'
    BY <1>1, <1>2, <1>7, <1>9, <1>13, <2>1 DEF CallCoherent
  <2>6. ConsumedCoherent'
    BY <1>7, <1>9, <2>1, <2>2 DEF IInv, ConsumedCoherent
  <2>7. IndexCoversBook'
    BY <1>7, <1>9, <1>11, <2>1 DEF IndexCoversBook
  <2>8. Conservation'
    <3> SUFFICES ASSUME NEW i \in Submitted PROVE Conserved(i)'
      BY <1>9 DEF Conservation
    <3>1. i \in Id /\ Conserved(i)
      BY <1>2 DEF IInv, Conservation
    <3>2. CASE i = n
      <4>1. Excess(n)' \in Nat
        BY <1>1, <1>2, <1>3, <1>7, <1>8 DEF Excess, MinOf, IsIceberg
      <4>2. filled'[n] <= order'[n].total_qty + Excess(n)'
        BY <1>1, <1>2, <1>3, <1>5, <1>7, <4>1
      <4>3. ~Resting(n)' /\ ~Consumed(n)'
        BY <1>6, <1>9, <2>2
      <4>4. QED  BY <1>7, <3>2, <4>2, <4>3 DEF Conserved
    <3>3. CASE i # n
      BY <1>1, <1>7, <1>8, <1>9, <2>1, <2>2, <3>1, <3>3, ConservedFrame
    <3>4. QED  BY <3>2, <3>3
  <2>9. QED  BY <1>10, <2>3, <2>4, <2>5, <2>6, <2>7, <2>8 DEF IInv
<1>14. QED  BY <1>12, <1>13

(* The front of iceberg_consumed leaves it. *)
LEMMA PopConsumedFacts ==
    ASSUME IInv, iceberg_consumed # <<>>, iceberg_consumed' = Tail(iceberg_consumed), pc = "refresh"
    PROVE  \E id \in Id :
              /\ id = Head(iceberg_consumed)
              /\ iceberg_consumed' \in Seq(Id)
              /\ IsInjective(iceberg_consumed')
              /\ \A i \in Id : Consumed(i)' <=> Consumed(i) /\ i # id
              /\ Consumed(id) /\ ~Resting(id)
              /\ id \in Submitted \ {taker}
              /\ IsIceberg(order[id])
              /\ remaining_qty[id] = 0
              /\ taker \in Submitted
<1>1. iceberg_consumed \in Seq(Id) /\ IsInjective(iceberg_consumed)
  BY DEF IInv, TypeOK, ConsumedCoherent
<1>2. PICK id : id = Head(iceberg_consumed)
  OBVIOUS
<1>3. /\ Tail(iceberg_consumed) \in Seq(Id) /\ id \in Id
      /\ Contains(iceberg_consumed, id)
      /\ \A i : Contains(iceberg_consumed, i) <=> Contains(Tail(iceberg_consumed), i) \/ i = id
      /\ IsInjective(Tail(iceberg_consumed)) /\ ~Contains(Tail(iceberg_consumed), id)
  BY <1>1, <1>2, TailFacts
<1>4. \A i \in Id : Consumed(i)' <=> Consumed(i) /\ i # id
  BY <1>3 DEF Consumed
<1>5. Consumed(id)
  BY <1>3 DEF Consumed
<1>6. /\ id \in Submitted \ {taker} /\ IsIceberg(order[id])
      /\ remaining_qty[id] = 0 /\ ~Resting(id)
  BY <1>3, <1>5 DEF IInv, ConsumedCoherent
<1>7. taker \in Submitted
  BY DEF IInv, CallCoherent
<1>8. QED  BY <1>2, <1>3, <1>4, <1>5, <1>6, <1>7

LEMMA RefreshExhaustedInv == IInv /\ RefreshExhausted => IInv'
<1> SUFFICES ASSUME IInv, RefreshExhausted PROVE IInv'
  OBVIOUS
<1>1. iceberg_consumed # <<>> /\ iceberg_consumed' = Tail(iceberg_consumed) /\ pc = "refresh"
  BY DEF RefreshExhausted
<1>2. PICK id \in Id :
              /\ id = Head(iceberg_consumed)
              /\ iceberg_consumed' \in Seq(Id)
              /\ IsInjective(iceberg_consumed')
              /\ \A i \in Id : Consumed(i)' <=> Consumed(i) /\ i # id
              /\ Consumed(id) /\ ~Resting(id)
              /\ id \in Submitted \ {taker}
              /\ IsIceberg(order[id])
              /\ remaining_qty[id] = 0
              /\ taker \in Submitted
  BY <1>1, PopConsumedFacts
<1>3. /\ UNCHANGED <<next_order_id_, order, queue, remaining_qty, total_quantity,
                     hidden_remaining, pc, taker, remaining, trades, result,
                     total_trades_, recent_trades_, filled, took>>
      /\ icebergs_' = icebergs_ \ {id}
      /\ orders_index_' = IF id \in icebergs_ THEN [orders_index_ EXCEPT ![id] = NoLoc]
                                              ELSE orders_index_
  BY <1>2 DEF RefreshExhausted, tape, hist
<1>4. /\ orders_index_' \in [Id -> Location \cup {NoLoc}]
      /\ orders_index_'[id] \in {orders_index_[id], NoLoc}
      /\ \A i \in Id \ {id} : orders_index_'[i] = orders_index_[i]
  BY <1>3 DEF IInv, TypeOK
<1>5. Submitted' = Submitted /\ \A i : Resting(i)' <=> Resting(i)
  BY <1>3 DEF Submitted, Resting
<1>6. Submitted \subseteq Id
  BY SubmittedType DEF IInv
<1>7. TypeOK'
  BY <1>2, <1>3, <1>4 DEF IInv, TypeOK
<1>8. OrdersWellFormed'
  BY <1>3, <1>5 DEF IInv, OrdersWellFormed
<1>9. FreshUntouched'
  BY <1>2, <1>3, <1>4, <1>5 DEF IInv, FreshUntouched
<1>10. CallCoherent'
  BY <1>1, <1>2, <1>3, <1>4, <1>5, <1>6 DEF IInv, CallCoherent
<1>11. ConsumedCoherent'
  BY <1>2, <1>3, <1>5 DEF IInv, ConsumedCoherent
<1>12. IndexCoversBook'
  <2>1. ASSUME NEW s \in Side, NEW p \in Price, NEW i \in Id, Contains(queue[s][p], i)
        PROVE  i # id
    BY <1>2, <2>1 DEF Resting
  <2>2. QED  BY <1>3, <1>4, <1>5, <2>1 DEF IInv, IndexCoversBook
<1>13. Conservation'
  <2> SUFFICES ASSUME NEW i \in Submitted PROVE Conserved(i)'
    BY <1>5 DEF Conservation
  <2>1. i \in Id /\ Conserved(i)
    BY <1>6 DEF IInv, Conservation
  <2>2. CASE i = id
    <3>1. filled[id] + remaining_qty[id] + hidden_remaining[id] = order[id].total_qty + Excess(id)
      BY <1>1, <1>2, <2>1, <2>2 DEF Conserved
    <3>2. Excess(id)' = Excess(id)
      BY <1>3 DEF Excess
    <3>3. remaining_qty[id] \in Nat /\ hidden_remaining[id] \in Nat /\ filled[id] \in Nat
      BY DEF IInv, TypeOK
    <3>4. filled[id] <= filled[id] + remaining_qty[id] + hidden_remaining[id]
      BY <3>3
    <3>5. filled'[id] <= order'[id].total_qty + Excess(id)'
      BY <1>3, <3>1, <3>2, <3>4
    <3>6. ~Resting(id)' /\ ~Consumed(id)' /\ id # taker'
      BY <1>2, <1>3, <1>5
    <3>7. QED  BY <2>2, <3>5, <3>6 DEF Conserved
  <2>3. CASE i # id
    BY <1>1, <1>2, <1>3, <1>5, <2>1, <2>3, ConservedFrame
  <2>4. QED  BY <2>2, <2>3
<1>14. QED
  BY <1>7, <1>8, <1>9, <1>10, <1>11, <1>12, <1>13 DEF IInv

LEMMA RefreshSliceInv == IInv /\ RefreshSlice => IInv'
<1> SUFFICES ASSUME IInv, RefreshSlice PROVE IInv'
  OBVIOUS
<1>1. iceberg_consumed # <<>> /\ iceberg_consumed' = Tail(iceberg_consumed) /\ pc = "refresh"
  BY DEF RefreshSlice
<1>2. PICK id \in Id :
              /\ id = Head(iceberg_consumed)
              /\ iceberg_consumed' \in Seq(Id)
              /\ IsInjective(iceberg_consumed')
              /\ \A i \in Id : Consumed(i)' <=> Consumed(i) /\ i # id
              /\ Consumed(id) /\ ~Resting(id)
              /\ id \in Submitted \ {taker}
              /\ IsIceberg(order[id])
              /\ remaining_qty[id] = 0
              /\ taker \in Submitted
  BY <1>1, PopConsumedFacts
<1>3. PICK o, q : o = order[id] /\ q = MinOf(o.visible_qty, hidden_remaining[id])
  OBVIOUS
<1>4. /\ UNCHANGED <<next_order_id_, order, icebergs_, pc, taker, remaining, trades, result,
                     total_trades_, recent_trades_, filled, took>>
      /\ hidden_remaining' = [hidden_remaining EXCEPT ![id] = @ - q]
      /\ AddToLevel(id, o, q)
      /\ id \in icebergs_ /\ hidden_remaining[id] > 0
  BY <1>2, <1>3 DEF RefreshSlice, tape, hist
<1>5. /\ o \in Order /\ o.side \in Side /\ o.visible_qty \in Nat /\ o.total_qty \in Nat
      /\ Submitted \subseteq Id
      /\ hidden_remaining \in [Id -> Nat]
      /\ filled \in [Id -> Nat]
  BY <1>2, <1>3, SubmittedType DEF IInv, TypeOK, Order
<1>6. q \in Nat /\ q <= hidden_remaining[id]
  BY <1>3, <1>5 DEF MinOf
<1>7. Submitted' = Submitted
  BY <1>4 DEF Submitted
<1>8. BookTypeOK /\ BookInjective /\ IndexCoversBook
  BY DEF IInv, TypeOK, BookTypeOK, BookInjective, IndexCoversBook
<1>9. o.price \in Price
  BY <1>2, <1>3 DEF IInv, OrdersWellFormed, IsIceberg
<1>10. /\ BookTypeOK'
       /\ BookInjective'
       /\ \A s \in Side, p \in Price, i \in Id :
             Contains(queue'[s][p], i) <=>
                 Contains(queue[s][p], i) \/ (i = id /\ s = o.side /\ p = o.price)
       /\ remaining_qty' = [remaining_qty EXCEPT ![id] = q]
       /\ orders_index_' = [orders_index_ EXCEPT ![id] = <<o.side, o.price>>]
  BY <1>2, <1>4, <1>5, <1>6, <1>8, <1>9, AddToLevelFacts
<1>11. /\ remaining_qty'[id] = q /\ orders_index_'[id] = <<o.side, o.price>>
       /\ \A i \in Id \ {id} : /\ remaining_qty'[i] = remaining_qty[i]
                               /\ orders_index_'[i] = orders_index_[i]
  BY <1>8, <1>10 DEF BookTypeOK
<1>12. /\ Resting(id)'
       /\ \A i \in Id \ {id} : Resting(i)' <=> Resting(i)
  BY <1>5, <1>9, <1>10 DEF Resting
<1>13. /\ hidden_remaining' \in [Id -> Nat]
       /\ hidden_remaining'[id] = hidden_remaining[id] - q
       /\ \A i \in Id \ {id} : hidden_remaining'[i] = hidden_remaining[i]
  <2>1. hidden_remaining[id] - q \in Nat
    BY <1>5, <1>6
  <2>2. QED  BY <1>4, <1>5, <2>1
<1>14. TypeOK'
  BY <1>2, <1>4, <1>10, <1>13 DEF IInv, TypeOK, BookTypeOK
<1>15. OrdersWellFormed'
  BY <1>4, <1>7 DEF IInv, OrdersWellFormed
<1>16. FreshUntouched'
  BY <1>2, <1>4, <1>7, <1>11, <1>13 DEF IInv, FreshUntouched
<1>17. CallCoherent'
  BY <1>1, <1>2, <1>4, <1>5, <1>7, <1>11 DEF IInv, CallCoherent
<1>18. ConsumedCoherent'
  BY <1>2, <1>4, <1>7, <1>11, <1>12 DEF IInv, ConsumedCoherent
<1>19. IndexCoversBook'
  <2> SUFFICES ASSUME NEW s \in Side, NEW p \in Price, NEW i \in Id, Contains(queue'[s][p], i)
               PROVE  /\ i \in Submitted'
                      /\ order'[i].side = s /\ order'[i].price = p
                      /\ orders_index_'[i] = <<s, p>>
    BY <1>10 DEF IndexCoversBook, BookInjective
  <2>1. CASE i = id
    BY <1>2, <1>3, <1>4, <1>7, <1>10, <1>11, <2>1 DEF Resting
  <2>2. CASE i # id
    BY <1>4, <1>7, <1>8, <1>10, <1>11, <2>2 DEF IndexCoversBook
  <2>3. QED  BY <2>1, <2>2
<1>20. Conservation'
  <2> SUFFICES ASSUME NEW i \in Submitted PROVE Conserved(i)'
    BY <1>7 DEF Conservation
  <2>1. i \in Id /\ Conserved(i)
    BY <1>5 DEF IInv, Conservation
  <2>2. CASE i = id
    <3>1. filled[id] + remaining_qty[id] + hidden_remaining[id] = order[id].total_qty + Excess(id)
      BY <1>1, <1>2, <2>1, <2>2 DEF Conserved
    <3>2. Excess(id)' = Excess(id)
      BY <1>4 DEF Excess
    <3>3. filled'[id] + remaining_qty'[id] + hidden_remaining'[id]
             = order'[id].total_qty + Excess(id)'
      BY <1>2, <1>4, <1>5, <1>6, <1>11, <1>13, <3>1, <3>2
    <3>4. QED  BY <1>2, <1>4, <1>12, <2>2, <3>3 DEF Conserved
  <2>3. CASE i # id
    BY <1>1, <1>2, <1>4, <1>11, <1>12, <1>13, <2>1, <2>3, ConservedFrame
  <2>4. QED  BY <2>2, <2>3
<1>21. QED
  BY <1>14, <1>15, <1>16, <1>17, <1>18, <1>19, <1>20 DEF IInv

LEMMA RecordTradesType ==
    ASSUME TypeOK, RecordTrades
    PROVE  total_trades_' \in Nat /\ recent_trades_' \in Seq(Trade)
<1>1. total_trades_ \in Nat /\ recent_trades_ \in Seq(Trade) /\ trades \in Seq(Trade)
  BY DEF TypeOK
<1>2. PICK all : all = recent_trades_ \o trades
  OBVIOUS
<1>3. all \in Seq(Trade) /\ Len(all) \in Nat /\ \A k \in 1 .. Len(all) : all[k] \in Trade
  BY <1>1, <1>2, ConcatProperties, LenProperties, ElementOfSeq
<1>4. MaxRecent \in Nat \ {0}
  BY ConstantsAssumption
<1>5. LastN(all, MaxRecent) \in Seq(Trade)
  <2>1. CASE Len(all) <= MaxRecent
    BY <1>3, <2>1 DEF LastN
  <2>2. CASE Len(all) > MaxRecent
    <3>1. /\ Len(all) - MaxRecent + 1 \in Int /\ Len(all) \in Int
          /\ \A k \in (Len(all) - MaxRecent + 1) .. Len(all) : all[k] \in Trade
      BY <1>3, <1>4, <2>2
    <3>2. SubSeq(all, Len(all) - MaxRecent + 1, Len(all)) \in Seq(Trade)
      BY <3>1, SubSeqProperties
    <3>3. ~(Len(all) <= MaxRecent)
      BY <1>3, <1>4, <2>2
    <3>4. QED  BY <3>2, <3>3 DEF LastN
  <2>3. QED  BY <1>3, <1>4, <2>1, <2>2
<1>6. total_trades_' \in Nat
  <2>1. Len(trades) \in Nat
    BY <1>1, LenProperties
  <2>2. QED  BY <1>1, <2>1 DEF RecordTrades
<1>7. QED  BY <1>2, <1>5, <1>6 DEF RecordTrades

(* What every way of returning from addOrder has in common *)
LEMMA ReturnFacts ==
    ASSUME IInv, NEW types, Returning(types), NEW status \in SubmitStatus, Return(status)
    PROVE  /\ UNCHANGED <<next_order_id_, order, iceberg_consumed, filled, took>>
           /\ pc = "refresh" /\ pc' = "idle" /\ taker' = 0 /\ remaining' = 0 /\ trades' = <<>>
           /\ total_trades_' \in Nat /\ recent_trades_' \in Seq(Trade)
           /\ result'.id \in Id \cup {0}
           /\ result'.status \in SubmitStatus \cup {"CancelTrue", "CancelFalse", "None"}
           /\ result'.trades \in Seq(Trade)
           /\ Submitted' = Submitted /\ Submitted \subseteq Id
           /\ taker \in Submitted /\ 0 \notin Submitted
           /\ \A i : ~Consumed(i) /\ ~Consumed(i)'
           /\ OrdersWellFormed'
           /\ CallCoherent'
           /\ ConsumedCoherent'
<1>1. /\ UNCHANGED <<next_order_id_, order, iceberg_consumed, filled, took>>
      /\ pc = "refresh" /\ pc' = "idle" /\ taker' = 0 /\ remaining' = 0 /\ trades' = <<>>
      /\ result' = [id |-> taker, status |-> status, trades |-> trades]
      /\ RecordTrades /\ iceberg_consumed = <<>>
  BY DEF Returning, Return, hist
<1>2. total_trades_' \in Nat /\ recent_trades_' \in Seq(Trade)
  BY <1>1, RecordTradesType DEF IInv
<1>3. /\ Submitted' = Submitted /\ Submitted \subseteq Id
      /\ taker \in Submitted /\ 0 \notin Submitted
  BY <1>1, SubmittedType DEF IInv, CallCoherent, Submitted
<1>4. /\ result'.id \in Id \cup {0}
      /\ result'.status \in SubmitStatus \cup {"CancelTrue", "CancelFalse", "None"}
      /\ result'.trades \in Seq(Trade)
  BY <1>1, <1>3 DEF IInv, TypeOK
<1>5. \A i : ~Consumed(i) /\ ~Consumed(i)'
  BY <1>1 DEF Consumed, Contains
<1>6. OrdersWellFormed'
  BY <1>1, <1>3 DEF IInv, OrdersWellFormed
<1>7. CallCoherent'
  BY <1>1 DEF CallCoherent
<1>8. ConsumedCoherent'
  BY <1>1, <1>5 DEF IInv, ConsumedCoherent
<1>9. QED  BY <1>1, <1>2, <1>3, <1>4, <1>5, <1>6, <1>7, <1>8

(* Limit, market and fill-or-kill orders: nothing else happens. *)
LEMMA ReturnPlainInv ==
    ASSUME IInv, NEW types, Returning(types), NEW status \in SubmitStatus, Return(status),
           UNCHANGED <<book, bergs>>
    PROVE  IInv'
<1>1. /\ UNCHANGED <<next_order_id_, order, iceberg_consumed, filled, took>>
      /\ pc = "refresh" /\ pc' = "idle" /\ taker' = 0 /\ remaining' = 0 /\ trades' = <<>>
      /\ total_trades_' \in Nat /\ recent_trades_' \in Seq(Trade)
      /\ result'.id \in Id \cup {0}
      /\ result'.status \in SubmitStatus \cup {"CancelTrue", "CancelFalse", "None"}
      /\ result'.trades \in Seq(Trade)
      /\ Submitted' = Submitted
      /\ \A i : ~Consumed(i) /\ ~Consumed(i)'
      /\ OrdersWellFormed' /\ CallCoherent' /\ ConsumedCoherent'
  BY ReturnFacts
<1>2. UNCHANGED <<queue, remaining_qty, total_quantity, orders_index_, icebergs_, hidden_remaining>>
  BY DEF book, bergs
<1>3. TypeOK'
  <2>1. trades' \in Seq(Trade)
    BY <1>1
  <2>2. QED  BY <1>1, <1>2, <2>1 DEF IInv, TypeOK
<1>4. FreshUntouched'
  BY <1>1, <1>2 DEF IInv, FreshUntouched
<1>5. IndexCoversBook'
  BY <1>1, <1>2 DEF IInv, IndexCoversBook
<1>6. Conservation'
  <2> SUFFICES ASSUME NEW i \in Submitted PROVE Conserved(i)'
    BY <1>1 DEF Conservation
  <2>1. Conserved(i) /\ (Resting(i)' <=> Resting(i))
    BY <1>2 DEF IInv, Conservation, Resting
  <2>2. QED  BY <1>1, <1>2, <2>1, ConservedFrame
<1>7. QED  BY <1>1, <1>3, <1>4, <1>5, <1>6 DEF IInv

(* Taking an indexed order out of the book, by a cancel or at the end of   *)
(* an immediate-or-cancel call                                             *)
LEMMA RemovalInv ==
    ASSUME IInv, NEW id \in Id, orders_index_[id] # NoLoc, RemoveFromBook(id),
           pc \in {"idle", "refresh"}, pc' = "idle", taker' = 0,
           UNCHANGED <<next_order_id_, order, filled, took>>,
           \A i : ~Consumed(i) /\ ~Consumed(i)',
           OrdersWellFormed', CallCoherent', ConsumedCoherent', Submitted' = Submitted,
           remaining' \in Nat, iceberg_consumed' \in Seq(Id), trades' \in Seq(Trade),
           total_trades_' \in Nat, recent_trades_' \in Seq(Trade),
           result'.id \in Id \cup {0},
           result'.status \in SubmitStatus \cup {"CancelTrue", "CancelFalse", "None"},
           result'.trades \in Seq(Trade)
    PROVE  IInv'
<1>1. /\ BookTypeOK'
      /\ BookInjective'
      /\ \A s \in Side, p \in Price, i \in Id :
            Contains(queue'[s][p], i) <=> Contains(queue[s][p], i) /\ i # id
      /\ remaining_qty' = [remaining_qty EXCEPT ![id] = 0]
      /\ orders_index_' = [orders_index_ EXCEPT ![id] = NoLoc]
  BY RemoveFromBookFacts DEF IInv, TypeOK, BookTypeOK
<1>2. /\ icebergs_' = icebergs_ \ {id}
      /\ hidden_remaining' = [hidden_remaining EXCEPT ![id] = 0]
  BY DEF RemoveFromBook
<1>3. /\ remaining_qty'[id] = 0 /\ orders_index_'[id] = NoLoc /\ hidden_remaining'[id] = 0
      /\ hidden_remaining' \in [Id -> Nat]
      /\ \A i \in Id \ {id} : /\ remaining_qty'[i] = remaining_qty[i]
                              /\ orders_index_'[i] = orders_index_[i]
                              /\ hidden_remaining'[i] = hidden_remaining[i]
  BY <1>1, <1>2 DEF IInv, TypeOK
<1>4. /\ ~Resting(id)'
      /\ \A i \in Id \ {id} : Resting(i)' <=> Resting(i)
  BY <1>1 DEF Resting
<1>5. TypeOK'
  BY <1>1, <1>2, <1>3 DEF IInv, TypeOK, BookTypeOK
<1>6. FreshUntouched'
  BY <1>2, <1>3 DEF IInv, FreshUntouched
<1>7. IndexCoversBook'
  <2> SUFFICES ASSUME NEW s \in Side, NEW p \in Price, NEW i \in Id, Contains(queue'[s][p], i)
               PROVE  /\ i \in Submitted'
                      /\ order'[i].side = s /\ order'[i].price = p
                      /\ orders_index_'[i] = <<s, p>>
    BY <1>1 DEF IndexCoversBook, BookInjective
  <2>1. Contains(queue[s][p], i) /\ i # id
    BY <1>1
  <2>2. QED  BY <1>3, <2>1, SMTT(40) DEF IInv, IndexCoversBook
<1>8. Conservation'
  <2> SUFFICES ASSUME NEW i \in Submitted PROVE Conserved(i)'
    BY DEF Conservation
  <2>1. i \in Id /\ Conserved(i)
    BY SubmittedType DEF IInv, Conservation
  <2>2. CASE i = id
    <3>1. Excess(id)' = Excess(id)
      BY DEF Excess
    <3>2. /\ remaining_qty[id] \in Nat /\ hidden_remaining[id] \in Nat /\ filled[id] \in Nat
      BY DEF IInv, TypeOK
    <3>3. filled[id] <= filled[id] + remaining_qty[id] + hidden_remaining[id]
      BY <3>2
    <3>4. filled[id] <= order[id].total_qty + Excess(id)
      BY <2>1, <2>2, <3>3 DEF Conserved
    <3>5. QED  BY <1>4, <2>2, <3>1, <3>4 DEF Conserved
  <2>3. CASE i # id
    BY <1>3, <1>4, <2>1, <2>3, ConservedFrame
  <2>4. QED  BY <2>2, <2>3
<1>9. QED  BY <1>5, <1>6, <1>7, <1>8 DEF IInv

LEMMA ReturnIOCInv == IInv /\ ReturnIOC => IInv'
<1> SUFFICES ASSUME IInv, ReturnIOC PROVE IInv'
  OBVIOUS
<1>1. PICK status \in SubmitStatus : Return(status)
  <2>1. remaining \in Nat
    BY DEF IInv, TypeOK
  <2>2. CASE trades = <<>>
    BY <2>2 DEF ReturnIOC, SubmitStatus
  <2>3. CASE trades # <<>> /\ remaining = 0
    BY <2>3 DEF ReturnIOC, SubmitStatus
  <2>4. CASE trades # <<>> /\ remaining > 0
    BY <2>4 DEF ReturnIOC, SubmitStatus
  <2>5. QED  BY <2>1, <2>2, <2>3, <2>4
<1>2. Returning({"IOC"})
  BY DEF ReturnIOC
<1>3. CASE remaining > 0
  <2>1. RemoveFromBook(taker)
    BY <1>3 DEF ReturnIOC
  <2>2. /\ UNCHANGED <<next_order_id_, order, iceberg_consumed, filled, took>>
        /\ pc = "refresh" /\ pc' = "idle" /\ taker' = 0 /\ remaining' = 0 /\ trades' = <<>>
        /\ total_trades_' \in Nat /\ recent_trades_' \in Seq(Trade)
        /\ result'.id \in Id \cup {0}
        /\ result'.status \in SubmitStatus \cup {"CancelTrue", "CancelFalse", "None"}
        /\ result'.trades \in Seq(Trade)
        /\ Submitted' = Submitted /\ Submitted \subseteq Id /\ taker \in Submitted
        /\ \A i : ~Consumed(i) /\ ~Consumed(i)'
        /\ OrdersWellFormed' /\ CallCoherent' /\ ConsumedCoherent'
    BY <1>1, <1>2, ReturnFacts
  <2>3. PICK n : n = taker
    OBVIOUS
  <2>4. orders_index_[n] = <<order[n].side, order[n].price>>
    BY <1>2, <1>3, <2>2, <2>3 DEF IInv, CallCoherent, Returning
  <2>5. orders_index_[n] # NoLoc
    <3>1. order[n].side \in Side
      BY <2>2, <2>3 DEF IInv, TypeOK, Order
    <3>2. QED  BY <2>4, <3>1 DEF NoLoc, Side
  <2>6. iceberg_consumed' \in Seq(Id) /\ trades' \in Seq(Trade) /\ remaining' \in Nat
    BY <2>2 DEF IInv, TypeOK
  <2>7. n \in Id /\ RemoveFromBook(n) /\ pc \in {"idle", "refresh"}
    BY <2>1, <2>2, <2>3
  <2>8. QED  BY <2>2, <2>5, <2>6, <2>7, RemovalInv
<1>4. CASE ~(remaining > 0)
  BY <1>1, <1>2, <1>4, ReturnPlainInv DEF ReturnIOC
<1>5. QED  BY <1>3, <1>4

LEMMA ReturnStandardInv == IInv /\ (ReturnStandard \/ ReturnFOK) => IInv'
<1> SUFFICES ASSUME IInv, ReturnStandard \/ ReturnFOK PROVE IInv'
  OBVIOUS
<1>1. CASE ReturnStandard
  <2>1. PICK status \in SubmitStatus : Return(status)
    BY <1>1 DEF ReturnStandard, SubmitStatus
  <2>2. QED  BY <1>1, <2>1, ReturnPlainInv DEF ReturnStandard
<1>2. CASE ReturnFOK
  <2>1. PICK status \in SubmitStatus : Return(status)
    BY <1>2 DEF ReturnFOK, SubmitStatus
  <2>2. QED  BY <1>2, <2>1, ReturnPlainInv DEF ReturnFOK
<1>3. QED  BY <1>1, <1>2

(* An iceberg filled on entry is untracked: nothing of it was placed. *)
LEMMA ReturnIcebergInv == IInv /\ ReturnIceberg => IInv'
<1> SUFFICES ASSUME IInv, ReturnIceberg PROVE IInv'
  OBVIOUS
<1>1. PICK status \in SubmitStatus : Return(status)
  BY DEF ReturnIceberg, SubmitStatus
<1>2. Returning({"Iceberg"})
  BY DEF ReturnIceberg
<1>3. CASE remaining = 0
  <2>1. /\ UNCHANGED <<next_order_id_, order, iceberg_consumed, filled, took>>
        /\ pc = "refresh" /\ pc' = "idle" /\ taker' = 0 /\ remaining' = 0 /\ trades' = <<>>
        /\ total_trades_' \in Nat /\ recent_trades_' \in Seq(Trade)
        /\ result'.id \in Id \cup {0}
        /\ result'.status \in SubmitStatus \cup {"CancelTrue", "CancelFalse", "None"}
        /\ result'.trades \in Seq(Trade)
        /\ Submitted' = Submitted /\ Submitted \subseteq Id
        /\ taker \in Submitted /\ 0 \notin Submitted
        /\ \A i : ~Consumed(i) /\ ~Consumed(i)'
        /\ OrdersWellFormed' /\ CallCoherent' /\ ConsumedCoherent'
    BY <1>1, <1>2, ReturnFacts
  <2>2. /\ UNCHANGED <<queue, remaining_qty, total_quantity, orders_index_>>
        /\ icebergs_' = icebergs_ \ {taker}
        /\ hidden_remaining' = [hidden_remaining EXCEPT ![taker] = 0]
    BY <1>3 DEF ReturnIceberg, book
  <2>3. PICK n : n = taker
    OBVIOUS
  <2>4. ~Resting(n)
    <3>1. orders_index_[n] = NoLoc
      BY <1>3, <2>1, <2>3 DEF IInv, CallCoherent
    <3>2. QED  BY <2>1, <2>3, <3>1, UnindexedNotResting DEF IInv
  <2>5. /\ hidden_remaining' \in [Id -> Nat]
        /\ hidden_remaining'[n] = 0
        /\ \A i \in Id \ {n} : hidden_remaining'[i] = hidden_remaining[i]
    BY <2>1, <2>2, <2>3 DEF IInv, TypeOK
  <2>6. \A i : Resting(i)' <=> Resting(i)
    BY <2>2 DEF Resting
  <2>7. TypeOK'
    <3>1. trades' \in Seq(Trade)
      BY <2>1
    <3>2. QED  BY <2>1, <2>2, <2>5, <3>1 DEF IInv, TypeOK
  <2>8. FreshUntouched'
    BY <2>1, <2>2, <2>3, <2>5 DEF IInv, FreshUntouched
  <2>9. IndexCoversBook'
    BY <2>1, <2>2 DEF IInv, IndexCoversBook
  <2>10. Conservation'
    <3> SUFFICES ASSUME NEW i \in Submitted PROVE Conserved(i)'
      BY <2>1 DEF Conservation
    <3>1. i \in Id /\ Conserved(i)
      BY <2>1 DEF IInv, Conservation
    <3>2. CASE i = n
      <4>1. filled[n] <= order[n].total_qty + Excess(n)
        BY <2>1, <2>4, <3>1, <3>2 DEF Conserved
      <4>2. Excess(n)' = Excess(n)
        BY <2>1 DEF Excess
      <4>3. QED  BY <2>1, <2>4, <2>6, <3>2, <4>1, <4>2 DEF Conserved
    <3>3. CASE i # n
      BY <2>1, <2>2, <2>5, <2>6, <3>1, <3>3, ConservedFrame
    <3>4. QED  BY <3>2, <3>3
  <2>11. QED  BY <2>1, <2>7, <2>8, <2>9, <2>10 DEF IInv
<1>4. CASE remaining # 0
  BY <1>1, <1>2, <1>4, ReturnPlainInv DEF ReturnIceberg
<1>5. QED  BY <1>3, <1>4

LEMMA CancelFoundInv == \A id \in Id : IInv /\ CancelFound(id) => IInv'
<1> SUFFICES ASSUME NEW id \in Id, IInv, CancelFound(id) PROVE IInv'
  OBVIOUS
<1>1. /\ UNCHANGED <<next_order_id_, order, pc, taker, remaining, iceberg_consumed, trades,
                     total_trades_, recent_trades_, filled, took>>
      /\ pc = "idle" /\ orders_index_[id] # NoLoc /\ RemoveFromBook(id)
      /\ result' = [NoResult EXCEPT !.status = "CancelTrue"]
  BY DEF CancelFound, call, tape, hist
<1>2. /\ result'.id \in Id \cup {0}
      /\ result'.status \in SubmitStatus \cup {"CancelTrue", "CancelFalse", "None"}
      /\ result'.trades \in Seq(Trade)
  BY <1>1 DEF NoResult
<1>3. /\ taker = 0 /\ iceberg_consumed = <<>>
      /\ \A i : ~Consumed(i) /\ ~Consumed(i)'
  BY <1>1 DEF IInv, CallCoherent, Consumed, Contains
<1>4. Submitted' = Submitted
  BY <1>1 DEF Submitted
<1>5. OrdersWellFormed'
  BY <1>1, <1>4 DEF IInv, OrdersWellFormed
<1>6. CallCoherent'
  BY <1>1, <1>3 DEF CallCoherent
<1>7. ConsumedCoherent'
  BY <1>1, <1>3 DEF IInv, ConsumedCoherent
<1>8. /\ remaining' \in Nat /\ iceberg_consumed' \in Seq(Id) /\ trades' \in Seq(Trade)
      /\ total_trades_' \in Nat /\ recent_trades_' \in Seq(Trade)
  BY <1>1 DEF IInv, TypeOK
<1>9. QED
  BY <1>1, <1>2, <1>3, <1>4, <1>5, <1>6, <1>7, <1>8, RemovalInv

(* Steps that change nothing the invariant is about, but the result and    *)
(* the tape                                                                *)
LEMMA IdleInv ==
    ASSUME IInv,
           UNCHANGED <<next_order_id_, order, queue, remaining_qty, total_quantity, orders_index_,
                       icebergs_, hidden_remaining, pc, taker, remaining, iceberg_consumed,
                       trades, total_trades_, filled, took>>,
           recent_trades_' \in Seq(Trade),
           result'.id \in Id \cup {0},
           result'.status \in SubmitStatus \cup {"CancelTrue", "CancelFalse", "None"},
           result'.trades \in Seq(Trade)
    PROVE  IInv'
<1>1. /\ Submitted' = Submitted
      /\ \A i : (Resting(i)' <=> Resting(i)) /\ (Consumed(i)' <=> Consumed(i))
      /\ \A i : Excess(i)' = Excess(i)
  BY DEF Submitted, Resting, Consumed, Excess
<1>2. TypeOK'
  BY DEF IInv, TypeOK
<1>3. OrdersWellFormed' /\ FreshUntouched' /\ CallCoherent'
  BY <1>1 DEF IInv, OrdersWellFormed, FreshUntouched, CallCoherent
<1>4. ConsumedCoherent'
  BY <1>1 DEF IInv, ConsumedCoherent
<1>5. IndexCoversBook'
  BY <1>1 DEF IInv, IndexCoversBook
<1>6. Conservation'
  BY <1>1 DEF IInv, Conservation, Conserved
<1>7. QED  BY <1>2, <1>3, <1>4, <1>5, <1>6 DEF IInv

LEMMA NextInv == IInv /\ [Next]_vars => IInv'
<1> SUFFICES ASSUME IInv, [Next]_vars PROVE IInv'
  OBVIOUS
<1>1. CASE Submit
  BY <1>1, SubmitInv
<1>2. CASE MatchStep
  BY <1>2, MatchStepInv
<1>3. CASE EndMatch
  BY <1>3, EndMatchInv
<1>4. CASE RefreshExhausted
  BY <1>4, RefreshExhaustedInv
<1>5. CASE RefreshSlice
  BY <1>5, RefreshSliceInv
<1>6. CASE ReturnStandard \/ ReturnFOK
  BY <1>6, ReturnStandardInv
<1>7. CASE ReturnIOC
  BY <1>7, ReturnIOCInv
<1>8. CASE ReturnIceberg
  BY <1>8, ReturnIcebergInv
<1>9. ASSUME NEW id \in Id, CancelFound(id) PROVE IInv'
  BY <1>9, CancelFoundInv
<1>10. ASSUME NEW id \in Id, CancelUnknown(id) PROVE IInv'
  <2>1. /\ result'.id \in Id \cup {0}
        /\ result'.status \in SubmitStatus \cup {"CancelTrue", "CancelFalse", "None"}
        /\ result'.trades \in Seq(Trade)
    BY <1>10 DEF CancelUnknown, NoResult
  <2>2. recent_trades_' \in Seq(Trade)
    BY <1>10 DEF CancelUnknown, tape, IInv, TypeOK
  <2>3. QED  BY <1>10, <2>1, <2>2, IdleInv DEF CancelUnknown, book, bergs, call, tape, hist
<1>11. CASE ClearRecentTrades
  <2>1. /\ result'.id \in Id \cup {0}
        /\ result'.status \in SubmitStatus \cup {"CancelTrue", "CancelFalse", "None"}
        /\ result'.trades \in Seq(Trade)
    BY <1>11 DEF ClearRecentTrades, IInv, TypeOK
  <2>2. recent_trades_' \in Seq(Trade)
    BY <1>11 DEF ClearRecentTrades
  <2>3. QED  BY <1>11, <2>1, <2>2, IdleInv DEF ClearRecentTrades, book, bergs, call, hist
<1>12. CASE UNCHANGED vars
  <2>1. /\ result'.id \in Id \cup {0}
        /\ result'.status \in SubmitStatus \cup {"CancelTrue", "CancelFalse", "None"}
        /\ result'.trades \in Seq(Trade)
        /\ recent_trades_' \in Seq(Trade)
    BY <1>12 DEF vars, tape, IInv, TypeOK
  <2>2. QED  BY <1>12, <2>1, IdleInv DEF vars, book, bergs, call, tape, hist
<1>13. QED
  BY <1>1, <1>2, <1>3, <1>4, <1>5, <1>6, <1>7, <1>8, <1>9, <1>10, <1>11, <1>12 DEF Next, CancelOrder, Engine

(* The engine keeps the whole of the inductive invariant.                  *)
THEOREM Invariance == Spec => []IInv
BY InitInv, NextInv, PTL DEF Spec

(* Every variable keeps its type, and total_quantity its width, whatever   *)
(* the orders submitted and cancelled.                                     *)
THEOREM TypeCorrectness == Spec => []TypeOK
<1>1. IInv => TypeOK
  BY DEF IInv
<1>2. QED  BY <1>1, Invariance, PTL

(* OrderBook's two structures agree: each resting order stands once, in    *)
(* the level of its own side and price, where the id index points.         *)
THEOREM IndexAgreement == Spec => []IndexCoversBook
<1>1. IInv => IndexCoversBook
  BY DEF IInv
<1>2. QED  BY <1>1, Invariance, PTL

(* No fill, refresh or cancel loses or doubles a unit of any order, except *)
(* for the Excess of an iceberg that traded on entry.                      *)
THEOREM QuantityConservation == Spec => []Conservation
<1>1. IInv => Conservation
  BY DEF IInv
<1>2. QED  BY <1>1, Invariance, PTL

-----------------------------------------------------------------------------
(* Without iceberg orders the bids stay below the asks, after every step   *)
(* of every call.                                                          *)

LEMMA LevelOccupied ==
    ASSUME BookTypeOK, NEW s \in Side, NEW p \in Price
    PROVE  p \in Levels(s) <=> \E i \in Id : Contains(queue[s][p], i)
<1>1. queue[s][p] \in Seq(Id)
  BY DEF BookTypeOK
<1>2. CASE queue[s][p] = <<>>
  BY <1>2 DEF Levels, Contains
<1>3. CASE queue[s][p] # <<>>
  BY <1>1, <1>3, TailFacts DEF Levels
<1>4. QED  BY <1>2, <1>3

LEMMA LevelOccupiedNext ==
    ASSUME BookTypeOK', NEW s \in Side, NEW p \in Price
    PROVE  p \in Levels(s)' <=> \E i \in Id : Contains(queue'[s][p], i)
<1>1. queue'[s][p] \in Seq(Id)
  BY DEF BookTypeOK
<1>2. CASE queue'[s][p] = <<>>
  BY <1>2 DEF Levels, Contains
<1>3. CASE queue'[s][p] # <<>>
  BY <1>1, <1>3, TailFacts DEF Levels
<1>4. QED  BY <1>2, <1>3

(* Taking orders out of the book cannot cross it. *)
LEMMA ShrinkUncrossed ==
    ASSUME BookTypeOK, BookTypeOK', Uncrossed,
           \A s \in Side, p \in Price, i \in Id :
               Contains(queue'[s][p], i) => Contains(queue[s][p], i)
    PROVE  Uncrossed'
<1>1. \A s \in Side : Levels(s)' \subseteq Levels(s) /\ Levels(s)' \subseteq Price
  <2> SUFFICES ASSUME NEW s \in Side, NEW p \in Price, p \in Levels(s)' PROVE p \in Levels(s)
    BY DEF Levels
  <2>1. PICK i \in Id : Contains(queue'[s][p], i)
    BY LevelOccupiedNext
  <2>2. QED  BY <2>1, LevelOccupied
<1>2. QED  BY <1>1 DEF Uncrossed, Side

(* Nor can placing an order at a price no opposite level crosses. *)
LEMMA GrowUncrossed ==
    ASSUME BookTypeOK, BookTypeOK', Uncrossed,
           NEW t \in Side, NEW l \in Price,
           \A p \in Levels(Opposite(t)) : ~PriceCrosses(t, l, p),
           \A s \in Side, p \in Price, i \in Id :
               Contains(queue'[s][p], i) => Contains(queue[s][p], i) \/ (s = t /\ p = l)
    PROVE  Uncrossed'
<1>1. \A s \in Side : \A p \in Levels(s)' : p \in Price /\ (p \in Levels(s) \/ (s = t /\ p = l))
  <2> SUFFICES ASSUME NEW s \in Side, NEW p \in Price, p \in Levels(s)'
               PROVE  p \in Levels(s) \/ (s = t /\ p = l)
    BY DEF Levels
  <2>1. PICK i \in Id : Contains(queue'[s][p], i)
    BY LevelOccupiedNext
  <2>2. QED  BY <2>1, LevelOccupied
<1>2. Price \subseteq Int
  BY ConstantsAssumption
<1>3. SUFFICES ASSUME NEW b \in Levels("Bid")', NEW a \in Levels("Ask")' PROVE b < a
  BY DEF Uncrossed
<1>4. /\ b \in Int /\ a \in Int
      /\ b \in Levels("Bid") \/ ("Bid" = t /\ b = l)
      /\ a \in Levels("Ask") \/ ("Ask" = t /\ a = l)
  BY <1>1, <1>2 DEF Side
<1>5. CASE b \in Levels("Bid") /\ a \in Levels("Ask")
  BY <1>5 DEF Uncrossed
<1>6. CASE t = "Bid" /\ b = l /\ a \in Levels("Ask")
  BY <1>4, <1>6 DEF Opposite, PriceCrosses
<1>7. CASE t = "Ask" /\ a = l /\ b \in Levels("Bid")
  BY <1>4, <1>7 DEF Opposite, PriceCrosses
<1>8. QED  BY <1>4, <1>5, <1>6, <1>7

LEMMA UncrossedInit == Init => Uncrossed
BY DEF Init, Uncrossed, Levels, Side

(* Post-only orders rest only where they would not match. *)
LEMMA SubmitUncrossed == IInv /\ Uncrossed /\ Submit => Uncrossed'
<1> SUFFICES ASSUME IInv, Uncrossed, NEW r \in Request,
                    SubmitPostOnly(r) \/ SubmitFOK(r) \/ SubmitStandard(r) \/ SubmitIceberg(r)
             PROVE  Uncrossed'
  BY DEF Submit, SubmitOrder
<1>1. CASE UNCHANGED book
  BY <1>1 DEF book, Uncrossed, Levels
<1>2. CASE /\ SubmitPostOnly(r) /\ ~WouldMatch(r.side, r.price)
           /\ AddToLevel(next_order_id_, r, r.total_qty)
  <2>1. PICK n : n = next_order_id_
    OBVIOUS
  <2>2. r.side \in Side /\ r.price \in Price /\ r.total_qty \in Nat /\ GoodOrder(r)
    BY <1>2, RequestFacts DEF SubmitPostOnly
  <2>3. n \in Id /\ ~Resting(n)
    BY <1>2, <2>1, <2>2, NewOrderFacts DEF SubmitPostOnly
  <2>4. BookTypeOK /\ BookInjective /\ AddToLevel(n, r, r.total_qty)
    BY <1>2, <2>1 DEF IInv, TypeOK, BookTypeOK, IndexCoversBook, BookInjective
  <2>5. /\ BookTypeOK'
        /\ \A s \in Side, p \in Price, i \in Id :
              Contains(queue'[s][p], i) <=>
                  Contains(queue[s][p], i) \/ (i = n /\ s = r.side /\ p = r.price)
    BY <2>2, <2>3, <2>4, AddToLevelFacts
  <2>6. \A p \in Levels(Opposite(r.side)) : ~PriceCrosses(r.side, r.price, p)
    BY <1>2 DEF WouldMatch
  <2>7. QED  BY <2>2, <2>4, <2>5, <2>6, GrowUncrossed
<1>3. QED
  BY <1>1, <1>2 DEF SubmitPostOnly, SubmitFOK, SubmitStandard, SubmitIceberg, BeginMatching

LEMMA MatchStepUncrossed == IInv /\ Uncrossed /\ MatchStep => Uncrossed'
<1> SUFFICES ASSUME IInv, Uncrossed, MatchStep PROVE Uncrossed'
  OBVIOUS
<1>1. PICK s : s = Opposite(order[taker].side)
  OBVIOUS
<1>2. s \in Side /\ remaining \in Nat
  <2>1. taker \in Id /\ order \in [Id -> Order] /\ remaining \in Nat
    BY SubmittedType DEF IInv, TypeOK, CallCoherent, MatchStep
  <2>2. QED  BY <1>1, <2>1, SideFacts DEF Order
<1>3. PICK p \in Reach : FillFront(p)
  BY DEF MatchStep
<1>4. p \in Price /\ queue[s][p] # <<>>
  BY <1>1 DEF Reach, Levels
<1>5. BookTypeOK /\ IndexCoversBook
  BY DEF IInv, TypeOK, BookTypeOK
<1>6. /\ BookTypeOK'
      /\ \A t \in Side, l \in Price, i \in Id :
            Contains(queue'[t][l], i) => Contains(queue[t][l], i)
  <2>1. PICK m \in Id, c \in Nat : FillEffect(s, p, m, c)
    BY <1>1, <1>2, <1>3, <1>4, <1>5, FillFrontFacts
  <2>2. QED  BY <2>1 DEF FillEffect
<1>7. QED  BY <1>5, <1>6, ShrinkUncrossed

(* The matching loop ends only when no opposite level is left to trade     *)
(* with, so what rests then rests clear of them.                           *)
LEMMA EndMatchUncrossed == IInv /\ Uncrossed /\ EndMatch => Uncrossed'
<1> SUFFICES ASSUME IInv, Uncrossed, EndMatch PROVE Uncrossed'
  OBVIOUS
<1>1. PICK n, o : n = taker /\ o = order[taker]
  OBVIOUS
<1>2. /\ n \in Submitted /\ n \in Id /\ o \in Order /\ o.side \in Side
      /\ o.total_qty \in Nat /\ o.visible_qty \in Nat
      /\ orders_index_[n] = NoLoc /\ remaining \in Nat
  BY <1>1, SubmittedType DEF IInv, TypeOK, CallCoherent, EndMatch, Order
<1>3. BookTypeOK /\ BookInjective /\ IndexCoversBook
  BY DEF IInv, TypeOK, BookTypeOK, BookInjective, IndexCoversBook
<1>4. CASE remaining > 0 /\ o.type # "Market"
  <2>1. PICK q : q = DisplayQty(o, remaining)
    OBVIOUS
  <2>2. q \in Nat
    BY <1>2, <2>1 DEF DisplayQty, MinOf
  <2>3. AddToLevel(n, o, q) /\ o.price \in Price
    BY <1>1, <1>2, <1>4, <2>1 DEF EndMatch, IInv, OrdersWellFormed
  <2>4. ~Resting(n)
    BY <1>2, <1>3, UnindexedNotResting
  <2>5. /\ BookTypeOK'
        /\ \A s \in Side, p \in Price, i \in Id :
              Contains(queue'[s][p], i) <=>
                  Contains(queue[s][p], i) \/ (i = n /\ s = o.side /\ p = o.price)
    BY <1>2, <1>3, <2>2, <2>3, <2>4, AddToLevelFacts
  <2>6. \A p \in Levels(Opposite(o.side)) : ~PriceCrosses(o.side, o.price, p)
    BY <1>1, <1>2, <1>4 DEF EndMatch, Reach
  <2>7. QED  BY <1>2, <1>3, <2>3, <2>5, <2>6, GrowUncrossed
<1>5. CASE ~(remaining > 0 /\ o.type # "Market")
  BY <1>1, <1>5 DEF EndMatch, book, Uncrossed, Levels
<1>6. QED  BY <1>4, <1>5

LEMMA RemovalUncrossed ==
    ASSUME IInv, Uncrossed, NEW id \in Id, orders_index_[id] # NoLoc, RemoveFromBook(id)
    PROVE  Uncrossed'
<1>1. BookTypeOK /\ IndexCoversBook
  BY DEF IInv, TypeOK, BookTypeOK
<1>2. /\ BookTypeOK'
      /\ \A s \in Side, p \in Price, i \in Id :
            Contains(queue'[s][p], i) => Contains(queue[s][p], i)
  BY <1>1, RemoveFromBookFacts
<1>3. QED  BY <1>1, <1>2, ShrinkUncrossed

LEMMA ReturnIOCUncrossed == IInv /\ Uncrossed /\ ReturnIOC => Uncrossed'
<1> SUFFICES ASSUME IInv, Uncrossed, ReturnIOC PROVE Uncrossed'
  OBVIOUS
<1>1. CASE remaining > 0
  <2>1. PICK n : n = taker
    OBVIOUS
  <2>2. /\ n \in Id /\ order[n].side \in Side
        /\ orders_index_[n] = <<order[n].side, order[n].price>>
    BY <1>1, <2>1, SubmittedType DEF IInv, TypeOK, CallCoherent, ReturnIOC, Returning, Order
  <2>3. orders_index_[n] # NoLoc
    BY <2>2 DEF NoLoc, Side
  <2>4. RemoveFromBook(n)
    BY <1>1, <2>1 DEF ReturnIOC
  <2>5. QED  BY <2>2, <2>3, <2>4, RemovalUncrossed
<1>2. CASE ~(remaining > 0)
  BY <1>2 DEF ReturnIOC, book, Uncrossed, Levels
<1>3. QED  BY <1>1, <1>2

(* No iceberg is ever offered: nothing is ever refreshed. *)
LEMMA NoRefresh ==
    ASSUME IInv, "Iceberg" \notin OrderTypes
    PROVE  ~RefreshSlice
<1> SUFFICES ASSUME RefreshSlice PROVE FALSE
  OBVIOUS
<1>1. iceberg_consumed # <<>> /\ iceberg_consumed' = Tail(iceberg_consumed) /\ pc = "refresh"
  BY DEF RefreshSlice
<1>2. PICK id \in Id : id \in Submitted /\ IsIceberg(order[id])
  BY <1>1, PopConsumedFacts
<1>3. QED  BY <1>2 DEF IInv, OrdersWellFormed, IsIceberg

LEMMA NextUncrossed ==
    ASSUME "Iceberg" \notin OrderTypes
    PROVE  IInv /\ Uncrossed /\ [Next]_vars => Uncrossed'
<1> SUFFICES ASSUME IInv, Uncrossed, [Next]_vars PROVE Uncrossed'
  OBVIOUS
<1>1. CASE Submit
  BY <1>1, SubmitUncrossed
<1>2. CASE MatchStep
  BY <1>2, MatchStepUncrossed
<1>3. CASE EndMatch
  BY <1>3, EndMatchUncrossed
<1>4. CASE RefreshSlice
  BY <1>4, NoRefresh
<1>5. CASE ReturnIOC
  BY <1>5, ReturnIOCUncrossed
<1>6. ASSUME NEW id \in Id, CancelFound(id) PROVE Uncrossed'
  BY <1>6, RemovalUncrossed DEF CancelFound
<1>7. ASSUME UNCHANGED queue PROVE Uncrossed'
  BY <1>7 DEF Uncrossed, Levels
<1>8. RefreshExhausted \/ ReturnStandard \/ ReturnFOK \/ ReturnIceberg => UNCHANGED queue
  BY DEF RefreshExhausted, ReturnStandard, ReturnFOK, ReturnIceberg, book
<1>9. ClearRecentTrades \/ (\E id \in Id : CancelUnknown(id)) \/ UNCHANGED vars => UNCHANGED queue
  BY DEF ClearRecentTrades, CancelUnknown, vars, book
<1>10. QED
  BY <1>1, <1>2, <1>3, <1>4, <1>5, <1>6, <1>7, <1>8, <1>9 DEF Next, CancelOrder, Engine

(* While no iceberg order is submitted, no step of any call leaves a bid   *)
(* at or above an ask: wouldMatch and the matching loop's price condition  *)
(* keep every order that rests clear of the opposite side.                 *)
THEOREM NeverCrossed ==
    ASSUME "Iceberg" \notin OrderTypes
    PROVE  Spec => []Uncrossed
<1>1. Init => Uncrossed
  BY UncrossedInit
<1>2. IInv /\ Uncrossed /\ [Next]_vars => Uncrossed'
  BY NextUncrossed
<1>3. QED  BY <1>1, <1>2, Invariance, PTL DEF Spec

-----------------------------------------------------------------------------
(* Induction: a nonempty set of naturals has a least element. *)
LEMMA Least ==
    ASSUME NEW T, T \subseteq Nat, T # {}
    PROVE  \E n \in T : \A m \in T : n <= m
<1>1. PICK R : R = OpToRel(<, Nat)
  OBVIOUS
<1>2. IsWellFoundedOn(R, Nat)
  BY <1>1, NatLessThanWellFounded
<1>3. PICK n \in T : \A m \in T : <<m, n>> \notin R
  BY <1>2, WFMin, Zenon
<1>4. ASSUME NEW m \in Nat, NEW k \in Nat, m < k
      PROVE  <<m, k>> \in R
  BY <1>1, <1>4 DEF OpToRel
<1>5. ASSUME NEW m \in T
      PROVE  n <= m
  <2>1. m \in Nat /\ n \in Nat
    OBVIOUS
  <2>2. CASE m < n
    <3>1. <<m, n>> \in R
      BY <1>4, <2>1, <2>2
    <3>2. QED  BY <1>3, <3>1
  <2>3. QED  BY <2>1, <2>2
<1>6. QED  BY <1>5

-----------------------------------------------------------------------------
(* Sums of sequences *)

(* f lists the partial sums of the first n numbers of w. *)
Partial(f, w, n) ==
    /\ f \in [0 .. n -> Int]
    /\ f[0] = 0
    /\ \A k \in 1 .. n : f[k] = f[k - 1] + w[k]

LEMMA PartialExists ==
    ASSUME NEW w \in Seq(Int), NEW n \in 0 .. Len(w)
    PROVE  \E f : Partial(f, w, n)
<1> DEFINE T == {m \in 0 .. Len(w) : ~ \E f : Partial(f, w, m)}
<1>1. SUFFICES ASSUME T # {} PROVE FALSE
  BY Zenon
<1>2. Len(w) \in Nat /\ w \in [1 .. Len(w) -> Int]
  OBVIOUS
<1>3. PICK m \in T : \A k \in T : m <= k
  <2>1. T \subseteq Nat
    BY <1>2
  <2>2. HIDE DEF T
  <2>3. QED  BY <1>1, <2>1, Least, Zenon
<1>4. m \in 0 .. Len(w) /\ ~ \E f : Partial(f, w, m)
  OBVIOUS
<1>5. CASE m = 0
  <2>1. Partial([k \in 0 .. 0 |-> 0], w, 0)
    BY DEF Partial
  <2>2. QED  BY <1>4, <1>5, <2>1
<1>6. CASE m # 0
  <2>1. m - 1 \in 0 .. Len(w) /\ m - 1 \notin T
    <3>1. m - 1 \in 0 .. Len(w) /\ ~(m <= m - 1)
      BY <1>2, <1>4, <1>6
    <3>2. HIDE DEF T
    <3>3. QED  BY <1>3, <3>1, Zenon
  <2>2. PICK f : Partial(f, w, m - 1)
    BY <2>1, Zenon
  <2> DEFINE g == [k \in 0 .. m |-> IF k = m THEN f[m - 1] + w[m] ELSE f[k]]
  <2>3. Partial(g, w, m)
    BY <1>2, <1>4, <1>6, <2>2 DEF Partial
  <2>4. QED  BY <1>4, <2>3
<1>7. QED  BY <1>5, <1>6

(* Partial sums, once listed, are what PartialSums is. *)
LEMMA PartialSumsPartial ==
    ASSUME NEW w \in Seq(Int)
    PROVE  /\ Len(w) \in Nat
           /\ PartialSums(w)[0] = 0
           /\ \A k \in 1 .. Len(w) : PartialSums(w)[k] = PartialSums(w)[k - 1] + w[k]
<1> DEFINE s == PartialSums(w)
<1>1. Len(w) \in Nat
  OBVIOUS
<1>2. PICK f : Partial(f, w, Len(w))
  <2>1. Len(w) \in 0 .. Len(w)
    BY <1>1
  <2>2. QED  BY <2>1, PartialExists
<1>3. f = [n \in 0 .. Len(w) |-> IF n = 0 THEN 0 ELSE f[n - 1] + w[n]]
  BY <1>1, <1>2 DEF Partial
<1>4. s = [n \in 0 .. Len(w) |-> IF n = 0 THEN 0 ELSE s[n - 1] + w[n]]
  BY <1>3, Zenon DEF PartialSums
<1>5. \A n \in 0 .. Len(w) : s[n] = IF n = 0 THEN 0 ELSE s[n - 1] + w[n]
  <2>1. HIDE DEF s
  <2>2. QED  BY <1>4, Zenon
<1>6. HIDE DEF s
<1>7. s[0] = 0
  BY <1>1, <1>5
<1>8. ASSUME NEW k \in 1 .. Len(w)
      PROVE  s[k] = s[k - 1] + w[k]
  <2>1. k \in 0 .. Len(w) /\ k # 0
    BY <1>1
  <2>2. QED  BY <1>5, <2>1, Zenon
<1>9. QED  BY <1>1, <1>7, <1>8 DEF s

(* A list that starts from zero and grows by the numbers of w ends in the  *)
(* sum of w.                                                               *)
LEMMA SumUnique ==
    ASSUME NEW w \in Seq(Int), NEW g, g[0] = 0,
           \A k \in 1 .. Len(w) : g[k] = g[k - 1] + w[k]
    PROVE  SumOf(w) = g[Len(w)]
<1> DEFINE T == {k \in 0 .. Len(w) : PartialSums(w)[k] # g[k]}
<1>1. /\ Len(w) \in Nat
      /\ PartialSums(w)[0] = 0
      /\ \A k \in 1 .. Len(w) : PartialSums(w)[k] = PartialSums(w)[k - 1] + w[k]
  BY PartialSumsPartial
<1>2. ASSUME T # {} PROVE FALSE
  <2>1. T \subseteq Nat
    BY <1>1
  <2>2. PICK m \in T : \A k \in T : m <= k
    <3>1. HIDE DEF T
    <3>2. QED  BY <1>2, <2>1, Least, Zenon
  <2>3. m \in 0 .. Len(w) /\ PartialSums(w)[m] # g[m]
    OBVIOUS
  <2>4. m # 0
    BY <1>1, <2>3
  <2>5. m \in 1 .. Len(w) /\ m - 1 \in 0 .. Len(w) /\ ~(m <= m - 1)
    BY <1>1, <2>3, <2>4
  <2>6. PartialSums(w)[m - 1] = g[m - 1]
    BY <2>2, <2>5
  <2>7. QED  BY <1>1, <2>3, <2>5, <2>6, Zenon
<1>3. Len(w) \in 0 .. Len(w)
  BY <1>1
<1>4. PartialSums(w)[Len(w)] = g[Len(w)]
  BY <1>2, <1>3
<1>5. QED  BY <1>4 DEF SumOf

(* f starts from zero, grows by the numbers of w, ends in the sum of w.    *)
Lists(f, w) ==
    /\ f[0] = 0 /\ SumOf(w) = f[Len(w)]
    /\ \A k \in 0 .. Len(w) : f[k] \in Int
    /\ \A k \in 1 .. Len(w) : f[k] = f[k - 1] + w[k] /\ w[k] \in Int

LEMMA SumPartial ==
    ASSUME NEW w \in Seq(Int)
    PROVE  SumOf(w) \in Int /\ \E f : Lists(f, w)
<1>1. Len(w) \in Nat /\ \A k \in 1 .. Len(w) : w[k] \in Int
  OBVIOUS
<1>2. Len(w) \in 0 .. Len(w)
  BY <1>1
<1>3. PICK f : Partial(f, w, Len(w))
  BY <1>2, PartialExists
<1>4. /\ f[0] = 0
      /\ \A k \in 0 .. Len(w) : f[k] \in Int
      /\ \A k \in 1 .. Len(w) : f[k] = f[k - 1] + w[k]
  BY <1>3 DEF Partial
<1>5. SumOf(w) = f[Len(w)]
  BY <1>4, SumUnique
<1>6. Lists(f, w)
  BY <1>1, <1>4, <1>5 DEF Lists
<1>7. QED  BY <1>2, <1>4, <1>5, <1>6

LEMMA SumEmpty == SumOf(<<>>) = 0
<1>1. <<>> \in Seq(Int) /\ Len(<<>>) = 0
  OBVIOUS
<1>2. PartialSums(<<>>)[0] = 0
  BY <1>1, PartialSumsPartial
<1>3. QED  BY <1>1, <1>2 DEF SumOf

(* One more number at the end *)
LEMMA SumGrow ==
    ASSUME NEW w \in Seq(Int), NEW u \in Seq(Int), Len(u) = Len(w) + 1,
           \A k \in 1 .. Len(w) : u[k] = w[k]
    PROVE  SumOf(u) = SumOf(w) + u[Len(u)]
<1>1. Len(w) \in Nat
  OBVIOUS
<1>f. PICK f : Lists(f, w)
  BY SumPartial, Zenon
<1>2. /\ f[0] = 0 /\ SumOf(w) = f[Len(w)]
      /\ \A k \in 0 .. Len(w) : f[k] \in Int
      /\ \A k \in 1 .. Len(w) : f[k] = f[k - 1] + w[k] /\ w[k] \in Int
  BY <1>f DEF Lists
<1> DEFINE g == [k \in 0 .. Len(u) |-> IF k <= Len(w) THEN f[k] ELSE f[Len(w)] + u[Len(u)]]
<1>3. /\ \A k \in 0 .. Len(w) : g[k] = f[k]
      /\ g[Len(u)] = f[Len(w)] + u[Len(u)]
  BY <1>1
<1>4. HIDE DEF g
<1>5. ASSUME NEW k \in 1 .. Len(u)
      PROVE  g[k] = g[k - 1] + u[k]
  <2>1. CASE k \in 1 .. Len(w)
    <3>1. k \in 0 .. Len(w) /\ k - 1 \in 0 .. Len(w)
      BY <1>1, <2>1
    <3>2. QED  BY <1>2, <1>3, <2>1, <3>1
  <2>2. CASE k = Len(u)
    <3>1. k - 1 = Len(w) /\ Len(w) \in 0 .. Len(w)
      BY <1>1, <2>2
    <3>2. QED  BY <1>3, <2>2, <3>1
  <2>3. QED  BY <1>1, <2>1, <2>2
<1>6. g[0] = 0
  BY <1>1, <1>2, <1>3
<1>7. SumOf(u) = g[Len(u)]
  BY <1>5, <1>6, SumUnique
<1>8. QED  BY <1>2, <1>3, <1>7

(* The rearrangements of sums that the next lemmas need *)
LEMMA Associate == \A a, b, c \in Int : a + (b + c) = (a + b) + c
OBVIOUS

LEMMA SkipMiddle == \A a, b, c \in Int : ((a + b) + c) - b = a + c
OBVIOUS

LEMMA SwapLast == \A a, b, c \in Int : (a + b) - c = (a - c) + b
OBVIOUS

LEMMA Replace == \A a, b, c \in Int : ((a + b) - b) + c = a + c
OBVIOUS

LEMMA IntMinus == \A a, b \in Int : a - b \in Int
OBVIOUS

LEMMA SwapTail == \A a, b, c \in Int : (a + b) + c = (a + c) + b
OBVIOUS

(* Two sequences in a row *)
LEMMA SumConcat ==
    ASSUME NEW a \in Seq(Int), NEW b \in Seq(Int), NEW u \in Seq(Int),
           Len(u) = Len(a) + Len(b),
           \A k \in 1 .. Len(a) : u[k] = a[k],
           \A k \in 1 .. Len(b) : u[Len(a) + k] = b[k]
    PROVE  SumOf(u) = SumOf(a) + SumOf(b)
<1>1. Len(a) \in Nat /\ Len(b) \in Nat
  OBVIOUS
<1>f. PICK f : Lists(f, a)
  BY SumPartial, Zenon
<1>2. /\ f[0] = 0 /\ SumOf(a) = f[Len(a)]
      /\ \A k \in 0 .. Len(a) : f[k] \in Int
      /\ \A k \in 1 .. Len(a) : f[k] = f[k - 1] + a[k] /\ a[k] \in Int
  BY <1>f DEF Lists
<1>h. PICK h : Lists(h, b)
  BY SumPartial, Zenon
<1>3. /\ h[0] = 0 /\ SumOf(b) = h[Len(b)]
      /\ \A k \in 0 .. Len(b) : h[k] \in Int
      /\ \A k \in 1 .. Len(b) : h[k] = h[k - 1] + b[k] /\ b[k] \in Int
  BY <1>h DEF Lists
<1> DEFINE A == f[Len(a)]
           g == [k \in 0 .. Len(u) |-> IF k <= Len(a) THEN f[k] ELSE A + h[k - Len(a)]]
<1>4. A \in Int
  BY <1>1, <1>2
<1>5. \A k \in 0 .. Len(a) : g[k] = f[k]
  BY <1>1
<1>6. ASSUME NEW j \in 0 .. Len(b)
      PROVE  g[Len(a) + j] = A + h[j]
  <2>1. CASE j = 0
    BY <1>1, <1>3, <1>4, <2>1
  <2>2. CASE j > 0
    <3>1. /\ Len(a) + j \in 0 .. Len(u) /\ ~(Len(a) + j <= Len(a))
          /\ (Len(a) + j) - Len(a) = j
      BY <1>1, <2>2
    <3>2. QED  BY <3>1
  <2>3. QED  BY <1>1, <2>1, <2>2
<1>7. HIDE DEF g
<1>8. ASSUME NEW k \in 1 .. Len(u)
      PROVE  g[k] = g[k - 1] + u[k]
  <2>1. CASE k \in 1 .. Len(a)
    <3>1. k \in 0 .. Len(a) /\ k - 1 \in 0 .. Len(a)
      BY <1>1, <2>1
    <3>2. QED  BY <1>2, <1>5, <2>1, <3>1
  <2>2. CASE k > Len(a)
    <3>1. PICK j \in 1 .. Len(b) : k = Len(a) + j
      <4>1. k - Len(a) \in 1 .. Len(b) /\ k = Len(a) + (k - Len(a))
        BY <1>1, <2>2
      <4>2. QED  BY <4>1
    <3>2. j \in 0 .. Len(b) /\ j - 1 \in 0 .. Len(b) /\ k - 1 = Len(a) + (j - 1)
      BY <1>1, <3>1
    <3>3. g[k] = A + h[j] /\ g[k - 1] = A + h[j - 1]
      BY <1>6, <3>1, <3>2
    <3>4. h[j] = h[j - 1] + b[j] /\ u[k] = b[j] /\ h[j - 1] \in Int /\ b[j] \in Int
      BY <1>3, <3>1, <3>2
    <3>5. A + h[j] = (A + h[j - 1]) + b[j]
      <4>1. HIDE DEF A
      <4>2. A + (h[j - 1] + b[j]) = (A + h[j - 1]) + b[j]
        BY <1>4, <3>4, Associate, ZenonT(60)
      <4>3. QED  BY <3>4, <4>2, Zenon
    <3>6. QED  BY <3>3, <3>4, <3>5, Zenon
  <2>3. QED  BY <1>1, <2>1, <2>2
<1>9. g[0] = 0
  BY <1>1, <1>2, <1>5
<1>10. SumOf(u) = g[Len(u)]
  BY <1>8, <1>9, SumUnique
<1>11. g[Len(u)] = A + h[Len(b)]
  <2>1. Len(b) \in 0 .. Len(b)
    BY <1>1
  <2>2. QED  BY <1>6, <2>1
<1>12. QED  BY <1>2, <1>3, <1>10, <1>11

(* One number left out *)
LEMMA SumSkip ==
    ASSUME NEW w \in Seq(Int), NEW u \in Seq(Int), NEW n \in 1 .. Len(w),
           Len(u) = Len(w) - 1,
           \A k \in 1 .. Len(u) : u[k] = IF k < n THEN w[k] ELSE w[k + 1]
    PROVE  SumOf(w) = w[n] + SumOf(u)
<1>1. Len(w) \in Nat /\ Len(u) \in Nat /\ w[n] \in Int
  OBVIOUS
<1>f. PICK f : Lists(f, w)
  BY SumPartial, Zenon
<1>2. /\ f[0] = 0 /\ SumOf(w) = f[Len(w)]
      /\ \A k \in 0 .. Len(w) : f[k] \in Int
      /\ \A k \in 1 .. Len(w) : f[k] = f[k - 1] + w[k] /\ w[k] \in Int
  BY <1>f DEF Lists
<1> DEFINE x == w[n]
           g == [k \in 0 .. Len(u) |-> IF k < n THEN f[k] ELSE f[k + 1] - x]
<1>3. \A k \in 0 .. Len(u) : /\ k < n => g[k] = f[k]
                             /\ k >= n => g[k] = f[k + 1] - x
  BY <1>1
<1>4. HIDE DEF g
<1>5. ASSUME NEW k \in 1 .. Len(u)
      PROVE  g[k] = g[k - 1] + u[k]
  <2>1. /\ k \in 1 .. Len(w) /\ k + 1 \in 1 .. Len(w) /\ k - 1 \in 0 .. Len(w)
        /\ k \in 0 .. Len(u) /\ k - 1 \in 0 .. Len(u) /\ (k + 1) - 1 = k /\ (k - 1) + 1 = k
    BY <1>1
  <2>2. /\ f[k] = f[k - 1] + w[k] /\ w[k] \in Int /\ f[k - 1] \in Int
        /\ f[k + 1] = f[k] + w[k + 1] /\ w[k + 1] \in Int /\ f[k] \in Int
    <3>1. f[k] = f[k - 1] + w[k] /\ w[k] \in Int
      BY <1>2, <2>1, Zenon
    <3>2. f[k + 1] = f[(k + 1) - 1] + w[k + 1] /\ w[k + 1] \in Int
      BY <1>2, <2>1, Zenon
    <3>3. k \in 0 .. Len(w)
      BY <1>1, <2>1
    <3>4. f[k] \in Int /\ f[k - 1] \in Int
      BY <1>2, <2>1, <3>3, Zenon
    <3>5. QED  BY <2>1, <3>1, <3>2, <3>4, Zenon
  <2>3. CASE k < n
    <3>1. g[k] = f[k] /\ g[k - 1] = f[k - 1] /\ u[k] = w[k]
      BY <1>1, <1>3, <2>1, <2>3
    <3>2. QED  BY <2>2, <3>1
  <2>4. CASE k = n
    <3>1. g[k] = f[k + 1] - x /\ g[k - 1] = f[k - 1] /\ u[k] = w[k + 1] /\ x = w[k]
      BY <1>1, <1>3, <2>1, <2>4
    <3>2. HIDE DEF x
    <3>3. ((f[k - 1] + w[k]) + w[k + 1]) - w[k] = f[k - 1] + w[k + 1]
      BY <2>2, SkipMiddle, ZenonT(60)
    <3>4. QED  BY <2>2, <3>1, <3>3, Zenon
  <2>5. CASE k > n
    <3>1. g[k] = f[k + 1] - x /\ g[k - 1] = f[k] - x /\ u[k] = w[k + 1] /\ x \in Int
      <4>1. k >= n /\ k - 1 >= n /\ ~(k < n)
        BY <1>1, <2>5
      <4>2. g[k] = f[k + 1] - x /\ g[k - 1] = f[(k - 1) + 1] - x
        BY <1>3, <2>1, <4>1, Zenon
      <4>3. QED  BY <1>1, <2>1, <4>1, <4>2, Zenon
    <3>2. HIDE DEF x
    <3>3. (f[k] + w[k + 1]) - x = (f[k] - x) + w[k + 1]
      BY <2>2, <3>1, SwapLast, ZenonT(60)
    <3>4. QED  BY <2>2, <3>1, <3>3, Zenon
  <2>6. QED  BY <1>1, <2>3, <2>4, <2>5
<1>6. g[0] = 0
  BY <1>1, <1>2, <1>3
<1>7. SumOf(u) = g[Len(u)]
  BY <1>5, <1>6, SumUnique
<1>8. f[Len(w)] = x + g[Len(u)]
  <2>1. Len(u) \in 0 .. Len(u) /\ Len(u) + 1 = Len(w) /\ Len(w) - 1 = Len(u)
    BY <1>1
  <2>2. /\ f[Len(w)] = f[Len(u)] + w[Len(w)] /\ f[Len(u)] \in Int /\ w[Len(w)] \in Int
        /\ f[Len(w)] \in Int
    BY <1>1, <1>2, <2>1
  <2>3. CASE Len(u) < n
    <3>1. n = Len(w) /\ g[Len(u)] = f[Len(u)]
      BY <1>1, <1>3, <2>1, <2>3
    <3>2. QED  BY <2>2, <3>1
  <2>4. CASE Len(u) >= n
    <3>1. g[Len(u)] = f[Len(w)] - x /\ x \in Int
      BY <1>1, <1>3, <2>1, <2>4
    <3>2. HIDE DEF x
    <3>3. QED  BY <2>2, <3>1
  <2>5. QED  BY <1>1, <2>3, <2>4
<1>9. QED  BY <1>2, <1>7, <1>8

(* One number changed *)
LEMMA SumChange ==
    ASSUME NEW w \in Seq(Int), NEW u \in Seq(Int), NEW n \in 1 .. Len(w), Len(u) = Len(w),
           \A k \in 1 .. Len(w) : k # n => u[k] = w[k]
    PROVE  SumOf(u) = SumOf(w) - w[n] + u[n]
<1>1. Len(w) \in Nat /\ w[n] \in Int /\ u[n] \in Int
  OBVIOUS
<1>f. PICK f : Lists(f, w)
  BY SumPartial, Zenon
<1>2. /\ f[0] = 0 /\ SumOf(w) = f[Len(w)]
      /\ \A k \in 0 .. Len(w) : f[k] \in Int
      /\ \A k \in 1 .. Len(w) : f[k] = f[k - 1] + w[k] /\ w[k] \in Int
  BY <1>f DEF Lists
<1> DEFINE x == w[n]
           y == u[n]
           g == [k \in 0 .. Len(u) |-> IF k < n THEN f[k] ELSE f[k] - x + y]
<1>3. \A k \in 0 .. Len(u) : /\ k < n => g[k] = f[k]
                             /\ k >= n => g[k] = f[k] - x + y
  BY <1>1
<1>4. HIDE DEF g
<1>5. ASSUME NEW k \in 1 .. Len(u)
      PROVE  g[k] = g[k - 1] + u[k]
  <2>1. k \in 1 .. Len(w) /\ k - 1 \in 0 .. Len(u) /\ k \in 0 .. Len(u) /\ k - 1 \in 0 .. Len(w)
    BY <1>1
  <2>2. f[k] = f[k - 1] + w[k] /\ w[k] \in Int /\ f[k - 1] \in Int
    BY <1>2, <2>1
  <2>3. CASE k < n
    <3>1. g[k] = f[k] /\ g[k - 1] = f[k - 1] /\ u[k] = w[k]
      BY <1>1, <1>3, <2>1, <2>3
    <3>2. QED  BY <2>2, <3>1
  <2>4. CASE k = n
    <3>1. g[k] = f[k] - x + y /\ g[k - 1] = f[k - 1] /\ x = w[k] /\ y = u[k] /\ y \in Int
      BY <1>1, <1>3, <2>1, <2>4
    <3>2. HIDE DEF x, y
    <3>3. ((f[k - 1] + w[k]) - w[k]) + y = f[k - 1] + y
      BY <2>2, <3>1, Replace, ZenonT(60)
    <3>4. QED  BY <2>2, <3>1, <3>3, Zenon
  <2>5. CASE k > n
    <3>1. /\ g[k] = f[k] - x + y /\ g[k - 1] = f[k - 1] - x + y /\ u[k] = w[k]
          /\ x \in Int /\ y \in Int
      BY <1>1, <1>3, <2>1, <2>5
    <3>2. HIDE DEF x, y
    <3>3. ((f[k - 1] + w[k]) - x) + y = ((f[k - 1] - x) + y) + w[k]
      <4>1. (f[k - 1] + w[k]) - x = (f[k - 1] - x) + w[k]
        BY <2>2, <3>1, SwapLast, ZenonT(60)
      <4>2. f[k - 1] - x \in Int
        BY <2>2, <3>1, IntMinus, Zenon
      <4>3. ((f[k - 1] - x) + w[k]) + y = ((f[k - 1] - x) + y) + w[k]
        BY <2>2, <3>1, <4>2, SwapTail, ZenonT(60)
      <4>4. QED  BY <4>1, <4>3, Zenon
    <3>4. QED  BY <2>2, <3>1, <3>3, Zenon
  <2>6. QED  BY <1>1, <2>3, <2>4, <2>5
<1>6. g[0] = 0
  BY <1>1, <1>2, <1>3
<1>7. SumOf(u) = g[Len(u)]
  BY <1>5, <1>6, SumUnique
<1>8. g[Len(u)] = f[Len(w)] - x + y
  BY <1>1, <1>3
<1>9. QED  BY <1>2, <1>7, <1>8

-----------------------------------------------------------------------------
(* Levels: the quantities standing in one *)

Amounts(q, rem) == [k \in DOMAIN q |-> rem[q[k]]]

LEMMA AmountsFacts ==
    ASSUME NEW q \in Seq(Id), NEW rem \in [Id -> Nat]
    PROVE  /\ Amounts(q, rem) \in Seq(Int) /\ Len(Amounts(q, rem)) = Len(q)
           /\ \A k \in 1 .. Len(q) : Amounts(q, rem)[k] = rem[q[k]]
<1>1. Len(q) \in Nat /\ DOMAIN q = 1 .. Len(q) /\ \A k \in 1 .. Len(q) : q[k] \in Id
  OBVIOUS
<1>2. Amounts(q, rem) \in [1 .. Len(q) -> Int]
  BY <1>1 DEF Amounts
<1>3. QED  BY <1>1, <1>2 DEF Amounts

(* A level no order of which changed *)
LEMMA AmountsSame ==
    ASSUME NEW q \in Seq(Id), NEW rem, NEW new, \A i \in Id : Contains(q, i) => new[i] = rem[i]
    PROVE  Amounts(q, new) = Amounts(q, rem)
<1>1. \A k \in DOMAIN q : q[k] \in Id /\ Contains(q, q[k])
  BY DEF Contains
<1>2. QED  BY <1>1 DEF Amounts

(* An order joins the level. *)
LEMMA AmountsJoin ==
    ASSUME NEW q \in Seq(Id), NEW rem \in [Id -> Nat], NEW new \in [Id -> Nat], NEW id \in Id,
           ~Contains(q, id), \A i \in Id \ {id} : new[i] = rem[i]
    PROVE  SumOf(Amounts(Append(q, id), new)) = SumOf(Amounts(q, rem)) + new[id]
<1> DEFINE w == Amounts(q, rem)
           r == Append(q, id)
           u == Amounts(r, new)
<1>1. /\ r \in Seq(Id) /\ Len(q) \in Nat /\ Len(r) = Len(q) + 1 /\ r[Len(r)] = id
      /\ \A k \in 1 .. Len(q) : r[k] = q[k] /\ q[k] \in Id /\ q[k] # id
  BY DEF Contains
<1>2. /\ w \in Seq(Int) /\ Len(w) = Len(q)
      /\ \A k \in 1 .. Len(q) : w[k] = rem[q[k]]
  BY AmountsFacts
<1>3. /\ u \in Seq(Int) /\ Len(u) = Len(r)
      /\ \A k \in 1 .. Len(r) : u[k] = new[r[k]]
  BY <1>1, AmountsFacts
<1>4. HIDE DEF w, u, r
<1>5. \A k \in 1 .. Len(w) : u[k] = w[k]
  <2>1. ASSUME NEW k \in 1 .. Len(w) PROVE u[k] = w[k]
    <3>1. k \in 1 .. Len(q) /\ k \in 1 .. Len(r)
      BY <1>1, <1>2
    <3>2. r[k] = q[k] /\ q[k] \in Id \ {id}
      BY <1>1, <3>1
    <3>3. w[k] = rem[q[k]] /\ u[k] = new[r[k]] /\ new[q[k]] = rem[q[k]]
      BY <1>2, <1>3, <3>1, <3>2, Zenon
    <3>4. QED  BY <3>2, <3>3, Zenon
  <2>2. QED  BY <2>1
<1>6. u[Len(u)] = new[id] /\ Len(u) = Len(w) + 1
  <2>1. Len(r) \in 1 .. Len(r)
    BY <1>1
  <2>2. QED  BY <1>1, <1>2, <1>3, <2>1, Zenon
<1>7. SumOf(u) = SumOf(w) + u[Len(u)]
  BY <1>2, <1>3, <1>5, <1>6, SumGrow, Zenon
<1>8. QED  BY <1>6, <1>7 DEF w, u, r

(* r is q without its n-th order. *)
Skips(r, q, n) ==
    /\ r \in Seq(Id) /\ n \in 1 .. Len(q) /\ Len(r) = Len(q) - 1
    /\ \A k \in 1 .. Len(r) : r[k] = IF k < n THEN q[k] ELSE q[k + 1]

LEMMA AmountsLeave ==
    ASSUME NEW q \in Seq(Id), IsInjective(q), NEW n, NEW r, Skips(r, q, n),
           NEW rem \in [Id -> Nat], NEW new \in [Id -> Nat],
           \A i \in Id \ {q[n]} : new[i] = rem[i]
    PROVE  SumOf(Amounts(q, rem)) = rem[q[n]] + SumOf(Amounts(r, new))
<1> DEFINE w == Amounts(q, rem)
           u == Amounts(r, new)
<1>1. /\ r \in Seq(Id) /\ n \in 1 .. Len(q) /\ Len(r) = Len(q) - 1
      /\ \A k \in 1 .. Len(r) : r[k] = IF k < n THEN q[k] ELSE q[k + 1]
      /\ Len(q) \in Nat /\ Len(r) \in Nat
  <2>1. /\ r \in Seq(Id) /\ n \in 1 .. Len(q) /\ Len(r) = Len(q) - 1
        /\ \A k \in 1 .. Len(r) : r[k] = IF k < n THEN q[k] ELSE q[k + 1]
    BY Zenon DEF Skips
  <2>2. Len(q) \in Nat /\ Len(r) \in Nat
    BY <2>1, LenProperties
  <2>3. QED  BY <2>1, <2>2, Zenon
<1>2. \A j \in 1 .. Len(q) : q[j] \in Id /\ (j # n => q[j] # q[n])
  BY <1>1 DEF IsInjective
<1>3. /\ w \in Seq(Int) /\ Len(w) = Len(q)
      /\ \A k \in 1 .. Len(q) : w[k] = rem[q[k]]
  BY AmountsFacts
<1>4. /\ u \in Seq(Int) /\ Len(u) = Len(r)
      /\ \A k \in 1 .. Len(r) : u[k] = new[r[k]]
  BY <1>1, AmountsFacts
<1>5. HIDE DEF w, u
<1>6. \A k \in 1 .. Len(u) : u[k] = IF k < n THEN w[k] ELSE w[k + 1]
  <2>1. ASSUME NEW k \in 1 .. Len(u) PROVE u[k] = IF k < n THEN w[k] ELSE w[k + 1]
    <3>1. k \in 1 .. Len(r) /\ k \in 1 .. Len(q) /\ k + 1 \in 1 .. Len(q) /\ n \in Int
      BY <1>1, <1>4
    <3>2. CASE k < n
      <4>1. r[k] = q[k] /\ k # n
        BY <1>1, <3>1, <3>2
      <4>2. q[k] \in Id \ {q[n]}
        BY <1>2, <3>1, <4>1
      <4>3. u[k] = new[q[k]] /\ w[k] = rem[q[k]] /\ new[q[k]] = rem[q[k]]
        BY <1>3, <1>4, <3>1, <4>1, <4>2, Zenon
      <4>4. QED  BY <3>2, <4>3, Zenon
    <3>3. CASE ~(k < n)
      <4>1. r[k] = q[k + 1] /\ k + 1 # n
        BY <1>1, <3>1, <3>3
      <4>2. q[k + 1] \in Id \ {q[n]}
        BY <1>2, <3>1, <4>1
      <4>3. u[k] = new[q[k + 1]] /\ w[k + 1] = rem[q[k + 1]] /\ new[q[k + 1]] = rem[q[k + 1]]
        BY <1>3, <1>4, <3>1, <4>1, <4>2, Zenon
      <4>4. QED  BY <3>3, <4>3, Zenon
    <3>4. QED  BY <3>2, <3>3
  <2>2. QED  BY <2>1
<1>7. n \in 1 .. Len(w) /\ Len(u) = Len(w) - 1 /\ w[n] = rem[q[n]]
  BY <1>1, <1>3, <1>4
<1>8. SumOf(w) = w[n] + SumOf(u)
  BY <1>3, <1>4, <1>6, <1>7, SumSkip
<1>9. QED  BY <1>7, <1>8 DEF w, u

(* The n-th order is filled in part. *)
LEMMA AmountsShrink ==
    ASSUME NEW q \in Seq(Id), IsInjective(q), NEW n \in 1 .. Len(q),
           NEW rem \in [Id -> Nat], NEW new \in [Id -> Nat],
           \A i \in Id \ {q[n]} : new[i] = rem[i]
    PROVE  SumOf(Amounts(q, new)) = SumOf(Amounts(q, rem)) - rem[q[n]] + new[q[n]]
<1> DEFINE w == Amounts(q, rem)
           u == Amounts(q, new)
<1>1. Len(q) \in Nat /\ \A j \in 1 .. Len(q) : q[j] \in Id /\ (j # n => q[j] # q[n])
  BY DEF IsInjective
<1>2. /\ w \in Seq(Int) /\ Len(w) = Len(q)
      /\ \A k \in 1 .. Len(q) : w[k] = rem[q[k]]
  BY AmountsFacts
<1>3. /\ u \in Seq(Int) /\ Len(u) = Len(q)
      /\ \A k \in 1 .. Len(q) : u[k] = new[q[k]]
  BY AmountsFacts
<1>4. HIDE DEF w, u
<1>5. n \in 1 .. Len(w) /\ w[n] = rem[q[n]] /\ u[n] = new[q[n]]
      /\ \A k \in 1 .. Len(w) : k # n => u[k] = w[k]
  BY <1>1, <1>2, <1>3
<1>6. SumOf(u) = SumOf(w) - w[n] + u[n]
  BY <1>2, <1>3, <1>5, SumChange
<1>7. QED  BY <1>5, <1>6 DEF w, u

LEMMA TailSkips ==
    ASSUME NEW q \in Seq(Id), q # <<>>
    PROVE  Skips(Tail(q), q, 1) /\ Head(q) = q[1]
<1>1. /\ Tail(q) \in Seq(Id)
      /\ Len(q) \in Nat /\ Len(q) >= 1
      /\ Len(Tail(q)) = Len(q) - 1
      /\ \A k \in 1 .. Len(Tail(q)) : Tail(q)[k] = q[k + 1]
      /\ Head(q) = q[1]
  BY HeadTailProperties, LenProperties, EmptySeq
<1>2. QED  BY <1>1 DEF Skips

LEMMA WithoutSkips ==
    ASSUME NEW q \in Seq(Id), NEW id
    PROVE  /\ ~Contains(q, id) => Without(q, id) = q
           /\ Contains(q, id) => \E n \in 1 .. Len(q) : q[n] = id /\ Skips(Without(q, id), q, n)
<1>1. ASSUME Contains(q, id)
      PROVE  \E n \in 1 .. Len(q) : q[n] = id /\ Skips(Without(q, id), q, n)
  <2>1. PICK n \in 1 .. Len(q) : n = CHOOSE k \in 1 .. Len(q) : q[k] = id
    BY <1>1 DEF Contains
  <2>2. q[n] = id
    BY <1>1, <2>1 DEF Contains
  <2>3. Without(q, id) = RemoveAt(q, n)
    BY <1>1, <2>1 DEF Without
  <2>4. /\ RemoveAt(q, n) \in Seq(Id)
        /\ Len(RemoveAt(q, n)) = Len(q) - 1
        /\ \A k \in 1 .. (Len(q) - 1) : RemoveAt(q, n)[k] = IF k < n THEN q[k] ELSE q[k + 1]
    BY RemoveAtFacts
  <2>5. Skips(RemoveAt(q, n), q, n)
    <3>1. PICK r : r = RemoveAt(q, n)
      OBVIOUS
    <3>2. QED  BY <2>4, <3>1 DEF Skips
  <2>6. QED  BY <2>2, <2>3, <2>5
<1>2. QED  BY <1>1 DEF Without

(* Remainders *)
LEMMA ModStep ==
    ASSUME NEW m \in Nat \ {0}, NEW a \in Int, NEW d \in Int
    PROVE  ((a % m) + d) % m = (a + d) % m
<1> DEFINE t == a % m
           r == (t + d) % m
           u == (a + d) % m
           k == a \div m
           j == (t + d) \div m
           l == (a + d) \div m
<1>1. t \in 0 .. (m - 1) /\ k \in Int /\ a = (k * m) + t
  OBVIOUS
<1>2. r \in 0 .. (m - 1) /\ j \in Int /\ t + d = (j * m) + r
  <2>1. t + d \in Int
    BY <1>1
  <2>2. HIDE DEF t
  <2>3. QED  BY <2>1
<1>3. u \in 0 .. (m - 1) /\ l \in Int /\ a + d = (l * m) + u
  OBVIOUS
<1>4. HIDE DEF t, r, u, k, j, l
<1>5. PICK e \in Int : e = k + j - l
  BY <1>1, <1>2, <1>3
<1>6. e * m = u - r
  <2>1. e * m = (k * m) + (j * m) - (l * m)
    BY <1>1, <1>2, <1>3, <1>5
  <2>2. k * m \in Int /\ j * m \in Int /\ l * m \in Int
    BY <1>1, <1>2, <1>3
  <2>3. QED  BY <1>1, <1>2, <1>3, <2>1, <2>2
<1>7. CASE e >= 1
  <2>1. e * m >= m
    BY <1>7
  <2>2. QED  BY <1>2, <1>3, <1>6, <2>1
<1>8. CASE e <= -1
  <2>1. e * m <= -m
    BY <1>8
  <2>2. QED  BY <1>2, <1>3, <1>6, <2>1
<1>9. CASE e = 0
  BY <1>2, <1>3, <1>6, <1>9 DEF r, u, t
<1>10. QED  BY <1>7, <1>8, <1>9

-----------------------------------------------------------------------------
(* The inductive invariant *)

(* The running call's order is the newest one; its trades are recorded     *)
(* when it returns.                                                        *)
CallNewest ==
    /\ pc # "idle" => taker = next_order_id_ - 1
    /\ pc = "idle" => trades = <<>>

(* In a level, orders that never lose their place stand oldest first.      *)
InOrder(q, ord) ==
    \A j, k \in DOMAIN q :
        j < k /\ ~IsIceberg(ord[q[j]]) /\ ~IsIceberg(ord[q[k]]) => q[j] < q[k]
OldestFirst == \A s \in Side, p \in Price : InOrder(queue[s][p], order)

(* Nothing is left of the copy of an order that is out of the book.        *)
OutIsEmpty == \A i \in Id : ~Resting(i) => remaining_qty[i] = 0

LevelsGood == LevelTotals /\ OldestFirst /\ OutIsEmpty

(* IcebergsBacked between calls comes from what holds within one: an       *)
(* iceberg is tracked while a slice of it is in the book, or consumed and  *)
(* not yet refreshed, or it is the running call's own.                     *)
BergsTracked ==
    /\ \A i \in Id : i \in icebergs_ <=>
           IsIceberg(order[i]) /\ (Resting(i) \/ Consumed(i) \/ i = taker)
    /\ \A i \in Id : hidden_remaining[i] > 0 => i \in icebergs_
    /\ \A i \in Id : Consumed(i) => orders_index_[i] # NoLoc
    /\ pc = "refresh" /\ remaining > 0 /\ order[taker].type # "Market" => Resting(taker)

(* The trades of the tape, and of the running call, that i took part in.   *)
OnTape(i) == SumOf(Shares(i, recent_trades_)) + SumOf(Shares(i, trades))
TapeComplete ==
    /\ Len(recent_trades_) <= total_trades_
    /\ Len(recent_trades_) = total_trades_ => \A i \in Id : filled[i] = OnTape(i)

BInv == CallNewest /\ LevelsGood /\ BergsTracked /\ TapeComplete

-----------------------------------------------------------------------------
(* The levels: totals, age and emptiness, under each way of writing them *)

LEMMA InOrderSame ==
    ASSUME NEW q \in Seq(Id), NEW ord, NEW new, InOrder(q, ord),
           \A i \in Id : Contains(q, i) => new[i] = ord[i]
    PROVE  InOrder(q, new)
<1>1. \A k \in DOMAIN q : new[q[k]] = ord[q[k]]
  BY DEF Contains
<1>2. QED  BY <1>1 DEF InOrder

LEMMA InOrderJoin ==
    ASSUME NEW q \in Seq(Id), NEW ord, InOrder(q, ord), NEW id \in Id,
           IsIceberg(ord[id]) \/ \A i \in Id : Contains(q, i) => i < id
    PROVE  InOrder(Append(q, id), ord)
<1> DEFINE r == Append(q, id)
<1>1. /\ Len(q) \in Nat /\ DOMAIN q = 1 .. Len(q) /\ DOMAIN r = 1 .. (Len(q) + 1)
      /\ r[Len(q) + 1] = id
      /\ \A k \in 1 .. Len(q) : r[k] = q[k] /\ q[k] \in Id /\ Contains(q, q[k])
  BY DEF Contains
<1>2. HIDE DEF r
<1>3. ASSUME NEW j \in DOMAIN r, NEW k \in DOMAIN r, j < k,
             ~IsIceberg(ord[r[j]]), ~IsIceberg(ord[r[k]])
      PROVE  r[j] < r[k]
  <2>1. j \in 1 .. Len(q)
    BY <1>1, <1>3
  <2>2. CASE k \in 1 .. Len(q)
    BY <1>1, <1>3, <2>1, <2>2 DEF InOrder
  <2>3. CASE k = Len(q) + 1
    BY <1>1, <1>3, <2>1, <2>3
  <2>4. QED  BY <1>1, <2>2, <2>3
<1>4. InOrder(r, ord)
  BY <1>3 DEF InOrder
<1>5. QED  BY <1>4 DEF r

LEMMA InOrderLeave ==
    ASSUME NEW q \in Seq(Id), NEW ord, InOrder(q, ord), NEW n, NEW r, Skips(r, q, n)
    PROVE  InOrder(r, ord)
<1>1. /\ r \in Seq(Id) /\ n \in 1 .. Len(q) /\ Len(r) = Len(q) - 1
      /\ \A k \in 1 .. Len(r) : r[k] = IF k < n THEN q[k] ELSE q[k + 1]
  BY Zenon DEF Skips
<1>2. /\ Len(q) \in Nat /\ Len(r) \in Nat /\ DOMAIN q = 1 .. Len(q) /\ DOMAIN r = 1 .. Len(r)
  BY <1>1, LenProperties
<1>3. ASSUME NEW j \in DOMAIN r, NEW k \in DOMAIN r, j < k,
             ~IsIceberg(ord[r[j]]), ~IsIceberg(ord[r[k]])
      PROVE  r[j] < r[k]
  <2>1. PICK a \in DOMAIN q, b \in DOMAIN q : a < b /\ r[j] = q[a] /\ r[k] = q[b]
    <3>1. j \in DOMAIN q /\ k \in DOMAIN q /\ j + 1 \in DOMAIN q /\ k + 1 \in DOMAIN q
      BY <1>1, <1>2
    <3>2. CASE k < n
      <4>1. r[j] = q[j] /\ r[k] = q[k]
        BY <1>1, <1>2, <1>3, <3>2
      <4>2. QED  BY <1>3, <3>1, <4>1
    <3>3. CASE j < n /\ ~(k < n)
      <4>1. r[j] = q[j] /\ r[k] = q[k + 1] /\ j < k + 1
        BY <1>1, <1>2, <1>3, <3>3
      <4>2. QED  BY <3>1, <4>1
    <3>4. CASE ~(j < n) /\ ~(k < n)
      <4>1. r[j] = q[j + 1] /\ r[k] = q[k + 1] /\ j + 1 < k + 1
        BY <1>1, <1>2, <1>3, <3>4
      <4>2. QED  BY <3>1, <4>1
    <3>5. j < n \/ ~(k < n)
      BY <1>1, <1>2, <1>3
    <3>6. QED  BY <3>2, <3>3, <3>4, <3>5
  <2>2. QED  BY <1>3, <2>1 DEF InOrder
<1>4. QED  BY <1>3 DEF InOrder

LEMMA TotalsMeaning ==
    LevelTotals <=> \A s \in Side, p \in Price :
        total_quantity[s][p] = SumOf(Amounts(queue[s][p], remaining_qty)) % QMod
BY DEF LevelTotals, Amounts

LEMMA TotalsMeaningNext ==
    LevelTotals' <=> \A s \in Side, p \in Price :
        total_quantity'[s][p] = SumOf(Amounts(queue'[s][p], remaining_qty')) % QMod
BY DEF LevelTotals, Amounts

LEMMA AmountsSum ==
    ASSUME NEW q \in Seq(Id), NEW rem \in [Id -> Nat]
    PROVE  SumOf(Amounts(q, rem)) \in Int
BY AmountsFacts, SumPartial, Zenon

(* A step that writes no level *)
LEMMA SameBookKeeps ==
    ASSUME BookTypeOK, LevelsGood, UNCHANGED <<queue, remaining_qty, total_quantity>>,
           \A i \in Id : Resting(i) => order'[i] = order[i]
    PROVE  LevelsGood'
<1>1. LevelTotals'
  BY TotalsMeaning, TotalsMeaningNext DEF LevelsGood
<1>2. \A i : Resting(i)' <=> Resting(i)
  BY DEF Resting
<1>3. OutIsEmpty'
  BY <1>2 DEF OutIsEmpty, LevelsGood
<1>4. ASSUME NEW s \in Side, NEW p \in Price PROVE InOrder(queue'[s][p], order')
  <2>1. queue[s][p] \in Seq(Id) /\ InOrder(queue[s][p], order)
    BY DEF BookTypeOK, LevelsGood, OldestFirst
  <2>2. \A i \in Id : Contains(queue[s][p], i) => order'[i] = order[i]
    BY DEF Resting
  <2>3. InOrder(queue[s][p], order')
    BY <2>1, <2>2, InOrderSame
  <2>4. QED  BY <2>3
<1>5. QED  BY <1>1, <1>3, <1>4 DEF LevelsGood, OldestFirst

(* An order, newer than what rests or an iceberg, joins its level. *)
LEMMA JoinKeeps ==
    ASSUME BookTypeOK, LevelsGood, BookInjective,
           NEW id \in Id, NEW o, o.side \in Side, o.price \in Price, NEW q \in Nat,
           ~Resting(id), AddToLevel(id, o, q),
           \A i \in Id : Resting(i) => order'[i] = order[i],
           IsIceberg(order'[id]) \/ \A i \in Id : Resting(i) => i < id
    PROVE  LevelsGood'
<1> DEFINE old == queue[o.side][o.price]
<1>1. /\ BookTypeOK'
      /\ remaining_qty' = [remaining_qty EXCEPT ![id] = q]
      /\ \A s \in Side, p \in Price, i \in Id :
            Contains(queue'[s][p], i) <=>
                Contains(queue[s][p], i) \/ (i = id /\ s = o.side /\ p = o.price)
  BY AddToLevelFacts
<1>2. /\ queue \in [Side -> [Price -> Seq(Id)]] /\ remaining_qty \in [Id -> Nat]
      /\ remaining_qty' \in [Id -> Nat]
      /\ total_quantity \in [Side -> [Price -> 0 .. (QMod - 1)]]
  BY <1>1 DEF BookTypeOK
<1>3. remaining_qty'[id] = q /\ \A i \in Id \ {id} : remaining_qty'[i] = remaining_qty[i]
  BY <1>1, <1>2
<1>4. \A s \in Side, p \in Price :
          /\ queue'[s][p] = IF s = o.side /\ p = o.price THEN Append(old, id) ELSE queue[s][p]
          /\ total_quantity'[s][p] = IF s = o.side /\ p = o.price
                THEN (total_quantity[s][p] + q) % QMod ELSE total_quantity[s][p]
  BY <1>2 DEF AddToLevel
<1>5. \A s \in Side, p \in Price : queue[s][p] \in Seq(Id) /\ ~Contains(queue[s][p], id)
  BY <1>2 DEF Resting
<1>6. LevelTotals'
  <2> SUFFICES ASSUME NEW s \in Side, NEW p \in Price
               PROVE  total_quantity'[s][p] = SumOf(Amounts(queue'[s][p], remaining_qty')) % QMod
    BY TotalsMeaningNext
  <2>1. total_quantity[s][p] = SumOf(Amounts(queue[s][p], remaining_qty)) % QMod
    BY TotalsMeaning DEF LevelsGood
  <2>2. CASE s = o.side /\ p = o.price
    <3>1. SumOf(Amounts(Append(old, id), remaining_qty')) = SumOf(Amounts(old, remaining_qty)) + q
      <4>1. old \in Seq(Id) /\ ~Contains(old, id)
        BY <1>5
      <4>2. HIDE DEF old
      <4>3. SumOf(Amounts(Append(old, id), remaining_qty'))
               = SumOf(Amounts(old, remaining_qty)) + remaining_qty'[id]
        BY <1>2, <1>3, <4>1, AmountsJoin, Zenon
      <4>4. QED  BY <1>3, <4>3, Zenon
    <3>2. SumOf(Amounts(old, remaining_qty)) \in Int /\ q \in Int /\ QMod \in Nat \ {0}
      <4>1. old \in Seq(Id)
        BY <1>5
      <4>2. SumOf(Amounts(old, remaining_qty)) \in Int
        BY <1>2, <4>1, AmountsSum, Zenon
      <4>3. QED  BY <4>2, ConstantsAssumption
    <3>3. ((SumOf(Amounts(old, remaining_qty)) % QMod) + q) % QMod
             = (SumOf(Amounts(old, remaining_qty)) + q) % QMod
      BY <3>2, ModStep, Zenon
    <3>4. QED  BY <1>4, <2>1, <2>2, <3>1, <3>3, Zenon
  <2>3. CASE ~(s = o.side /\ p = o.price)
    <3>1. Amounts(queue[s][p], remaining_qty') = Amounts(queue[s][p], remaining_qty)
      <4>1. \A i \in Id : Contains(queue[s][p], i) => remaining_qty'[i] = remaining_qty[i]
        BY <1>3, <1>5
      <4>2. QED  BY <1>5, <4>1, AmountsSame
    <3>2. QED  BY <1>4, <2>1, <2>3, <3>1, Zenon
  <2>4. QED  BY <2>2, <2>3
<1>7. OldestFirst'
  <2>1. ASSUME NEW s \in Side, NEW p \in Price PROVE InOrder(queue'[s][p], order')
    <3>1. \A i \in Id : Contains(queue[s][p], i) => Resting(i)
      BY DEF Resting
    <3>2. InOrder(queue[s][p], order')
      BY <1>5, <3>1, InOrderSame DEF LevelsGood, OldestFirst
    <3>3. CASE s = o.side /\ p = o.price
      <4>1. InOrder(Append(queue[s][p], id), order')
        BY <1>5, <3>1, <3>2, InOrderJoin
      <4>2. QED  BY <1>4, <3>3, <4>1
    <3>4. CASE ~(s = o.side /\ p = o.price)
      BY <1>4, <3>2, <3>4
    <3>5. QED  BY <3>3, <3>4
  <2>2. QED  BY <2>1 DEF OldestFirst
<1>8. OutIsEmpty'
  <2> SUFFICES ASSUME NEW i \in Id, ~Resting(i)' PROVE remaining_qty'[i] = 0
    BY DEF OutIsEmpty
  <2>1. i # id /\ ~Resting(i)
    BY <1>1 DEF Resting
  <2>2. QED  BY <1>3, <2>1 DEF LevelsGood, OutIsEmpty
<1>9. QED  BY <1>6, <1>7, <1>8 DEF LevelsGood

(* The total of a level that x units left *)
LEMMA Retotal ==
    ASSUME NEW S \in Int, NEW x \in Nat, NEW q \in Seq(Id), NEW rem,
           SumOf(Amounts(q, rem)) = S - x
    PROVE  (IF q = <<>> THEN 0 ELSE ((S % QMod) - x) % QMod) = SumOf(Amounts(q, rem)) % QMod
<1>1. QMod \in Nat \ {0}
  BY ConstantsAssumption
<1>2. CASE q = <<>>
  <2>1. Amounts(q, rem) = <<>>
    BY <1>2 DEF Amounts
  <2>2. SumOf(Amounts(q, rem)) = 0
    BY <2>1, SumEmpty
  <2>3. 0 % QMod = 0
    BY <1>1
  <2>4. QED  BY <1>2, <2>2, <2>3
<1>3. CASE q # <<>>
  <2>1. -x \in Int
    OBVIOUS
  <2>2. ((S % QMod) + (-x)) % QMod = (S + (-x)) % QMod
    BY <1>1, <2>1, ModStep, Zenon
  <2>3. S % QMod \in Int
    BY <1>1
  <2>4. (S % QMod) + (-x) = (S % QMod) - x /\ S + (-x) = S - x
    BY <2>3
  <2>5. QED  BY <1>3, <2>2, <2>4, Zenon
<1>4. QED  BY <1>2, <1>3

(* An order is taken out of the book, wherever it stands in its level. *)
LEMMA LeaveKeeps ==
    ASSUME BookTypeOK, LevelsGood, IndexCoversBook,
           NEW id \in Id, orders_index_[id] # NoLoc, RemoveFromBook(id),
           \A i \in Id : Resting(i) => order'[i] = order[i]
    PROVE  LevelsGood'
<1>1. /\ BookTypeOK'
      /\ remaining_qty' = [remaining_qty EXCEPT ![id] = 0]
      /\ \A s \in Side, p \in Price, i \in Id :
            Contains(queue'[s][p], i) <=> Contains(queue[s][p], i) /\ i # id
  BY RemoveFromBookFacts
<1>2. /\ queue \in [Side -> [Price -> Seq(Id)]] /\ remaining_qty \in [Id -> Nat]
      /\ queue' \in [Side -> [Price -> Seq(Id)]] /\ remaining_qty' \in [Id -> Nat]
      /\ total_quantity \in [Side -> [Price -> 0 .. (QMod - 1)]]
  BY <1>1 DEF BookTypeOK
<1>3. remaining_qty'[id] = 0 /\ \A i \in Id \ {id} : remaining_qty'[i] = remaining_qty[i]
  BY <1>1, <1>2
<1>4. PICK s0 \in Side, p0 \in Price : orders_index_[id] = <<s0, p0>>
  BY DEF BookTypeOK, Location
<1>5. orders_index_[id][1] = s0 /\ orders_index_[id][2] = p0
  BY <1>4
<1>6. PICK old, new, x : old = queue[s0][p0] /\ new = Without(old, id) /\ x = remaining_qty[id]
  OBVIOUS
<1>7. /\ queue' = [queue EXCEPT ![s0][p0] = new]
      /\ total_quantity' = [total_quantity EXCEPT ![s0][p0] =
                               IF new = <<>> THEN 0 ELSE (@ - x) % QMod]
  BY <1>5, <1>6 DEF RemoveFromBook
<1>8. \A s \in Side, p \in Price :
          /\ queue'[s][p] = IF s = s0 /\ p = p0 THEN new ELSE queue[s][p]
          /\ total_quantity'[s][p] = IF s = s0 /\ p = p0
                THEN IF new = <<>> THEN 0 ELSE (total_quantity[s][p] - x) % QMod
                ELSE total_quantity[s][p]
  BY <1>2, <1>7
<1>9. /\ old \in Seq(Id) /\ IsInjective(old) /\ x \in Nat /\ new \in Seq(Id)
  <2>1. new = queue'[s0][p0]
    BY <1>8
  <2>2. QED  BY <1>2, <1>6, <2>1 DEF IndexCoversBook
<1>10. \A s \in Side, p \in Price : Contains(queue[s][p], id) => s = s0 /\ p = p0
  BY <1>4 DEF IndexCoversBook
<1>11. SumOf(Amounts(new, remaining_qty')) = SumOf(Amounts(old, remaining_qty)) - x
       /\ InOrder(new, order)
  <2>1. InOrder(old, order)
    BY <1>6 DEF LevelsGood, OldestFirst
  <2>2. CASE Contains(old, id)
    <3>1. PICK n \in 1 .. Len(old) : old[n] = id /\ Skips(new, old, n)
      BY <1>6, <1>9, <2>2, WithoutSkips
    <3>2. SumOf(Amounts(old, remaining_qty)) = remaining_qty[old[n]] + SumOf(Amounts(new, remaining_qty'))
      <4>1. \A i \in Id \ {old[n]} : remaining_qty'[i] = remaining_qty[i]
        BY <1>3, <3>1
      <4>2. /\ old \in Seq(Id) /\ IsInjective(old) /\ Skips(new, old, n)
            /\ remaining_qty \in [Id -> Nat] /\ remaining_qty' \in [Id -> Nat]
        BY <1>2, <1>9, <3>1
      <4>3. QED  BY <4>1, <4>2, AmountsLeave, SMTT(40)
    <3>3. SumOf(Amounts(new, remaining_qty')) \in Int
      BY <1>2, <1>9, AmountsSum
    <3>4. SumOf(Amounts(new, remaining_qty')) = SumOf(Amounts(old, remaining_qty)) - x
      BY <1>6, <1>9, <3>1, <3>2, <3>3
    <3>5. InOrder(new, order)
      BY <1>9, <2>1, <3>1, InOrderLeave, Zenon
    <3>6. QED  BY <3>4, <3>5
  <2>3. CASE ~Contains(old, id)
    <3>1. new = old
      BY <1>6, <1>9, <2>3, WithoutSkips
    <3>2. x = 0
      <4>1. ~Resting(id)
        BY <1>6, <1>10, <2>3 DEF Resting
      <4>2. QED  BY <1>6, <4>1 DEF LevelsGood, OutIsEmpty
    <3>3. Amounts(old, remaining_qty') = Amounts(old, remaining_qty)
      <4>1. \A i \in Id : Contains(old, i) => remaining_qty'[i] = remaining_qty[i]
        BY <1>3, <2>3
      <4>2. QED  BY <1>9, <4>1, AmountsSame
    <3>4. SumOf(Amounts(old, remaining_qty)) \in Int
      BY <1>2, <1>9, AmountsSum
    <3>5. QED  BY <2>1, <3>1, <3>2, <3>3, <3>4
  <2>4. QED  BY <2>2, <2>3
<1>12. LevelTotals'
  <2> SUFFICES ASSUME NEW s \in Side, NEW p \in Price
               PROVE  total_quantity'[s][p] = SumOf(Amounts(queue'[s][p], remaining_qty')) % QMod
    BY TotalsMeaningNext
  <2>1. total_quantity[s][p] = SumOf(Amounts(queue[s][p], remaining_qty)) % QMod
    BY TotalsMeaning DEF LevelsGood
  <2>2. CASE s = s0 /\ p = p0
    <3>1. SumOf(Amounts(old, remaining_qty)) \in Int
      BY <1>2, <1>9, AmountsSum
    <3>2. (IF new = <<>> THEN 0 ELSE ((SumOf(Amounts(old, remaining_qty)) % QMod) - x) % QMod)
             = SumOf(Amounts(new, remaining_qty')) % QMod
      BY <1>9, <1>11, <3>1, Retotal, Zenon
    <3>3. total_quantity[s][p] = SumOf(Amounts(old, remaining_qty)) % QMod
      BY <1>6, <2>1, <2>2, Zenon
    <3>4. total_quantity'[s][p] = IF new = <<>> THEN 0 ELSE (total_quantity[s][p] - x) % QMod
      BY <1>8, <2>2
    <3>5. queue'[s][p] = new
      BY <1>8, <2>2
    <3>6. QED  BY <3>2, <3>3, <3>4, <3>5, Zenon
  <2>3. CASE ~(s = s0 /\ p = p0)
    <3>1. Amounts(queue[s][p], remaining_qty') = Amounts(queue[s][p], remaining_qty)
      <4>1. \A i \in Id : Contains(queue[s][p], i) => remaining_qty'[i] = remaining_qty[i]
        BY <1>3, <1>10, <2>3
      <4>2. queue[s][p] \in Seq(Id)
        BY <1>2
      <4>3. QED  BY <4>1, <4>2, AmountsSame
    <3>2. QED  BY <1>8, <2>1, <2>3, <3>1, Zenon
  <2>4. QED  BY <2>2, <2>3
<1>13. OldestFirst'
  <2>1. ASSUME NEW s \in Side, NEW p \in Price PROVE InOrder(queue'[s][p], order')
    <3>1. queue'[s][p] \in Seq(Id) /\ InOrder(queue'[s][p], order)
      BY <1>2, <1>8, <1>11 DEF LevelsGood, OldestFirst
    <3>2. \A i \in Id : Contains(queue'[s][p], i) => order'[i] = order[i]
      BY <1>1 DEF Resting
    <3>3. QED  BY <3>1, <3>2, InOrderSame
  <2>2. QED  BY <2>1 DEF OldestFirst
<1>14. OutIsEmpty'
  <2> SUFFICES ASSUME NEW i \in Id, ~Resting(i)' PROVE remaining_qty'[i] = 0
    BY DEF OutIsEmpty
  <2>1. CASE i = id
    BY <1>3, <2>1
  <2>2. CASE i # id
    <3>1. ~Resting(i)
      BY <1>1, <2>2 DEF Resting
    <3>2. QED  BY <1>3, <2>2, <3>1 DEF LevelsGood, OutIsEmpty
  <2>3. QED  BY <2>1, <2>2
<1>15. QED  BY <1>12, <1>13, <1>14 DEF LevelsGood

(* The front order of a level is filled, and leaves if nothing is left.    *)
LEMMA FillKeeps ==
    ASSUME BookTypeOK, LevelsGood, IndexCoversBook,
           NEW s0 \in Side, NEW p0 \in Price, NEW m \in Id, NEW c \in Nat,
           queue[s0][p0] # <<>>, FillEffect(s0, p0, m, c),
           \A i \in Id : Resting(i) => order'[i] = order[i]
    PROVE  LevelsGood'
<1>1. PICK old, new : old = queue[s0][p0] /\ new = RestAfter(s0, p0, m, c)
  OBVIOUS
<1>2. /\ BookTypeOK'
      /\ m = Head(old) /\ Contains(old, m) /\ c <= remaining_qty[m]
      /\ queue' = [queue EXCEPT ![s0][p0] = new]
      /\ total_quantity' = [total_quantity EXCEPT ![s0][p0] =
                               IF new = <<>> THEN 0 ELSE (@ - c) % QMod]
      /\ remaining_qty' = [remaining_qty EXCEPT ![m] = @ - c]
      /\ \A t \in Side, l \in Price, i \in Id :
            Contains(queue'[t][l], i) <=>
                Contains(queue[t][l], i) /\ ~(i = m /\ c = remaining_qty[m])
  BY <1>1, Zenon DEF FillEffect
<1>3. /\ queue \in [Side -> [Price -> Seq(Id)]] /\ remaining_qty \in [Id -> Nat]
      /\ queue' \in [Side -> [Price -> Seq(Id)]] /\ remaining_qty' \in [Id -> Nat]
      /\ total_quantity \in [Side -> [Price -> 0 .. (QMod - 1)]]
  BY <1>2 DEF BookTypeOK
<1>4. /\ remaining_qty'[m] = remaining_qty[m] - c
      /\ \A i \in Id \ {m} : remaining_qty'[i] = remaining_qty[i]
      /\ remaining_qty[m] \in Nat
  BY <1>2, <1>3
<1>5. \A s \in Side, p \in Price :
          /\ queue'[s][p] = IF s = s0 /\ p = p0 THEN new ELSE queue[s][p]
          /\ total_quantity'[s][p] = IF s = s0 /\ p = p0
                THEN IF new = <<>> THEN 0 ELSE (total_quantity[s][p] - c) % QMod
                ELSE total_quantity[s][p]
  BY <1>2, <1>3, SMTT(40)
<1>6. /\ old \in Seq(Id) /\ IsInjective(old) /\ old # <<>> /\ new \in Seq(Id)
  <2>1. new = queue'[s0][p0]
    BY <1>5
  <2>2. QED  BY <1>1, <1>3, <2>1 DEF IndexCoversBook
<1>7. \A s \in Side, p \in Price : Contains(queue[s][p], m) => s = s0 /\ p = p0
  <2>1. orders_index_[m] = <<s0, p0>>
    BY <1>1, <1>2 DEF IndexCoversBook
  <2>2. QED  BY <2>1 DEF IndexCoversBook
<1>8. Skips(Tail(old), old, 1) /\ old[1] = m /\ 1 \in 1 .. Len(old)
  <2>1. Skips(Tail(old), old, 1) /\ Head(old) = old[1]
    BY <1>6, TailSkips, Zenon
  <2>2. QED  BY <1>2, <2>1 DEF Skips
<1>9. \A i \in Id \ {old[1]} : remaining_qty'[i] = remaining_qty[i]
  BY <1>4, <1>8
<1>10. /\ SumOf(Amounts(new, remaining_qty')) = SumOf(Amounts(old, remaining_qty)) - c
       /\ InOrder(new, order)
  <2>1. InOrder(old, order)
    BY <1>1 DEF LevelsGood, OldestFirst
  <2>2. CASE c = remaining_qty[m]
    <3>1. new = Tail(old)
      BY <1>1, <2>2 DEF RestAfter
    <3>2. SumOf(Amounts(old, remaining_qty)) = remaining_qty[old[1]] + SumOf(Amounts(new, remaining_qty'))
      <4>1. /\ old \in Seq(Id) /\ IsInjective(old) /\ Skips(new, old, 1)
            /\ remaining_qty \in [Id -> Nat] /\ remaining_qty' \in [Id -> Nat]
        BY <1>3, <1>6, <1>8, <3>1
      <4>2. QED  BY <1>9, <4>1, AmountsLeave, SMTT(40)
    <3>3. SumOf(Amounts(new, remaining_qty')) \in Int
      BY <1>3, <1>6, AmountsSum
    <3>4. SumOf(Amounts(new, remaining_qty')) = SumOf(Amounts(old, remaining_qty)) - c
      BY <1>1, <1>4, <1>8, <2>2, <3>2, <3>3
    <3>5. InOrder(new, order)
      BY <1>6, <1>8, <2>1, <3>1, InOrderLeave, Zenon
    <3>6. QED  BY <3>4, <3>5
  <2>3. CASE c # remaining_qty[m]
    <3>1. new = old
      BY <1>1, <2>3 DEF RestAfter
    <3>2. SumOf(Amounts(old, remaining_qty'))
             = SumOf(Amounts(old, remaining_qty)) - remaining_qty[old[1]] + remaining_qty'[old[1]]
      BY <1>3, <1>6, <1>8, <1>9, AmountsShrink
    <3>3. SumOf(Amounts(old, remaining_qty)) \in Int
      BY <1>3, <1>6, AmountsSum
    <3>4. SumOf(Amounts(old, remaining_qty')) = SumOf(Amounts(old, remaining_qty)) - c
      BY <1>4, <1>8, <3>2, <3>3
    <3>5. QED  BY <2>1, <3>1, <3>4
  <2>4. QED  BY <2>2, <2>3
<1>11. LevelTotals'
  <2> SUFFICES ASSUME NEW s \in Side, NEW p \in Price
               PROVE  total_quantity'[s][p] = SumOf(Amounts(queue'[s][p], remaining_qty')) % QMod
    BY TotalsMeaningNext
  <2>1. total_quantity[s][p] = SumOf(Amounts(queue[s][p], remaining_qty)) % QMod
    BY TotalsMeaning DEF LevelsGood
  <2>2. CASE s = s0 /\ p = p0
    <3>1. SumOf(Amounts(old, remaining_qty)) \in Int
      BY <1>3, <1>6, AmountsSum
    <3>2. (IF new = <<>> THEN 0 ELSE ((SumOf(Amounts(old, remaining_qty)) % QMod) - c) % QMod)
             = SumOf(Amounts(new, remaining_qty')) % QMod
      BY <1>6, <1>10, <3>1, Retotal, Zenon
    <3>3. total_quantity[s][p] = SumOf(Amounts(old, remaining_qty)) % QMod
      BY <1>1, <2>1, <2>2, Zenon
    <3>4. total_quantity'[s][p] = IF new = <<>> THEN 0 ELSE (total_quantity[s][p] - c) % QMod
      BY <1>5, <2>2
    <3>5. queue'[s][p] = new
      BY <1>5, <2>2
    <3>6. QED  BY <3>2, <3>3, <3>4, <3>5, Zenon
  <2>3. CASE ~(s = s0 /\ p = p0)
    <3>1. Amounts(queue[s][p], remaining_qty') = Amounts(queue[s][p], remaining_qty)
      <4>1. \A i \in Id : Contains(queue[s][p], i) => remaining_qty'[i] = remaining_qty[i]
        BY <1>4, <1>7, <2>3
      <4>2. queue[s][p] \in Seq(Id)
        BY <1>3
      <4>3. QED  BY <4>1, <4>2, AmountsSame
    <3>2. QED  BY <1>5, <2>1, <2>3, <3>1, Zenon
  <2>4. QED  BY <2>2, <2>3
<1>12. OldestFirst'
  <2>1. ASSUME NEW s \in Side, NEW p \in Price PROVE InOrder(queue'[s][p], order')
    <3>1. queue'[s][p] \in Seq(Id) /\ InOrder(queue'[s][p], order)
      BY <1>3, <1>5, <1>10 DEF LevelsGood, OldestFirst
    <3>2. \A i \in Id : Contains(queue'[s][p], i) => order'[i] = order[i]
      BY <1>2 DEF Resting
    <3>3. QED  BY <3>1, <3>2, InOrderSame
  <2>2. QED  BY <2>1 DEF OldestFirst
<1>13. OutIsEmpty'
  <2> SUFFICES ASSUME NEW i \in Id, ~Resting(i)' PROVE remaining_qty'[i] = 0
    BY DEF OutIsEmpty
  <2>1. CASE i = m
    <3>1. c = remaining_qty[m]
      BY <1>1, <1>2, <2>1 DEF Resting
    <3>2. QED  BY <1>4, <2>1, <3>1
  <2>2. CASE i # m
    <3>1. ~Resting(i)
      BY <1>2, <2>2 DEF Resting
    <3>2. QED  BY <1>4, <2>2, <3>1 DEF LevelsGood, OutIsEmpty
  <2>3. QED  BY <2>1, <2>2
<1>14. QED  BY <1>11, <1>12, <1>13 DEF LevelsGood

-----------------------------------------------------------------------------
(* The tape *)

LEMMA SharesFacts ==
    ASSUME NEW ts \in Seq(Trade), NEW i
    PROVE  /\ Shares(i, ts) \in Seq(Int) /\ Len(Shares(i, ts)) = Len(ts)
           /\ \A k \in 1 .. Len(ts) :
                 Shares(i, ts)[k] = IF i \in {ts[k].maker, ts[k].taker} THEN ts[k].qty ELSE 0
<1>1. Len(ts) \in Nat /\ DOMAIN ts = 1 .. Len(ts) /\ \A k \in 1 .. Len(ts) : ts[k] \in Trade
  OBVIOUS
<1>2. \A k \in 1 .. Len(ts) : ts[k].qty \in Int
  BY <1>1 DEF Trade
<1>3. Shares(i, ts) \in [1 .. Len(ts) -> Int]
  BY <1>1, <1>2 DEF Shares
<1>4. QED  BY <1>1, <1>3 DEF Shares

LEMMA SharesAppend ==
    ASSUME NEW ts \in Seq(Trade), NEW t \in Trade, NEW i
    PROVE  SumOf(Shares(i, Append(ts, t)))
              = SumOf(Shares(i, ts)) + (IF i \in {t.maker, t.taker} THEN t.qty ELSE 0)
<1> DEFINE r == Append(ts, t)
           w == Shares(i, ts)
           u == Shares(i, r)
<1>1. /\ r \in Seq(Trade) /\ Len(ts) \in Nat /\ Len(r) = Len(ts) + 1 /\ r[Len(r)] = t
      /\ \A k \in 1 .. Len(ts) : r[k] = ts[k]
  OBVIOUS
<1>2. /\ w \in Seq(Int) /\ Len(w) = Len(ts)
      /\ \A k \in 1 .. Len(ts) :
            w[k] = IF i \in {ts[k].maker, ts[k].taker} THEN ts[k].qty ELSE 0
  BY SharesFacts, Zenon
<1>3. /\ u \in Seq(Int) /\ Len(u) = Len(r)
      /\ \A k \in 1 .. Len(r) :
            u[k] = IF i \in {r[k].maker, r[k].taker} THEN r[k].qty ELSE 0
  <2>1. r \in Seq(Trade)
    BY <1>1
  <2>2. HIDE DEF r
  <2>3. QED  BY <2>1, SharesFacts, Zenon
<1>4. HIDE DEF r, w, u
<1>5. ASSUME NEW k \in 1 .. Len(w) PROVE u[k] = w[k]
  <2>1. k \in 1 .. Len(ts) /\ k \in 1 .. Len(r)
    BY <1>1, <1>2
  <2>2. r[k] = ts[k]
    BY <1>1, <2>1
  <2>3. QED  BY <1>2, <1>3, <2>1, <2>2, Zenon
<1>6. Len(r) \in 1 .. Len(r) /\ Len(u) = Len(w) + 1
  BY <1>1, <1>2, <1>3
<1>7. u[Len(u)] = IF i \in {t.maker, t.taker} THEN t.qty ELSE 0
  BY <1>1, <1>3, <1>6, Zenon
<1>8. SumOf(u) = SumOf(w) + u[Len(u)]
  BY <1>2, <1>3, <1>5, <1>6, SumGrow, Zenon
<1>9. QED  BY <1>7, <1>8, Zenon DEF r, w, u

LEMMA SharesConcat ==
    ASSUME NEW a \in Seq(Trade), NEW b \in Seq(Trade), NEW i
    PROVE  SumOf(Shares(i, a \o b)) = SumOf(Shares(i, a)) + SumOf(Shares(i, b))
<1> DEFINE r == a \o b
           v == Shares(i, a)
           w == Shares(i, b)
           u == Shares(i, r)
<1>1. /\ r \in Seq(Trade) /\ Len(a) \in Nat /\ Len(b) \in Nat /\ Len(r) = Len(a) + Len(b)
      /\ \A k \in 1 .. Len(a) : r[k] = a[k]
      /\ \A k \in 1 .. Len(b) : r[Len(a) + k] = b[k]
  OBVIOUS
<1>2. /\ v \in Seq(Int) /\ Len(v) = Len(a)
      /\ \A k \in 1 .. Len(a) :
            v[k] = IF i \in {a[k].maker, a[k].taker} THEN a[k].qty ELSE 0
  BY SharesFacts, Zenon
<1>3. /\ w \in Seq(Int) /\ Len(w) = Len(b)
      /\ \A k \in 1 .. Len(b) :
            w[k] = IF i \in {b[k].maker, b[k].taker} THEN b[k].qty ELSE 0
  BY SharesFacts, Zenon
<1>4. /\ u \in Seq(Int) /\ Len(u) = Len(r)
      /\ \A k \in 1 .. Len(r) :
            u[k] = IF i \in {r[k].maker, r[k].taker} THEN r[k].qty ELSE 0
  <2>1. r \in Seq(Trade)
    BY <1>1
  <2>2. HIDE DEF r
  <2>3. QED  BY <2>1, SharesFacts, Zenon
<1>5. HIDE DEF r, v, w, u
<1>6. ASSUME NEW k \in 1 .. Len(v) PROVE u[k] = v[k]
  <2>1. k \in 1 .. Len(a) /\ k \in 1 .. Len(r)
    BY <1>1, <1>2
  <2>2. r[k] = a[k]
    BY <1>1, <2>1
  <2>3. QED  BY <1>2, <1>4, <2>1, <2>2, Zenon
<1>7. ASSUME NEW k \in 1 .. Len(w) PROVE u[Len(v) + k] = w[k]
  <2>1. k \in 1 .. Len(b) /\ Len(a) + k \in 1 .. Len(r)
    BY <1>1, <1>3
  <2>2. r[Len(a) + k] = b[k]
    BY <1>1, <2>1
  <2>3. QED  BY <1>2, <1>3, <1>4, <2>1, <2>2, Zenon
<1>8. Len(u) = Len(v) + Len(w)
  BY <1>1, <1>2, <1>3, <1>4
<1>9. SumOf(u) = SumOf(v) + SumOf(w)
  BY <1>2, <1>3, <1>4, <1>6, <1>7, <1>8, SumConcat, Zenon
<1>10. QED  BY <1>9, Zenon DEF r, v, w, u

LEMMA SharesSum ==
    ASSUME NEW ts \in Seq(Trade), NEW i
    PROVE  SumOf(Shares(i, ts)) \in Int
BY SharesFacts, SumPartial, Zenon

LEMMA SharesEmpty == \A i : SumOf(Shares(i, <<>>)) = 0
<1>1. \A i : Shares(i, <<>>) = <<>>
  BY DEF Shares
<1>2. QED  BY <1>1, SumEmpty

LEMMA TapeSame ==
    ASSUME TapeComplete, UNCHANGED <<total_trades_, recent_trades_, trades, filled>>
    PROVE  TapeComplete'
BY DEF TapeComplete, OnTape

(* A fill is on the running call's list, once for each side. *)
LEMMA TapeFill ==
    ASSUME TypeOK, TapeComplete, UNCHANGED <<total_trades_, recent_trades_>>,
           NEW m \in Id, taker \in Id, m # taker, NEW p \in Price, NEW c \in Nat,
           trades' = Append(trades, [maker |-> m, taker |-> taker, price |-> p, qty |-> c]),
           filled' = [filled EXCEPT ![m] = @ + c, ![taker] = @ + c]
    PROVE  TapeComplete'
<1> DEFINE t == [maker |-> m, taker |-> taker, price |-> p, qty |-> c]
<1>1. /\ t \in Trade /\ t.maker = m /\ t.taker = taker /\ t.qty = c
      /\ trades \in Seq(Trade) /\ recent_trades_ \in Seq(Trade) /\ filled \in [Id -> Nat]
  BY DEF Trade, TypeOK
<1>2. ASSUME NEW i \in Id
      PROVE  filled'[i] = filled[i] + (IF i \in {m, taker} THEN c ELSE 0)
  <2>1. CASE i = m
    BY <1>1, <2>1
  <2>2. CASE i = taker
    BY <1>1, <2>2
  <2>3. CASE i # m /\ i # taker
    BY <1>1, <2>3
  <2>4. QED  BY <2>1, <2>2, <2>3
<1>3. ASSUME NEW i \in Id
      PROVE  OnTape(i)' = OnTape(i) + (IF i \in {m, taker} THEN c ELSE 0)
  <2>1. SumOf(Shares(i, trades'))
           = SumOf(Shares(i, trades)) + (IF i \in {m, taker} THEN c ELSE 0)
    <3>1. HIDE DEF t
    <3>2. SumOf(Shares(i, Append(trades, t)))
             = SumOf(Shares(i, trades)) + (IF i \in {t.maker, t.taker} THEN t.qty ELSE 0)
      BY <1>1, SharesAppend, Zenon
    <3>3. trades' = Append(trades, t)
      BY DEF t
    <3>4. QED  BY <1>1, <3>2, <3>3, Zenon
  <2>2. SumOf(Shares(i, recent_trades_)) \in Int /\ SumOf(Shares(i, trades)) \in Int
    BY <1>1, SharesSum
  <2>3. OnTape(i)' = SumOf(Shares(i, recent_trades_)) + SumOf(Shares(i, trades'))
    BY DEF OnTape
  <2>4. QED  BY <2>1, <2>2, <2>3 DEF OnTape
<1>4. QED  BY <1>2, <1>3 DEF TapeComplete

(* recordTrades either keeps every trade or drops the oldest ones. *)
LEMMA TapeRecord ==
    ASSUME TypeOK, TapeComplete, RecordTrades, trades' = <<>>, filled' = filled
    PROVE  TapeComplete'
<1>1. /\ trades \in Seq(Trade) /\ recent_trades_ \in Seq(Trade) /\ total_trades_ \in Nat
      /\ Len(trades) \in Nat /\ Len(recent_trades_) \in Nat
      /\ total_trades_' = total_trades_ + Len(trades)
      /\ MaxRecent \in Nat \ {0}
  BY ConstantsAssumption DEF TypeOK, RecordTrades
<1>2. PICK all : all = recent_trades_ \o trades
  OBVIOUS
<1>3. /\ all \in Seq(Trade) /\ Len(all) = Len(recent_trades_) + Len(trades)
      /\ recent_trades_' = LastN(all, MaxRecent)
  BY <1>1, <1>2 DEF RecordTrades
<1>4. Len(recent_trades_) <= total_trades_
  BY DEF TapeComplete
<1>5. CASE Len(all) > MaxRecent
  <2>1. Len(recent_trades_') = MaxRecent
    <3>1. recent_trades_' = SubSeq(all, Len(all) - MaxRecent + 1, Len(all))
      BY <1>1, <1>3, <1>5 DEF LastN
    <3>2. QED  BY <1>1, <1>3, <1>5, <3>1
  <2>2. Len(recent_trades_') < total_trades_'
    BY <1>1, <1>3, <1>4, <1>5, <2>1
  <2>3. QED  BY <1>1, <2>1, <2>2 DEF TapeComplete
<1>6. CASE Len(all) <= MaxRecent
  <2>1. recent_trades_' = all
    BY <1>3, <1>6 DEF LastN
  <2>2. Len(recent_trades_') <= total_trades_'
    BY <1>1, <1>3, <1>4, <2>1
  <2>3. ASSUME Len(recent_trades_') = total_trades_', NEW i \in Id
        PROVE  filled'[i] = OnTape(i)'
    <3>1. Len(recent_trades_) = total_trades_
      BY <1>1, <1>3, <2>1, <2>3
    <3>2. filled[i] = SumOf(Shares(i, recent_trades_)) + SumOf(Shares(i, trades))
      BY <3>1 DEF TapeComplete, OnTape
    <3>3. SumOf(Shares(i, all)) = SumOf(Shares(i, recent_trades_)) + SumOf(Shares(i, trades))
      BY <1>1, <1>2, SharesConcat, Zenon
    <3>4. OnTape(i)' = SumOf(Shares(i, all)) + SumOf(Shares(i, <<>>))
      BY <2>1 DEF OnTape
    <3>5. SumOf(Shares(i, <<>>)) = 0 /\ SumOf(Shares(i, all)) \in Int
      BY <1>3, SharesEmpty, SharesSum
    <3>6. QED  BY <3>2, <3>3, <3>4, <3>5
  <2>4. QED  BY <2>2, <2>3 DEF TapeComplete
<1>7. QED  BY <1>1, <1>3, <1>5, <1>6

(* After a clear only an engine that never traded has a complete tape. *)
LEMMA TapeClear ==
    ASSUME TypeOK, TapeComplete, UNCHANGED <<total_trades_, trades, filled>>,
           recent_trades_' = <<>>
    PROVE  TapeComplete'
<1>1. /\ recent_trades_ \in Seq(Trade) /\ total_trades_ \in Nat
      /\ Len(recent_trades_) \in Nat /\ Len(recent_trades_') = 0
  BY DEF TypeOK
<1>2. CASE total_trades_ = 0
  <2>1. Len(recent_trades_) = 0
    BY <1>1, <1>2 DEF TapeComplete
  <2>2. recent_trades_' = recent_trades_
    BY <1>1, <2>1
  <2>3. QED  BY <2>2, TapeSame
<1>3. CASE total_trades_ # 0
  BY <1>1, <1>3 DEF TapeComplete
<1>4. QED  BY <1>2, <1>3

-----------------------------------------------------------------------------
(* The invariant holds at first, and every step keeps it. *)

LEMMA BInvInit == Init => BInv
<1> SUFFICES ASSUME Init PROVE BInv
  OBVIOUS
<1> USE DEF Init
<1>1. \A s \in Side, p \in Price : queue[s][p] = <<>> /\ total_quantity[s][p] = 0
  OBVIOUS
<1>2. \A i : ~Resting(i) /\ ~Consumed(i)
  BY <1>1 DEF Resting, Consumed, Contains
<1>3. LevelTotals
  <2>1. Amounts(<<>>, remaining_qty) = <<>>
    BY DEF Amounts
  <2>2. SumOf(Amounts(<<>>, remaining_qty)) % QMod = 0
    BY <2>1, SumEmpty, ConstantsAssumption
  <2>3. QED  BY <1>1, <2>2, TotalsMeaning, Zenon
<1>4. LevelsGood
  BY <1>1, <1>3 DEF LevelsGood, OldestFirst, InOrder, OutIsEmpty
<1>5. CallNewest
  BY DEF CallNewest
<1>6. BergsTracked
  <2>1. \A i \in Id : ~IsIceberg(order[i]) /\ hidden_remaining[i] = 0
    BY DEF NoOrder, IsIceberg
  <2>2. QED  BY <1>2, <2>1 DEF BergsTracked
<1>7. TapeComplete
  <2>1. \A i \in Id : filled[i] = 0 /\ OnTape(i) = 0
    BY SharesEmpty DEF OnTape
  <2>2. Len(recent_trades_) = 0
    OBVIOUS
  <2>3. QED  BY <2>1, <2>2 DEF TapeComplete
<1>8. QED  BY <1>4, <1>5, <1>6, <1>7 DEF BInv

LEMMA BookFacts ==
    ASSUME IInv
    PROVE  /\ BookTypeOK /\ BookInjective /\ IndexCoversBook
           /\ Submitted \subseteq Id
           /\ \A i \in Id : Resting(i) => i \in Submitted
<1>1. BookTypeOK /\ IndexCoversBook
  BY DEF IInv, TypeOK, BookTypeOK
<1>2. BookInjective
  BY <1>1 DEF IndexCoversBook, BookInjective
<1>3. \A i \in Id : Resting(i) => i \in Submitted
  BY <1>1 DEF IndexCoversBook, Resting
<1>4. QED  BY <1>1, <1>2, <1>3, SubmittedType DEF IInv

(* A new order changes no other's parameters, and is the newest. *)
LEMMA NewestFacts ==
    ASSUME IInv, NEW o, NewOrder(o)
    PROVE  /\ next_order_id_ \in Id /\ next_order_id_' = next_order_id_ + 1
           /\ order'[next_order_id_] = o
           /\ \A i \in Id \ {next_order_id_} : order'[i] = order[i]
           /\ \A i \in Id : Resting(i) => order'[i] = order[i] /\ i < next_order_id_
<1>1. /\ next_order_id_ \in Id /\ next_order_id_' = next_order_id_ + 1 /\ Id \subseteq Int
      /\ order' = [order EXCEPT ![next_order_id_] = o] /\ order \in [Id -> Order]
  BY DEF NewOrder, IInv, TypeOK, Id
<1>2. \A i \in Id : Resting(i) => i < next_order_id_
  BY <1>1, BookFacts DEF Submitted
<1>3. \A i \in Id : Resting(i) => i # next_order_id_
  BY <1>1, <1>2
<1>4. QED  BY <1>1, <1>2, <1>3

LEMMA ReturnAtOnceB ==
    ASSUME IInv, BInv, NEW o, GoodOrder(o), o.visible_qty = 0, NewOrder(o),
           NEW status, ReturnAtOnce(status),
           \/ UNCHANGED book
           \/ /\ AddToLevel(next_order_id_, o, o.total_qty)
              /\ o.type # "Market"
    PROVE  BInv'
<1>1. PICK n : n = next_order_id_
  OBVIOUS
<1>2. /\ UNCHANGED <<icebergs_, hidden_remaining, pc, taker, remaining, iceberg_consumed, trades,
                     total_trades_, recent_trades_, filled>>
      /\ pc = "idle"
  BY DEF ReturnAtOnce, bergs, call, tape, hist, NewOrder
<1>3. n \in Id /\ ~Resting(n) /\ (\A i : ~Consumed(i)) /\ taker = 0 /\ 0 \notin Id /\ n \notin icebergs_
  BY <1>1, NewOrderFacts
<1>4. /\ order'[n] = o /\ \A i \in Id \ {n} : order'[i] = order[i]
      /\ \A i \in Id : Resting(i) => order'[i] = order[i] /\ i < n
  BY <1>1, NewestFacts
<1>5. ~IsIceberg(order'[n])
  BY <1>4 DEF IsIceberg
<1>6. CallNewest'
  BY <1>2 DEF BInv, CallNewest
<1>7. LevelsGood' /\ \A i \in Id \ {n} : Resting(i)' <=> Resting(i)
  <2>1. CASE UNCHANGED book
    <3>1. UNCHANGED <<queue, remaining_qty, total_quantity>>
      BY <2>1 DEF book
    <3>2. LevelsGood'
      BY <1>4, <3>1, BookFacts, SameBookKeeps DEF BInv
    <3>3. QED  BY <3>1, <3>2 DEF Resting
  <2>2. CASE AddToLevel(next_order_id_, o, o.total_qty) /\ o.type # "Market"
    <3>1. o.side \in Side /\ o.price \in Price /\ o.total_qty \in Nat
      BY <2>2 DEF GoodOrder, Order
    <3>2. AddToLevel(n, o, o.total_qty) /\ BookTypeOK /\ BookInjective
      BY <1>1, <2>2, BookFacts
    <3>3. LevelsGood'
      BY <1>3, <1>4, <3>1, <3>2, JoinKeeps DEF BInv
    <3>4. \A s \in Side, p \in Price, i \in Id :
              Contains(queue'[s][p], i) <=>
                  Contains(queue[s][p], i) \/ (i = n /\ s = o.side /\ p = o.price)
      BY <1>3, <3>1, <3>2, AddToLevelFacts
    <3>5. QED  BY <3>3, <3>4 DEF Resting
  <2>3. QED  BY <2>1, <2>2
<1>8. \A i \in Id : Consumed(i)' <=> Consumed(i)
  BY <1>2 DEF Consumed
<1>9. BergsTracked'
  <2>1. \A i \in Id : i \in icebergs_' <=>
            IsIceberg(order'[i]) /\ (Resting(i)' \/ Consumed(i)' \/ i = taker')
    BY <1>2, <1>3, <1>4, <1>5, <1>7, <1>8 DEF BInv, BergsTracked
  <2>2. \A i \in Id : hidden_remaining'[i] > 0 => i \in icebergs_'
    BY <1>2 DEF BInv, BergsTracked
  <2>3. \A i \in Id : ~Consumed(i)'
    BY <1>3, <1>8
  <2>4. QED  BY <1>2, <2>1, <2>2, <2>3 DEF BergsTracked
<1>10. TapeComplete'
  BY <1>2, TapeSame DEF BInv
<1>11. QED  BY <1>6, <1>7, <1>9, <1>10 DEF BInv

LEMMA BeginMatchingB ==
    ASSUME IInv, BInv, NEW o, GoodOrder(o), NewOrder(o), BeginMatching(o),
           icebergs_' = IF IsIceberg(o) THEN icebergs_ \cup {next_order_id_} ELSE icebergs_,
           hidden_remaining' = IF IsIceberg(o)
               THEN [hidden_remaining EXCEPT ![next_order_id_] = o.total_qty - o.visible_qty]
               ELSE hidden_remaining
    PROVE  BInv'
<1>1. PICK n : n = next_order_id_
  OBVIOUS
<1>2. /\ UNCHANGED <<queue, remaining_qty, total_quantity, total_trades_, recent_trades_, filled>>
      /\ pc = "idle" /\ pc' = "match" /\ taker' = n
      /\ iceberg_consumed' = <<>> /\ trades' = <<>>
  BY <1>1 DEF BeginMatching, book, tape, hist, NewOrder
<1>3. /\ n \in Id /\ ~Resting(n) /\ (\A i : ~Consumed(i)) /\ taker = 0 /\ 0 \notin Id
      /\ n \notin icebergs_ /\ hidden_remaining[n] = 0
  BY <1>1, NewOrderFacts
<1>4. /\ order'[n] = o /\ \A i \in Id \ {n} : order'[i] = order[i]
      /\ \A i \in Id : Resting(i) => order'[i] = order[i]
      /\ next_order_id_' = n + 1 /\ n \in Int
  BY <1>1, NewestFacts DEF Id
<1>5. hidden_remaining \in [Id -> Nat]
  BY DEF IInv, TypeOK
<1>6. CallNewest'
  BY <1>2, <1>4 DEF CallNewest
<1>7. LevelsGood'
  BY <1>2, <1>4, BookFacts, SameBookKeeps DEF BInv
<1>8. \A i \in Id : ~Consumed(i)' /\ (Resting(i)' <=> Resting(i))
  BY <1>2 DEF Consumed, Contains, Resting
<1>9. BergsTracked'
  <2>1. ASSUME NEW i \in Id
        PROVE  i \in icebergs_' <=>
                   IsIceberg(order'[i]) /\ (Resting(i)' \/ Consumed(i)' \/ i = taker')
    <3>1. CASE i = n
      BY <1>1, <1>2, <1>3, <1>4, <3>1
    <3>2. CASE i # n
      <4>1. i \in icebergs_' <=> i \in icebergs_
        BY <1>1, <3>2
      <4>2. i \in icebergs_ <=> IsIceberg(order[i]) /\ Resting(i)
        BY <1>3 DEF BInv, BergsTracked
      <4>3. QED  BY <1>2, <1>4, <1>8, <3>2, <4>1, <4>2
    <3>3. QED  BY <3>1, <3>2
  <2>2. ASSUME NEW i \in Id, hidden_remaining'[i] > 0
        PROVE  i \in icebergs_'
    <3>1. CASE IsIceberg(o) /\ i = n
      BY <1>1, <3>1
    <3>2. CASE ~(IsIceberg(o) /\ i = n)
      <4>1. hidden_remaining'[i] = hidden_remaining[i]
        BY <1>1, <1>5, <3>2
      <4>2. QED  BY <2>2, <4>1 DEF BInv, BergsTracked
    <3>3. QED  BY <3>1, <3>2
  <2>3. QED  BY <1>2, <1>8, <2>1, <2>2 DEF BergsTracked
<1>10. TapeComplete'
  <2>1. trades' = trades
    BY <1>2 DEF BInv, CallNewest
  <2>2. QED  BY <1>2, <2>1, TapeSame DEF BInv
<1>11. QED  BY <1>6, <1>7, <1>9, <1>10 DEF BInv

LEMMA SubmitB == IInv /\ BInv /\ Submit => BInv'
<1> SUFFICES ASSUME IInv, BInv, NEW r \in Request,
                    SubmitPostOnly(r) \/ SubmitFOK(r) \/ SubmitStandard(r) \/ SubmitIceberg(r)
             PROVE  BInv'
  BY DEF Submit, SubmitOrder
<1>1. /\ r \in Order /\ r.total_qty \in Nat /\ r.visible_qty \in Nat /\ r.type \in OrderTypes
      /\ r.type # "Market" => r.price \in Price
      /\ r.type # "Iceberg" => r.visible_qty = 0 /\ GoodOrder(r) /\ ~IsIceberg(r)
  BY RequestFacts DEF IsIceberg
<1>2. CASE SubmitPostOnly(r)
  <2>1. GoodOrder(r) /\ r.visible_qty = 0 /\ NewOrder(r) /\ r.type # "Market"
    BY <1>1, <1>2 DEF SubmitPostOnly
  <2>2. CASE ReturnAtOnce("Rejected") /\ UNCHANGED book
    BY <2>1, <2>2, ReturnAtOnceB
  <2>3. CASE AddToLevel(next_order_id_, r, r.total_qty) /\ ReturnAtOnce("Accepted")
    BY <2>1, <2>3, ReturnAtOnceB
  <2>4. QED  BY <1>2, <2>2, <2>3 DEF SubmitPostOnly
<1>3. CASE SubmitFOK(r)
  <2>1. GoodOrder(r) /\ ~IsIceberg(r) /\ NewOrder(r) /\ r.visible_qty = 0
    BY <1>1, <1>3 DEF SubmitFOK
  <2>2. CASE ReturnAtOnce("Cancelled") /\ UNCHANGED book
    BY <2>1, <2>2, ReturnAtOnceB
  <2>3. CASE BeginMatching(r) /\ UNCHANGED bergs
    BY <2>1, <2>3, BeginMatchingB DEF bergs
  <2>4. QED  BY <1>3, <2>2, <2>3 DEF SubmitFOK
<1>4. CASE SubmitStandard(r)
  BY <1>1, <1>4, BeginMatchingB DEF SubmitStandard, bergs
<1>5. CASE SubmitIceberg(r)
  <2> DEFINE invalid == r.visible_qty = 0 \/ r.visible_qty >= r.total_qty
  <2>1. PICK o : o = [r EXCEPT !.visible_qty = IF invalid THEN 0 ELSE @]
    OBVIOUS
  <2>2. /\ o \in Order
        /\ o.type = r.type /\ o.price = r.price /\ o.total_qty = r.total_qty
        /\ o.visible_qty = IF invalid THEN 0 ELSE r.visible_qty
    BY <1>1, <2>1 DEF Order
  <2>3. GoodOrder(o) /\ NewOrder(o) /\ BeginMatching(o)
    BY <1>1, <1>5, <2>1, <2>2 DEF SubmitIceberg, GoodOrder, IsIceberg
  <2>4. CASE invalid
    <3>1. ~IsIceberg(o)
      BY <2>2, <2>4 DEF IsIceberg
    <3>2. UNCHANGED bergs
      BY <1>5, <2>4 DEF SubmitIceberg
    <3>3. QED  BY <2>3, <3>1, <3>2, BeginMatchingB DEF bergs
  <2>5. CASE ~invalid
    <3>1. IsIceberg(o) /\ DisplayQty(o, o.total_qty) = o.visible_qty
      BY <1>1, <2>2, <2>5 DEF IsIceberg, DisplayQty, MinOf
    <3>2. /\ icebergs_' = icebergs_ \cup {next_order_id_}
          /\ hidden_remaining' = [hidden_remaining EXCEPT ![next_order_id_] =
                                     o.total_qty - DisplayQty(o, o.total_qty)]
      BY <1>5, <2>1, <2>5 DEF SubmitIceberg
    <3>3. QED  BY <2>3, <3>1, <3>2, BeginMatchingB
  <2>6. QED  BY <2>4, <2>5
<1>6. QED  BY <1>2, <1>3, <1>4, <1>5

(* What a matching step is: one fill at the best opposite level *)
LEMMA MatchFacts ==
    ASSUME IInv, MatchStep
    PROVE  \E s \in Side, p \in Price, m \in Id, c \in Nat :
              /\ s = Opposite(order[taker].side) /\ IsBest(s, p) /\ p \in Reach
              /\ queue[s][p] # <<>>
              /\ FillEffect(s, p, m, c)
              /\ UNCHANGED <<next_order_id_, order, orders_index_, icebergs_, hidden_remaining,
                             pc, taker, total_trades_, recent_trades_>>
              /\ pc = "match" /\ taker \in Id /\ m # taker
              /\ Resting(m) /\ orders_index_[m] = <<s, p>> /\ ~Consumed(m)
<1>1. PICK s : s = Opposite(order[taker].side)
  OBVIOUS
<1>2. /\ taker \in Submitted /\ Submitted \subseteq Id /\ taker \in Id
      /\ orders_index_[taker] = NoLoc /\ remaining \in Nat /\ pc = "match"
      /\ order[taker] \in Order
  BY SubmittedType DEF IInv, TypeOK, CallCoherent, MatchStep
<1>3. s \in Side
  BY <1>1, <1>2, SideFacts DEF Order
<1>4. PICK p \in Reach : IsBest(s, p) /\ FillFront(p)
  BY <1>1 DEF MatchStep
<1>5. p \in Price /\ queue[s][p] # <<>>
  BY <1>1 DEF Reach, Levels
<1>6. PICK m \in Id, c \in Nat : FillEffect(s, p, m, c)
  <2>1. p \in Price /\ queue[s][p] # <<>> /\ FillFront(p) /\ remaining \in Nat
    BY <1>2, <1>4, <1>5, SMTT(40)
  <2>2. QED  BY <1>1, <1>3, <2>1, FillFrontFacts, BookFacts
<1>7. UNCHANGED <<next_order_id_, order, orders_index_, icebergs_, hidden_remaining,
                  pc, taker, total_trades_, recent_trades_>>
  BY <1>4 DEF FillFront, bergs, tape
<1>8. Contains(queue[s][p], m)
  BY <1>6 DEF FillEffect
<1>9. Resting(m) /\ orders_index_[m] = <<s, p>>
  BY <1>3, <1>5, <1>8, BookFacts DEF IndexCoversBook, Resting
<1>10. m # taker /\ ~Consumed(m)
  BY <1>2, <1>3, <1>9 DEF NoLoc, Side, IInv, ConsumedCoherent
<1>11. QED  BY <1>1, <1>2, <1>3, <1>4, <1>5, <1>6, <1>7, <1>9, <1>10

LEMMA MatchStepB == IInv /\ BInv /\ MatchStep => BInv'
<1> SUFFICES ASSUME IInv, BInv, MatchStep PROVE BInv'
  OBVIOUS
<1>1. PICK s \in Side, p \in Price, m \in Id, c \in Nat :
              /\ s = Opposite(order[taker].side) /\ IsBest(s, p)
              /\ queue[s][p] # <<>>
              /\ FillEffect(s, p, m, c)
              /\ UNCHANGED <<next_order_id_, order, orders_index_, icebergs_, hidden_remaining,
                             pc, taker, total_trades_, recent_trades_>>
              /\ pc = "match" /\ taker \in Id /\ m # taker
              /\ Resting(m) /\ orders_index_[m] = <<s, p>> /\ ~Consumed(m)
  BY MatchFacts
<1>2. CallNewest'
  BY <1>1 DEF BInv, CallNewest
<1>3. LevelsGood'
  BY <1>1, BookFacts, FillKeeps DEF BInv
<1>4. TapeComplete'
  <2>1. /\ trades' = Append(trades, [maker |-> m, taker |-> taker, price |-> p, qty |-> c])
        /\ filled' = [filled EXCEPT ![m] = @ + c, ![taker] = @ + c]
    BY <1>1 DEF FillEffect
  <2>2. QED  BY <1>1, <2>1, TapeFill DEF BInv, IInv
<1>5. BergsTracked'
  <2>1. /\ iceberg_consumed' = IF c = remaining_qty[m] /\ IsIceberg(order[m])
                                 THEN Append(iceberg_consumed, m) ELSE iceberg_consumed
        /\ \A t \in Side, l \in Price, i \in Id :
              Contains(queue'[t][l], i) <=>
                  Contains(queue[t][l], i) /\ ~(i = m /\ c = remaining_qty[m])
    BY <1>1 DEF FillEffect
  <2>2. \A i \in Id : Resting(i)' <=> Resting(i) /\ ~(i = m /\ c = remaining_qty[m])
    BY <2>1 DEF Resting
  <2>3. \A i \in Id : Consumed(i)' <=>
              Consumed(i) \/ (i = m /\ c = remaining_qty[m] /\ IsIceberg(order[m]))
    <3>1. iceberg_consumed \in Seq(Id)
      BY DEF IInv, TypeOK
    <3>2. \A i : Contains(Append(iceberg_consumed, m), i) <=> Contains(iceberg_consumed, i) \/ i = m
      BY <3>1, AppendFacts
    <3>3. QED  BY <2>1, <3>2 DEF Consumed
  <2>4. \A i \in Id : i \in icebergs_' <=>
            IsIceberg(order'[i]) /\ (Resting(i)' \/ Consumed(i)' \/ i = taker')
    <3> SUFFICES ASSUME NEW i \in Id
                 PROVE  i \in icebergs_ <=>
                            IsIceberg(order[i]) /\ (Resting(i)' \/ Consumed(i)' \/ i = taker)
      BY <1>1
    <3>1. i \in icebergs_ <=> IsIceberg(order[i]) /\ (Resting(i) \/ Consumed(i) \/ i = taker)
      BY DEF BInv, BergsTracked
    <3>2. CASE i = m
      BY <1>1, <2>2, <2>3, <3>1, <3>2
    <3>3. CASE i # m
      BY <2>2, <2>3, <3>1, <3>3
    <3>4. QED  BY <3>2, <3>3
  <2>5. \A i \in Id : Consumed(i)' => orders_index_'[i] # NoLoc
    <3>1. orders_index_[m] # NoLoc
      BY <1>1 DEF NoLoc, Side
    <3>2. QED  BY <1>1, <2>3, <3>1 DEF BInv, BergsTracked
  <2>6. \A i \in Id : hidden_remaining'[i] > 0 => i \in icebergs_'
    BY <1>1 DEF BInv, BergsTracked
  <2>7. QED  BY <1>1, <2>4, <2>5, <2>6, SMTT(40) DEF BergsTracked
<1>6. QED  BY <1>2, <1>3, <1>4, <1>5 DEF BInv

LEMMA EndMatchB == IInv /\ BInv /\ EndMatch => BInv'
<1> SUFFICES ASSUME IInv, BInv, EndMatch PROVE BInv'
  OBVIOUS
<1>1. PICK n, o : n = taker /\ o = order[taker]
  OBVIOUS
<1>2. /\ n \in Submitted /\ n \in Id /\ orders_index_[n] = NoLoc /\ remaining \in Nat
      /\ o.side \in Side /\ o.total_qty \in Nat /\ o.visible_qty \in Nat
      /\ o.type # "Market" => o.price \in Price
      /\ pc = "match" /\ n = next_order_id_ - 1 /\ next_order_id_ \in Int /\ Id \subseteq Int
  BY <1>1, SubmittedType, SMTT(40)
     DEF IInv, TypeOK, CallCoherent, EndMatch, Order, OrdersWellFormed, BInv, CallNewest, Id
<1>3. ~Resting(n)
  BY <1>2, UnindexedNotResting, BookFacts
<1>4. /\ UNCHANGED <<next_order_id_, order, icebergs_, hidden_remaining, taker, remaining,
                     iceberg_consumed, trades, total_trades_, recent_trades_, filled>>
      /\ pc' = "refresh"
  BY DEF EndMatch, bergs, call, tape
<1>5. CallNewest'
  BY <1>1, <1>2, <1>4 DEF CallNewest
<1>6. TapeComplete'
  BY <1>4, TapeSame DEF BInv
<1>7. \A i : Consumed(i)' <=> Consumed(i)
  BY <1>4 DEF Consumed
<1>8. CASE remaining > 0 /\ o.type # "Market"
  <2>1. PICK q : q = DisplayQty(o, remaining)
    OBVIOUS
  <2>2. q \in Nat
    BY <1>2, <2>1 DEF DisplayQty, MinOf
  <2>3. AddToLevel(n, o, q) /\ o.price \in Price
    BY <1>1, <1>2, <1>8, <2>1 DEF EndMatch
  <2>4. BookTypeOK /\ BookInjective /\ \A i \in Id : Resting(i) => i < n
    <3>1. ASSUME NEW i \in Id, Resting(i) PROVE i < n
      <4>1. i \in Submitted /\ i # n
        BY <1>3, <3>1, BookFacts
      <4>2. QED  BY <1>2, <4>1 DEF Submitted
    <3>2. QED  BY <3>1, BookFacts
  <2>5. LevelsGood'
    BY <1>2, <1>3, <1>4, <2>2, <2>3, <2>4, JoinKeeps DEF BInv
  <2>6. /\ orders_index_' = [orders_index_ EXCEPT ![n] = <<o.side, o.price>>]
        /\ \A s \in Side, p \in Price, i \in Id :
              Contains(queue'[s][p], i) <=>
                  Contains(queue[s][p], i) \/ (i = n /\ s = o.side /\ p = o.price)
    BY <1>2, <1>3, <2>2, <2>3, <2>4, AddToLevelFacts
  <2>7. Resting(n)' /\ \A i \in Id \ {n} : Resting(i)' <=> Resting(i)
    BY <1>2, <2>3, <2>6 DEF Resting
  <2>8. \A i \in Id : orders_index_[i] # NoLoc => orders_index_'[i] # NoLoc
    BY <1>2, <2>4, <2>6 DEF BookTypeOK
  <2>9. BergsTracked'
    <3>1. \A i \in Id : i \in icebergs_' <=>
              IsIceberg(order'[i]) /\ (Resting(i)' \/ Consumed(i)' \/ i = taker')
      BY <1>1, <1>4, <1>7, <2>7 DEF BInv, BergsTracked
    <3>2. \A i \in Id : Consumed(i)' => orders_index_'[i] # NoLoc
      BY <1>7, <2>8 DEF BInv, BergsTracked
    <3>3. \A i \in Id : hidden_remaining'[i] > 0 => i \in icebergs_'
      BY <1>4 DEF BInv, BergsTracked
    <3>4. Resting(taker)'
      <4>1. taker' = n
        BY <1>1, <1>4
      <4>2. QED  BY <2>7, <4>1 DEF Resting
    <3>5. QED  BY <3>1, <3>2, <3>3, <3>4 DEF BergsTracked
  <2>10. QED  BY <1>5, <1>6, <2>5, <2>9 DEF BInv
<1>9. CASE ~(remaining > 0 /\ o.type # "Market")
  <2>1. UNCHANGED <<queue, remaining_qty, total_quantity, orders_index_>>
    BY <1>1, <1>9 DEF EndMatch, book
  <2>2. LevelsGood'
    BY <1>4, <2>1, BookFacts, SameBookKeeps DEF BInv
  <2>3. \A i : Resting(i)' <=> Resting(i)
    BY <2>1 DEF Resting
  <2>4. BergsTracked'
    <3>1. \A i \in Id : i \in icebergs_' <=>
              IsIceberg(order'[i]) /\ (Resting(i)' \/ Consumed(i)' \/ i = taker')
      BY <1>4, <1>7, <2>3 DEF BInv, BergsTracked
    <3>2. QED  BY <1>1, <1>4, <1>7, <1>9, <2>1, <3>1 DEF BInv, BergsTracked
  <2>5. QED  BY <1>5, <1>6, <2>2, <2>4 DEF BInv
<1>10. QED  BY <1>8, <1>9

LEMMA RefreshExhaustedB == IInv /\ BInv /\ RefreshExhausted => BInv'
<1> SUFFICES ASSUME IInv, BInv, RefreshExhausted PROVE BInv'
  OBVIOUS
<1>1. iceberg_consumed # <<>> /\ iceberg_consumed' = Tail(iceberg_consumed) /\ pc = "refresh"
  BY DEF RefreshExhausted
<1>2. PICK id \in Id :
              /\ id = Head(iceberg_consumed)
              /\ iceberg_consumed' \in Seq(Id)
              /\ IsInjective(iceberg_consumed')
              /\ \A i \in Id : Consumed(i)' <=> Consumed(i) /\ i # id
              /\ Consumed(id) /\ ~Resting(id)
              /\ id \in Submitted \ {taker}
              /\ IsIceberg(order[id])
              /\ remaining_qty[id] = 0
              /\ taker \in Submitted
  BY <1>1, PopConsumedFacts
<1>3. /\ UNCHANGED <<next_order_id_, order, queue, remaining_qty, total_quantity,
                     hidden_remaining, pc, taker, remaining, trades,
                     total_trades_, recent_trades_, filled>>
      /\ icebergs_' = icebergs_ \ {id}
      /\ orders_index_' = IF id \in icebergs_ THEN [orders_index_ EXCEPT ![id] = NoLoc]
                                              ELSE orders_index_
      /\ id \notin icebergs_ \/ hidden_remaining[id] = 0
  BY <1>2 DEF RefreshExhausted, tape, hist
<1>4. \A i \in Id \ {id} : orders_index_'[i] = orders_index_[i]
  BY <1>3 DEF IInv, TypeOK
<1>5. \A i : Resting(i)' <=> Resting(i)
  BY <1>3 DEF Resting
<1>6. CallNewest'
  BY <1>3 DEF BInv, CallNewest
<1>7. TapeComplete'
  BY <1>3, TapeSame DEF BInv
<1>8. LevelsGood'
  BY <1>3, BookFacts, SameBookKeeps DEF BInv
<1>9. BergsTracked'
  <2>1. ASSUME NEW i \in Id
        PROVE  i \in icebergs_' <=>
                   IsIceberg(order'[i]) /\ (Resting(i)' \/ Consumed(i)' \/ i = taker')
    <3>1. CASE i = id
      BY <1>2, <1>3, <1>5, <3>1
    <3>2. CASE i # id
      <4>1. i \in icebergs_ <=> IsIceberg(order[i]) /\ (Resting(i) \/ Consumed(i) \/ i = taker)
        BY DEF BInv, BergsTracked
      <4>2. QED  BY <1>2, <1>3, <1>5, <3>2, <4>1
    <3>3. QED  BY <3>1, <3>2
  <2>2. ASSUME NEW i \in Id, hidden_remaining'[i] > 0 PROVE i \in icebergs_'
    <3>1. hidden_remaining[i] > 0 /\ i \in icebergs_
      BY <1>3, <2>2 DEF BInv, BergsTracked
    <3>2. i # id
      BY <1>3, <3>1
    <3>3. QED  BY <1>3, <3>1, <3>2
  <2>3. \A i \in Id : Consumed(i)' => orders_index_'[i] # NoLoc
    BY <1>2, <1>4 DEF BInv, BergsTracked
  <2>4. QED  BY <1>3, <1>5, <2>1, <2>2, <2>3 DEF BInv, BergsTracked
<1>10. QED  BY <1>6, <1>7, <1>8, <1>9 DEF BInv

LEMMA RefreshSliceB == IInv /\ BInv /\ RefreshSlice => BInv'
<1> SUFFICES ASSUME IInv, BInv, RefreshSlice PROVE BInv'
  OBVIOUS
<1>1. iceberg_consumed # <<>> /\ iceberg_consumed' = Tail(iceberg_consumed) /\ pc = "refresh"
  BY DEF RefreshSlice
<1>2. PICK id \in Id :
              /\ id = Head(iceberg_consumed)
              /\ iceberg_consumed' \in Seq(Id)
              /\ IsInjective(iceberg_consumed')
              /\ \A i \in Id : Consumed(i)' <=> Consumed(i) /\ i # id
              /\ Consumed(id) /\ ~Resting(id)
              /\ id \in Submitted \ {taker}
              /\ IsIceberg(order[id])
              /\ remaining_qty[id] = 0
              /\ taker \in Submitted
  BY <1>1, PopConsumedFacts
<1>3. PICK o, q : o = order[id] /\ q = MinOf(o.visible_qty, hidden_remaining[id])
  OBVIOUS
<1>4. /\ UNCHANGED <<next_order_id_, order, icebergs_, pc, taker, remaining, trades,
                     total_trades_, recent_trades_, filled>>
      /\ hidden_remaining' = [hidden_remaining EXCEPT ![id] = @ - q]
      /\ AddToLevel(id, o, q)
      /\ id \in icebergs_
  BY <1>2, <1>3 DEF RefreshSlice, tape, hist
<1>5. /\ o.side \in Side /\ o.visible_qty \in Nat /\ hidden_remaining \in [Id -> Nat] /\ q \in Nat
  BY <1>2, <1>3 DEF IInv, TypeOK, Order, MinOf
<1>6. o.price \in Price
  BY <1>2, <1>3 DEF IInv, OrdersWellFormed, IsIceberg
<1>7. BookTypeOK /\ BookInjective /\ IsIceberg(order'[id])
  BY <1>2, <1>4, BookFacts
<1>8. LevelsGood'
  BY <1>2, <1>4, <1>5, <1>6, <1>7, JoinKeeps DEF BInv
<1>9. /\ orders_index_' = [orders_index_ EXCEPT ![id] = <<o.side, o.price>>]
      /\ \A s \in Side, p \in Price, i \in Id :
            Contains(queue'[s][p], i) <=>
                Contains(queue[s][p], i) \/ (i = id /\ s = o.side /\ p = o.price)
  BY <1>2, <1>4, <1>5, <1>6, <1>7, AddToLevelFacts
<1>10. Resting(id)' /\ \A i \in Id \ {id} : Resting(i)' <=> Resting(i)
  BY <1>5, <1>6, <1>9 DEF Resting
<1>11. \A i \in Id \ {id} : /\ orders_index_'[i] = orders_index_[i]
                            /\ hidden_remaining'[i] = hidden_remaining[i]
  BY <1>4, <1>5, <1>7, <1>9 DEF BookTypeOK
<1>12. CallNewest'
  BY <1>4 DEF BInv, CallNewest
<1>13. TapeComplete'
  BY <1>4, TapeSame DEF BInv
<1>14. BergsTracked'
  <2>1. ASSUME NEW i \in Id
        PROVE  i \in icebergs_' <=>
                   IsIceberg(order'[i]) /\ (Resting(i)' \/ Consumed(i)' \/ i = taker')
    <3>1. CASE i = id
      BY <1>2, <1>4, <1>10, <3>1
    <3>2. CASE i # id
      <4>1. i \in icebergs_ <=> IsIceberg(order[i]) /\ (Resting(i) \/ Consumed(i) \/ i = taker)
        BY DEF BInv, BergsTracked
      <4>2. QED  BY <1>2, <1>4, <1>10, <3>2, <4>1
    <3>3. QED  BY <3>1, <3>2
  <2>2. \A i \in Id : hidden_remaining'[i] > 0 => i \in icebergs_'
    BY <1>4, <1>11 DEF BInv, BergsTracked
  <2>3. \A i \in Id : Consumed(i)' => orders_index_'[i] # NoLoc
    BY <1>2, <1>11 DEF BInv, BergsTracked
  <2>4. pc' = "refresh" /\ remaining' > 0 /\ order'[taker'].type # "Market" => Resting(taker)'
    <3>1. taker \in Id \ {id}
      BY <1>2, SubmittedType DEF IInv
    <3>2. pc = "refresh" /\ remaining > 0 /\ order[taker].type # "Market" => Resting(taker)
      BY DEF BInv, BergsTracked
    <3>3. PICK n : n = taker
      OBVIOUS
    <3>4. Resting(n)' <=> Resting(n)
      BY <1>10, <3>1, <3>3
    <3>5. taker' = n
      BY <1>4, <3>3
    <3>6. QED  BY <1>4, <3>2, <3>3, <3>4, <3>5
  <2>5. QED  BY <2>1, <2>2, <2>3, <2>4 DEF BergsTracked
<1>15. QED  BY <1>8, <1>12, <1>13, <1>14 DEF BInv

(* A call returns: its trades go to the tape, it has consumed no iceberg   *)
(* that is not refreshed yet, and a remainder it placed stands in the book. *)
LEMMA ReturnB ==
    ASSUME IInv, BInv, NEW types, Returning(types), NEW status, Return(status)
    PROVE  /\ UNCHANGED <<next_order_id_, order, iceberg_consumed, filled>>
           /\ pc = "refresh" /\ pc' = "idle" /\ taker' = 0 /\ 0 \notin Id
           /\ taker \in Id /\ order[taker].type \in types
           /\ (\A i : ~Consumed(i) /\ ~Consumed(i)')
           /\ CallNewest' /\ TapeComplete'
           /\ remaining > 0 /\ order[taker].type # "Market" => Resting(taker)
           /\ remaining = 0 => ~Resting(taker)
<1>1. /\ UNCHANGED <<next_order_id_, order, iceberg_consumed, filled>>
      /\ pc = "refresh" /\ pc' = "idle" /\ taker' = 0 /\ trades' = <<>>
      /\ RecordTrades /\ iceberg_consumed = <<>> /\ order[taker].type \in types
  BY DEF Returning, Return, hist
<1>2. \A i : ~Consumed(i) /\ ~Consumed(i)'
  BY <1>1 DEF Consumed, Contains
<1>3. CallNewest'
  BY <1>1 DEF CallNewest
<1>4. TapeComplete'
  BY <1>1, TapeRecord DEF BInv, IInv
<1>5. taker \in Id /\ 0 \notin Id
  BY <1>1, SubmittedType DEF IInv, CallCoherent, Id
<1>6. remaining > 0 /\ order[taker].type # "Market" => Resting(taker)
  BY <1>1 DEF BInv, BergsTracked
<1>7. remaining = 0 => ~Resting(taker)
  <2>1. PICK n : n = taker
    OBVIOUS
  <2>2. ASSUME remaining = 0 PROVE ~Resting(n)
    <3>1. orders_index_[n] = NoLoc
      BY <1>1, <2>1, <2>2 DEF IInv, CallCoherent
    <3>2. QED  BY <1>5, <2>1, <3>1, UnindexedNotResting, BookFacts
  <2>3. QED  BY <2>1, <2>2
<1>8. QED  BY <1>1, <1>2, <1>3, <1>4, <1>5, <1>6, <1>7

(* A return that leaves the book and the icebergs alone *)
LEMMA ReturnPlainB ==
    ASSUME IInv, BInv, NEW types, Returning(types), NEW status, Return(status),
           UNCHANGED <<book, bergs>>, IsIceberg(order[taker]) => remaining > 0
    PROVE  BInv'
<1>1. /\ UNCHANGED <<next_order_id_, order, iceberg_consumed, filled>>
      /\ pc = "refresh" /\ pc' = "idle" /\ taker' = 0 /\ 0 \notin Id
      /\ taker \in Id
      /\ (\A i : ~Consumed(i) /\ ~Consumed(i)')
      /\ CallNewest' /\ TapeComplete'
      /\ remaining > 0 /\ order[taker].type # "Market" => Resting(taker)
  BY ReturnB
<1>2. UNCHANGED <<queue, remaining_qty, total_quantity, orders_index_, icebergs_, hidden_remaining>>
  BY DEF book, bergs
<1>3. LevelsGood'
  BY <1>1, <1>2, BookFacts, SameBookKeeps DEF BInv
<1>4. \A i : Resting(i)' <=> Resting(i)
  BY <1>2 DEF Resting
<1>5. IsIceberg(order[taker]) => Resting(taker)
  <2>1. taker \in Submitted
    BY <1>1 DEF IInv, CallCoherent
  <2>2. IsIceberg(order[taker]) => order[taker].type # "Market"
    BY <2>1 DEF IInv, OrdersWellFormed, IsIceberg
  <2>3. QED  BY <1>1, <2>2
<1>6. BergsTracked'
  <2>1. ASSUME NEW i \in Id
        PROVE  i \in icebergs_' <=>
                   IsIceberg(order'[i]) /\ (Resting(i)' \/ Consumed(i)' \/ i = taker')
    <3>1. i \in icebergs_ <=> IsIceberg(order[i]) /\ (Resting(i) \/ Consumed(i) \/ i = taker)
      BY DEF BInv, BergsTracked
    <3>2. QED  BY <1>1, <1>2, <1>4, <1>5, <3>1
  <2>2. QED  BY <1>1, <1>2, <2>1 DEF BInv, BergsTracked
<1>7. QED  BY <1>1, <1>3, <1>6 DEF BInv

LEMMA OnlyIcebergs ==
    ASSUME IInv, taker \in Submitted, IsIceberg(order[taker])
    PROVE  order[taker].type = "Iceberg"
BY DEF IInv, OrdersWellFormed, IsIceberg

(* An indexed order is taken out of the book between calls, or with the    *)
(* return of the call that placed it.                                      *)
LEMMA RemovalB ==
    ASSUME IInv, BInv, NEW id \in Id, orders_index_[id] # NoLoc, RemoveFromBook(id),
           pc' = "idle", taker' = 0, 0 \notin Id, order' = order,
           (\A i : ~Consumed(i) /\ ~Consumed(i)'),
           taker = 0 \/ ~IsIceberg(order[taker]),
           CallNewest', TapeComplete'
    PROVE  BInv'
<1>1. LevelsGood'
  BY BookFacts, LeaveKeeps DEF BInv
<1>2. \A s \in Side, p \in Price, i \in Id :
          Contains(queue'[s][p], i) <=> Contains(queue[s][p], i) /\ i # id
  BY BookFacts, RemoveFromBookFacts
<1>3. \A i \in Id : Resting(i)' <=> Resting(i) /\ i # id
  BY <1>2 DEF Resting
<1>4. /\ icebergs_' = icebergs_ \ {id}
      /\ hidden_remaining' = [hidden_remaining EXCEPT ![id] = 0]
      /\ hidden_remaining \in [Id -> Nat]
  BY DEF RemoveFromBook, IInv, TypeOK
<1>5. BergsTracked'
  <2>1. ASSUME NEW i \in Id
        PROVE  i \in icebergs_' <=>
                   IsIceberg(order'[i]) /\ (Resting(i)' \/ Consumed(i)' \/ i = taker')
    <3>1. i \in icebergs_ <=> IsIceberg(order[i]) /\ (Resting(i) \/ i = taker)
      BY DEF BInv, BergsTracked
    <3>2. i = taker => ~IsIceberg(order[i])
      OBVIOUS
    <3>3. QED  BY <1>3, <1>4, <3>1, <3>2
  <2>2. ASSUME NEW i \in Id, hidden_remaining'[i] > 0 PROVE i \in icebergs_'
    <3>1. i # id /\ hidden_remaining[i] > 0
      BY <1>4, <2>2
    <3>2. QED  BY <1>4, <3>1 DEF BInv, BergsTracked
  <2>3. QED  BY <2>1, <2>2 DEF BergsTracked
<1>6. QED  BY <1>1, <1>5 DEF BInv

LEMMA ReturnIOCB == IInv /\ BInv /\ ReturnIOC => BInv'
<1> SUFFICES ASSUME IInv, BInv, ReturnIOC PROVE BInv'
  OBVIOUS
<1>1. PICK status : Return(status)
  BY DEF ReturnIOC
<1>2. Returning({"IOC"})
  BY DEF ReturnIOC
<1>3. /\ UNCHANGED <<next_order_id_, order, iceberg_consumed, filled>>
      /\ pc = "refresh" /\ pc' = "idle" /\ taker' = 0 /\ 0 \notin Id
      /\ taker \in Id /\ order[taker].type \in {"IOC"}
      /\ (\A i : ~Consumed(i) /\ ~Consumed(i)')
      /\ CallNewest' /\ TapeComplete'
  BY <1>1, <1>2, ReturnB
<1>4. ~IsIceberg(order[taker])
  BY <1>3, OnlyIcebergs DEF IInv, CallCoherent
<1>5. CASE remaining > 0
  <2>1. RemoveFromBook(taker)
    BY <1>5 DEF ReturnIOC
  <2>2. PICK n : n = taker
    OBVIOUS
  <2>3. orders_index_[n] = <<order[n].side, order[n].price>>
    BY <1>3, <1>5, <2>2 DEF IInv, CallCoherent
  <2>4. orders_index_[n] # NoLoc
    <3>1. order[n].side \in Side
      BY <1>3, <2>2 DEF IInv, TypeOK, Order
    <3>2. QED  BY <2>3, <3>1 DEF NoLoc, Side
  <2>5. n \in Id /\ RemoveFromBook(n) /\ order' = order
    BY <1>3, <2>1, <2>2
  <2>6. QED  BY <1>3, <1>4, <2>4, <2>5, RemovalB
<1>6. CASE ~(remaining > 0)
  <2>1. UNCHANGED <<book, bergs>>
    BY <1>6 DEF ReturnIOC
  <2>2. QED  BY <1>1, <1>2, <1>4, <2>1, ReturnPlainB
<1>7. QED  BY <1>5, <1>6

LEMMA ReturnStandardB == IInv /\ BInv /\ (ReturnStandard \/ ReturnFOK) => BInv'
<1> SUFFICES ASSUME IInv, BInv, ReturnStandard \/ ReturnFOK PROVE BInv'
  OBVIOUS
<1>1. PICK types, status : /\ Returning(types) /\ Return(status) /\ "Iceberg" \notin types
                           /\ UNCHANGED <<book, bergs>>
  BY DEF ReturnStandard, ReturnFOK
<1>2. taker \in Submitted /\ order[taker].type \in types
  BY <1>1 DEF Returning, IInv, CallCoherent
<1>3. ~IsIceberg(order[taker])
  BY <1>1, <1>2, OnlyIcebergs
<1>4. QED  BY <1>1, <1>3, ReturnPlainB

LEMMA ReturnIcebergB == IInv /\ BInv /\ ReturnIceberg => BInv'
<1> SUFFICES ASSUME IInv, BInv, ReturnIceberg PROVE BInv'
  OBVIOUS
<1>1. PICK status : Return(status)
  BY DEF ReturnIceberg
<1>2. Returning({"Iceberg"}) /\ remaining \in Nat
  BY DEF ReturnIceberg, IInv, TypeOK
<1>3. /\ UNCHANGED <<next_order_id_, order, iceberg_consumed, filled>>
      /\ pc' = "idle" /\ taker' = 0 /\ 0 \notin Id /\ taker \in Id
      /\ (\A i : ~Consumed(i) /\ ~Consumed(i)')
      /\ CallNewest' /\ TapeComplete'
      /\ remaining = 0 => ~Resting(taker)
  BY <1>1, <1>2, ReturnB
<1>4. CASE remaining = 0
  <2>1. /\ UNCHANGED <<queue, remaining_qty, total_quantity, orders_index_>>
        /\ icebergs_' = icebergs_ \ {taker}
        /\ hidden_remaining' = [hidden_remaining EXCEPT ![taker] = 0]
        /\ hidden_remaining \in [Id -> Nat]
    BY <1>4 DEF ReturnIceberg, book, IInv, TypeOK
  <2>2. LevelsGood'
    BY <1>3, <2>1, BookFacts, SameBookKeeps DEF BInv
  <2>3. \A i : Resting(i)' <=> Resting(i)
    BY <2>1 DEF Resting
  <2>4. BergsTracked'
    <3>1. ASSUME NEW i \in Id
          PROVE  i \in icebergs_' <=>
                     IsIceberg(order'[i]) /\ (Resting(i)' \/ Consumed(i)' \/ i = taker')
      <4>1. i \in icebergs_ <=> IsIceberg(order[i]) /\ (Resting(i) \/ i = taker)
        BY <1>3 DEF BInv, BergsTracked
      <4>2. i = taker => ~Resting(i)
        BY <1>3, <1>4
      <4>3. QED  BY <1>3, <2>1, <2>3, <4>1, <4>2
    <3>2. ASSUME NEW i \in Id, hidden_remaining'[i] > 0 PROVE i \in icebergs_'
      <4>1. i # taker /\ hidden_remaining[i] > 0
        BY <1>3, <2>1, <3>2
      <4>2. QED  BY <2>1, <4>1 DEF BInv, BergsTracked
    <3>3. QED  BY <1>3, <3>1, <3>2 DEF BergsTracked
  <2>5. QED  BY <1>3, <2>2, <2>4 DEF BInv
<1>5. CASE remaining # 0
  <2>1. UNCHANGED <<book, bergs>> /\ remaining > 0
    BY <1>2, <1>5 DEF ReturnIceberg
  <2>2. QED  BY <1>1, <1>2, <2>1, ReturnPlainB
<1>6. QED  BY <1>4, <1>5

LEMMA CancelFoundB == \A id \in Id : IInv /\ BInv /\ CancelFound(id) => BInv'
<1> SUFFICES ASSUME NEW id \in Id, IInv, BInv, CancelFound(id) PROVE BInv'
  OBVIOUS
<1>1. /\ UNCHANGED <<next_order_id_, order, pc, taker, remaining, iceberg_consumed, trades,
                     total_trades_, recent_trades_, filled>>
      /\ pc = "idle" /\ orders_index_[id] # NoLoc /\ RemoveFromBook(id)
  BY DEF CancelFound, call, tape, hist
<1>2. /\ taker = 0 /\ 0 \notin Id
      /\ \A i : ~Consumed(i) /\ ~Consumed(i)'
  BY <1>1 DEF IInv, CallCoherent, Consumed, Contains, Id
<1>3. CallNewest' /\ TapeComplete'
  BY <1>1, TapeSame DEF BInv, CallNewest
<1>4. QED  BY <1>1, <1>2, <1>3, RemovalB

(* Steps that change neither the book nor a call *)
LEMMA IdleB ==
    ASSUME IInv, BInv, TapeComplete',
           UNCHANGED <<next_order_id_, order, queue, remaining_qty, total_quantity, orders_index_,
                       icebergs_, hidden_remaining, pc, taker, remaining, iceberg_consumed, trades>>
    PROVE  BInv'
<1>1. LevelsGood'
  BY BookFacts, SameBookKeeps DEF BInv
<1>2. \A i : (Resting(i)' <=> Resting(i)) /\ (Consumed(i)' <=> Consumed(i))
  BY DEF Resting, Consumed
<1>3. CallNewest'
  BY DEF BInv, CallNewest
<1>4. BergsTracked'
  <2>1. Resting(taker)' <=> Resting(taker)
    BY DEF Resting
  <2>2. QED  BY <1>2, <2>1 DEF BInv, BergsTracked
<1>5. QED  BY <1>1, <1>3, <1>4 DEF BInv

LEMMA BInvNext == IInv /\ BInv /\ [Next]_vars => BInv'
<1> SUFFICES ASSUME IInv, BInv, [Next]_vars PROVE BInv'
  OBVIOUS
<1>1. CASE Submit
  BY <1>1, SubmitB
<1>2. CASE MatchStep
  BY <1>2, MatchStepB
<1>3. CASE EndMatch
  BY <1>3, EndMatchB
<1>4. CASE RefreshExhausted
  BY <1>4, RefreshExhaustedB
<1>5. CASE RefreshSlice
  BY <1>5, RefreshSliceB
<1>6. CASE ReturnStandard \/ ReturnFOK
  BY <1>6, ReturnStandardB
<1>7. CASE ReturnIOC
  BY <1>7, ReturnIOCB
<1>8. CASE ReturnIceberg
  BY <1>8, ReturnIcebergB
<1>9. ASSUME NEW id \in Id, CancelFound(id) PROVE BInv'
  BY <1>9, CancelFoundB
<1>10. ASSUME NEW id \in Id, CancelUnknown(id) PROVE BInv'
  <2>1. TapeComplete'
    BY <1>10, TapeSame DEF CancelUnknown, tape, hist, call, BInv
  <2>2. QED  BY <1>10, <2>1, IdleB DEF CancelUnknown, book, bergs, call
<1>11. CASE ClearRecentTrades
  <2>1. TapeComplete'
    BY <1>11, TapeClear DEF ClearRecentTrades, hist, call, BInv, IInv
  <2>2. QED  BY <1>11, <2>1, IdleB DEF ClearRecentTrades, book, bergs, call
<1>12. CASE UNCHANGED vars
  <2>1. TapeComplete'
    BY <1>12, TapeSame DEF vars, tape, hist, call, BInv
  <2>2. QED  BY <1>12, <2>1, IdleB DEF vars, book, bergs, call
<1>13. QED
  BY <1>1, <1>2, <1>3, <1>4, <1>5, <1>6, <1>7, <1>8, <1>9, <1>10, <1>11, <1>12 DEF Next, CancelOrder, Engine

LEMMA Both == Spec => [](IInv /\ BInv)
<1>1. Init => IInv /\ BInv
  BY InitInv, BInvInit
<1>2. IInv /\ BInv /\ [Next]_vars => (IInv /\ BInv)'
  BY NextInv, BInvNext
<1>3. QED  BY <1>1, <1>2, PTL DEF Spec

(* OrderBook's iceberg table and its book agree: no iceberg's hidden       *)
(* quantity is left behind untracked or without an index entry, and no     *)
(* iceberg out of the book stays tracked.                                  *)
THEOREM IcebergsNeverStranded == Spec => []IcebergsBacked
<1>1. ASSUME IInv, BInv PROVE IcebergsBacked
  <2>1. pc = "idle" => \A i \in Id : i \in icebergs_ <=> IsIceberg(order[i]) /\ Resting(i)
    <3>1. pc = "idle" => taker = 0 /\ (\A i : ~Consumed(i)) /\ 0 \notin Id
      BY <1>1 DEF IInv, CallCoherent, Consumed, Contains, Id
    <3>2. QED  BY <1>1, <3>1 DEF BInv, BergsTracked
  <2>2. \A i \in Id : hidden_remaining[i] > 0 => i \in icebergs_
    BY <1>1 DEF BInv, BergsTracked
  <2>3. ASSUME NEW i \in icebergs_ \ {taker} PROVE orders_index_[i] # NoLoc
    <3>1. i \in Id /\ (Resting(i) \/ Consumed(i))
      BY <1>1 DEF IInv, TypeOK, BInv, BergsTracked
    <3>2. CASE Resting(i)
      BY <1>1, <3>1, <3>2, UnindexedNotResting, BookFacts
    <3>3. CASE Consumed(i)
      BY <1>1, <3>1, <3>3 DEF BInv, BergsTracked
    <3>4. QED  BY <3>1, <3>2, <3>3
  <2>4. QED  BY <2>1, <2>2, <2>3 DEF IcebergsBacked
<1>2. IInv /\ BInv => IcebergsBacked
  BY <1>1
<1>3. QED  BY <1>2, Both, PTL

(* PriceLevel::total_quantity, which availableQty and the snapshots read   *)
(* instead of the orders, never drifts from the orders of its level.       *)
THEOREM LevelTotalsRight == Spec => []LevelTotals
<1>1. BInv => LevelTotals
  BY DEF BInv, LevelsGood
<1>2. QED  BY <1>1, Both, PTL

(* recordTrades: as long as nothing was evicted or cleared, the tape tells *)
(* every order's fills exactly.                                            *)
THEOREM TapeTellsEveryFill == Spec => []TapeAccountsForFills
<1>1. ASSUME IInv, BInv PROVE TapeAccountsForFills
  <2> SUFFICES ASSUME pc = "idle", Len(recent_trades_) = total_trades_, NEW i \in Submitted
               PROVE  filled[i] = SumOf(Shares(i, recent_trades_))
    BY DEF TapeAccountsForFills
  <2>1. i \in Id /\ trades = <<>> /\ recent_trades_ \in Seq(Trade)
    BY <1>1, BookFacts DEF BInv, CallNewest, IInv, TypeOK
  <2>2. filled[i] = SumOf(Shares(i, recent_trades_)) + SumOf(Shares(i, trades))
    BY <1>1, <2>1 DEF BInv, TapeComplete, OnTape
  <2>3. SumOf(Shares(i, trades)) = 0 /\ SumOf(Shares(i, recent_trades_)) \in Int
    BY <2>1, SharesEmpty, SharesSum
  <2>4. QED  BY <2>2, <2>3
<1>2. IInv /\ BInv => TapeAccountsForFills
  BY <1>1
<1>3. QED  BY <1>2, Both, PTL

(* Price-time priority, over every history of fills, cancels and refreshes: *)
(* a maker is filled only when no order of its side rests at a better      *)
(* price, and no older one that never lost its place at its own price.     *)
THEOREM PriceTimePriorityHolds == Spec => PriceTimePriority
<1>1. ASSUME IInv, BInv, [Next]_vars, NEW m \in Id \ {taker}, filled'[m] > filled[m],
             NEW x \in Id \ {m}, Resting(x), order[x].side = order[m].side
      PROVE  /\ ~Better(order[m].side, order[x].price, order[m].price)
             /\ order[x].price = order[m].price /\ ~IsIceberg(order[x]) /\ ~IsIceberg(order[m])
                   => m < x
  <2>1. MatchStep
    <3>1. filled' # filled
      BY <1>1 DEF IInv, TypeOK
    <3>2. CASE Submit
      <4>1. filled' = filled
        BY <3>2 DEF Submit, SubmitOrder, SubmitPostOnly, SubmitFOK, SubmitStandard, SubmitIceberg,
                    ReturnAtOnce, BeginMatching, hist
      <4>2. QED  BY <3>1, <4>1
    <3>3. CASE Engine /\ ~MatchStep
      BY <3>1, <3>3 DEF Engine, EndMatch, RefreshExhausted, RefreshSlice, ReturnStandard, ReturnFOK,
                        ReturnIOC, ReturnIceberg, Return, hist
    <3>4. CASE \E id \in Id : CancelOrder(id)
      BY <3>1, <3>4 DEF CancelOrder, CancelFound, CancelUnknown, hist
    <3>5. CASE ClearRecentTrades \/ UNCHANGED vars
      BY <3>1, <3>5 DEF ClearRecentTrades, vars, hist
    <3>6. QED  BY <1>1, <3>2, <3>3, <3>4, <3>5 DEF Next
  <2>2. PICK s \in Side, p \in Price, n \in Id, c \in Nat :
              /\ IsBest(s, p) /\ queue[s][p] # <<>>
              /\ FillEffect(s, p, n, c)
              /\ taker \in Id /\ orders_index_[n] = <<s, p>>
    BY <1>1, <2>1, MatchFacts
  <2>3. /\ filled' = [filled EXCEPT ![n] = @ + c, ![taker] = @ + c]
        /\ n = Head(queue[s][p]) /\ Contains(queue[s][p], n)
    BY <2>2 DEF FillEffect
  <2>4. n = m
    <3>1. filled \in [Id -> Nat]
      BY <1>1 DEF IInv, TypeOK
    <3>2. QED  BY <1>1, <2>2, <2>3, <3>1
  <2>5. order[m].side = s /\ order[m].price = p
    BY <1>1, <2>2, <2>3, <2>4, BookFacts DEF IndexCoversBook
  <2>6. PICK l \in Price : Contains(queue[s][l], x) /\ order[x].price = l
    BY <1>1, <2>5, BookFacts DEF Resting, IndexCoversBook
  <2>7. ~Better(s, l, p)
    <3>1. l \in Levels(s)
      BY <2>6 DEF Levels, Contains
    <3>2. QED  BY <2>2, <3>1 DEF IsBest
  <2>8. ASSUME l = p, ~IsIceberg(order[x]), ~IsIceberg(order[m]) PROVE m < x
    <3>1. queue[s][p] \in Seq(Id) /\ InOrder(queue[s][p], order)
      BY <1>1, BookFacts DEF BookTypeOK, BInv, LevelsGood, OldestFirst
    <3>2. PICK q : q = queue[s][p]
      OBVIOUS
    <3>3. /\ q \in Seq(Id) /\ q # <<>> /\ DOMAIN q = 1 .. Len(q) /\ Len(q) \in Nat /\ q[1] = m
      BY <2>2, <2>3, <2>4, <3>1, <3>2
    <3>4. PICK k \in DOMAIN q : q[k] = x
      BY <2>6, <2>8, <3>2, <3>3 DEF Contains
    <3>5. 1 \in DOMAIN q /\ 1 < k
      BY <1>1, <3>3, <3>4
    <3>6. QED  BY <2>8, <3>1, <3>2, <3>3, <3>4, <3>5 DEF InOrder
  <2>9. QED  BY <2>5, <2>6, <2>7, <2>8
<1>2. IInv /\ BInv /\ [Next]_vars =>
          (\A m \in Id \ {taker} : filled'[m] > filled[m] =>
             \A x \in Id \ {m} : Resting(x) /\ order[x].side = order[m].side =>
                /\ ~Better(order[m].side, order[x].price, order[m].price)
                /\ order[x].price = order[m].price /\ ~IsIceberg(order[x]) /\ ~IsIceberg(order[m])
                     => m < x)
  BY <1>1
<1>3. QED  BY <1>2, Both, PTL DEF Spec, PriceTimePriority
=============================================================================
