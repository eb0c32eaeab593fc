-------------------------- MODULE ExchangeProofs --------------------------
(***************************************************************************)
(* The matching engine against what it promises: a fill-or-kill order is   *)
(* turned away only when the liquidity is short, and without icebergs      *)
(* every step of the engine is a step of Exchange or none of it, for every *)
(* number of orders, prices, quantities and widths in which the sums of    *)
(* the code fit.                                                           *)
(*                                                                         *)
(* The sums of the code and of Exchange are folds over sets; the first     *)
(* section says what such a fold computes.                                 *)
(***************************************************************************)
EXTENDS EngineRefinement, MatchingEngineProofs, FiniteSetTheorems

(* Induction over a finite set S: G is the set of the subsets of S that    *)
(* have what is to be shown.                                               *)
LEMMA FiniteInduction ==
    ASSUME NEW S, IsFiniteSet(S), NEW G,
           {} \in G,
           \A T \in SUBSET S : T # {} /\ (\A x \in T : T \ {x} \in G) => T \in G
    PROVE  S \in G
<1> DEFINE Bad == {n \in Nat : \E T \in SUBSET S : T \notin G /\ Cardinality(T) = n}
<1>1. SUFFICES ASSUME S \notin G PROVE FALSE
  OBVIOUS
<1>2. \A T \in SUBSET S : IsFiniteSet(T) /\ Cardinality(T) \in Nat
  BY FS_Subset, FS_CardinalityType
<1>3. Bad # {} /\ Bad \subseteq Nat
  <2>1. Cardinality(S) \in Nat /\ S \in SUBSET S
    BY <1>2
  <2>2. Cardinality(S) \in Bad
    BY <1>1, <2>1
  <2> QED
    BY <2>2
<1>4. PICK n \in Bad : \A m \in Bad : n <= m
  <2> HIDE DEF Bad
  <2> QED
    BY <1>3, Least, Zenon
<1>5. PICK T \in SUBSET S : T \notin G /\ Cardinality(T) = n
  OBVIOUS
<1>6. PICK x \in T : T \ {x} \notin G
  BY <1>5
<1>7. T \ {x} \in SUBSET S /\ Cardinality(T \ {x}) = n - 1
  BY <1>2, <1>5, FS_RemoveElement
<1>8. Cardinality(T \ {x}) \in Bad
  BY <1>2, <1>6, <1>7
<1>9. n \in Nat /\ n - 1 \in Bad
  BY <1>7, <1>8
<1> HIDE DEF Bad
<1>10. n <= n - 1
  BY <1>4, <1>9
<1> QED
  BY <1>9, <1>10

-----------------------------------------------------------------------------
(* Sums over sets: what MapThenSumSet computes *)

(* The element its fold takes first *)
First(T) == CHOOSE x \in T : TRUE

IsFold(g, f, S) ==
    g = [T \in SUBSET S |-> IF T = {} THEN 0 ELSE f[First(T)] + g[T \ {First(T)}]]
FoldOf(f, S) == CHOOSE g : IsFold(g, f, S)
SetSum(f, S) == FoldOf(f, S)[S]

LEMMA SumIsSetSum ==
    ASSUME NEW f, NEW S
    PROVE  MapThenSumSet(LAMBDA x : f[x], S) = SetSum(f, S)
BY Zenon DEF MapThenSumSet, MapThenFoldSet, SetSum, FoldOf, IsFold, First

LEMMA FirstFacts ==
    ASSUME NEW T, T # {}
    PROVE  First(T) \in T
BY DEF First

(* g is the fold on the subsets of at most n elements. *)
Small(S, n) == {T \in SUBSET S : Cardinality(T) <= n}
IsFoldUpTo(g, f, S, n) ==
    g = [T \in Small(S, n) |-> IF T = {} THEN 0 ELSE f[First(T)] + g[T \ {First(T)}]]

LEMMA SmallFacts ==
    ASSUME NEW S, IsFiniteSet(S), NEW n \in Nat, NEW T \in Small(S, n + 1), T # {}
    PROVE  T \ {First(T)} \in Small(S, n)
<1>1. IsFiniteSet(T) /\ Cardinality(T) \in Nat /\ First(T) \in T
  BY FS_Subset, FS_CardinalityType, FirstFacts DEF Small
<1>2. Cardinality(T \ {First(T)}) = Cardinality(T) - 1
  BY <1>1, FS_RemoveElement
<1> QED
  BY <1>1, <1>2 DEF Small

LEMMA FoldGrows ==
    ASSUME NEW S, IsFiniteSet(S), NEW n \in Nat, NEW f, NEW g, IsFoldUpTo(g, f, S, n)
    PROVE  \E h : IsFoldUpTo(h, f, S, n + 1)
<1> DEFINE h == [T \in Small(S, n + 1) |-> IF T = {} THEN 0 ELSE f[First(T)] + g[T \ {First(T)}]]
<1>1. Small(S, n) \subseteq Small(S, n + 1)
  <2>1. \A T \in SUBSET S : Cardinality(T) \in Nat
    BY FS_Subset, FS_CardinalityType
  <2> QED
    BY <2>1 DEF Small
<1>2. \A T \in Small(S, n) : g[T] = IF T = {} THEN 0 ELSE f[First(T)] + g[T \ {First(T)}]
  BY Zenon DEF IsFoldUpTo
<1>3. \A T \in Small(S, n) : h[T] = g[T]
  BY <1>1, <1>2, Zenon
<1>4. \A T \in Small(S, n + 1) : T # {} => h[T \ {First(T)}] = g[T \ {First(T)}]
  <2> HIDE DEF h
  <2> QED
    BY <1>3, SmallFacts, Zenon
<1>5. \A T \in Small(S, n + 1) :
         (IF T = {} THEN 0 ELSE f[First(T)] + g[T \ {First(T)}])
           = (IF T = {} THEN 0 ELSE f[First(T)] + h[T \ {First(T)}])
  <2> HIDE DEF h
  <2> QED
    BY <1>4, Zenon
<1>6. h = [T \in Small(S, n + 1) |-> IF T = {} THEN 0 ELSE f[First(T)] + h[T \ {First(T)}]]
  <2>1. h = [T \in Small(S, n + 1) |-> IF T = {} THEN 0 ELSE f[First(T)] + g[T \ {First(T)}]]
    OBVIOUS
  <2> HIDE DEF h
  <2> QED
    BY <1>5, <2>1, Zenon
<1> QED
  BY <1>6, Zenon DEF IsFoldUpTo

LEMMA FoldExists ==
    ASSUME NEW S, IsFiniteSet(S), NEW f
    PROVE  IsFold(FoldOf(f, S), f, S)
<1> DEFINE Bad == {n \in Nat : ~ \E g : IsFoldUpTo(g, f, S, n)}
<1>1. Bad = {}
  <2>1. SUFFICES ASSUME Bad # {} PROVE FALSE
    OBVIOUS
  <2>2. PICK n \in Bad : \A m \in Bad : n <= m
    <3>1. Bad \subseteq Nat
      OBVIOUS
    <3> HIDE DEF Bad
    <3> QED
      BY <2>1, <3>1, Least, Zenon
  <2>3. n \in Nat /\ ~ \E g : IsFoldUpTo(g, f, S, n)
    OBVIOUS
  <2>4. CASE n = 0
    <3>1. \A T \in Small(S, 0) : T = {}
      <4>1. ASSUME NEW T \in SUBSET S, Cardinality(T) <= 0 PROVE T = {}
        <5>1. IsFiniteSet(T) /\ Cardinality(T) \in Nat
          BY FS_Subset, FS_CardinalityType
        <5>2. Cardinality(T) = 0
          BY <4>1, <5>1
        <5> QED
          BY <5>1, <5>2, FS_EmptySet
      <4> QED
        BY <4>1 DEF Small
    <3> DEFINE g == [T \in Small(S, 0) |-> 0]
    <3>2. g = [T \in Small(S, 0) |-> IF T = {} THEN 0 ELSE f[First(T)] + g[T \ {First(T)}]]
      BY <3>1, Zenon
    <3>3. IsFoldUpTo(g, f, S, 0)
      BY <3>2, Zenon DEF IsFoldUpTo
    <3> QED
      BY <2>3, <2>4, <3>3, Zenon
  <2>5. CASE n # 0
    <3>1. n - 1 \in Nat /\ ~(n <= n - 1) /\ (n - 1) + 1 = n
      BY <2>3, <2>5
    <3>2. n - 1 \notin Bad
      <4> HIDE DEF Bad
      <4> QED
        BY <2>2, <3>1, Zenon
    <3>3. PICK g : IsFoldUpTo(g, f, S, n - 1)
      BY <3>1, <3>2, Zenon
    <3>4. \E h : IsFoldUpTo(h, f, S, (n - 1) + 1)
      BY <3>1, <3>3, FoldGrows, Zenon
    <3> QED
      BY <2>3, <3>1, <3>4, Zenon
  <2> QED
    BY <2>4, <2>5
<1>2. Cardinality(S) \in Nat /\ Small(S, Cardinality(S)) = SUBSET S
  <2>1. \A T \in SUBSET S : Cardinality(T) <= Cardinality(S)
    BY FS_Subset, Zenon
  <2> QED
    BY <2>1, FS_CardinalityType DEF Small
<1>3. PICK g : IsFoldUpTo(g, f, S, Cardinality(S))
  BY <1>1, <1>2, Zenon
<1>4. IsFold(g, f, S)
  BY <1>2, <1>3, Zenon DEF IsFold, IsFoldUpTo
<1> QED
  BY <1>4, Zenon DEF FoldOf

(* The fold on a set agrees with the fold on a subset. *)
LEMMA FoldAgrees ==
    ASSUME NEW S, IsFiniteSet(S), NEW f, NEW T \in SUBSET S
    PROVE  FoldOf(f, S)[T] = SetSum(f, T)
<1> DEFINE g == FoldOf(f, S)
           h == FoldOf(f, T)
           G == {U \in SUBSET T : g[U] = h[U]}
<1>1. IsFiniteSet(T)
  BY FS_Subset
<1>2. IsFold(g, f, S) /\ IsFold(h, f, T)
  BY <1>1, FoldExists, Zenon
<1> HIDE DEF g, h
<1>3. \A U \in SUBSET T : /\ g[U] = IF U = {} THEN 0 ELSE f[First(U)] + g[U \ {First(U)}]
                          /\ h[U] = IF U = {} THEN 0 ELSE f[First(U)] + h[U \ {First(U)}]
  <2>1. \A U \in SUBSET S : g[U] = IF U = {} THEN 0 ELSE f[First(U)] + g[U \ {First(U)}]
    BY <1>2, Zenon DEF IsFold
  <2>2. \A U \in SUBSET T : h[U] = IF U = {} THEN 0 ELSE f[First(U)] + h[U \ {First(U)}]
    BY <1>2, Zenon DEF IsFold
  <2> QED
    BY <2>1, <2>2
<1>4. {} \in G
  BY <1>3
<1>5. ASSUME NEW U \in SUBSET T, U # {}, \A x \in U : U \ {x} \in G
      PROVE  U \in G
  <2>1. First(U) \in U
    BY <1>5, FirstFacts
  <2>2. g[U \ {First(U)}] = h[U \ {First(U)}]
    BY <1>5, <2>1
  <2> QED
    BY <1>3, <1>5, <2>2
<1>6. T \in G
  <2> HIDE DEF G
  <2> QED
    BY <1>1, <1>4, <1>5, FiniteInduction
<1> QED
  BY <1>6 DEF g, h, SetSum

LEMMA SetSumEmpty ==
    ASSUME NEW f
    PROVE  SetSum(f, {}) = 0
<1>1. IsFold(FoldOf(f, {}), f, {})
  BY FS_EmptySet, FoldExists, Zenon
<1> DEFINE g == FoldOf(f, {})
<1>2. g[{}] = IF {} = {} THEN 0 ELSE f[First({})] + g[{} \ {First({})}]
  <2>1. {} \in SUBSET {}
    OBVIOUS
  <2> HIDE DEF g
  <2> QED
    BY <1>1, <2>1, Zenon DEF IsFold, g
<1> QED
  BY <1>2 DEF SetSum

LEMMA SetSumFirst ==
    ASSUME NEW S, IsFiniteSet(S), S # {}, NEW f
    PROVE  SetSum(f, S) = f[First(S)] + SetSum(f, S \ {First(S)})
<1> DEFINE g == FoldOf(f, S)
<1>1. IsFold(g, f, S)
  BY FoldExists, Zenon
<1>2. g[S \ {First(S)}] = SetSum(f, S \ {First(S)})
  BY FoldAgrees
<1> HIDE DEF g
<1>3. g[S] = IF S = {} THEN 0 ELSE f[First(S)] + g[S \ {First(S)}]
  <2>1. S \in SUBSET S
    OBVIOUS
  <2> QED
    BY <1>1, <2>1, Zenon DEF IsFold
<1> QED
  BY <1>2, <1>3 DEF g, SetSum

(* A sum of integers is an integer; one of naturals is natural.            *)
LEMMA SetSumType ==
    ASSUME NEW S, IsFiniteSet(S), NEW f
    PROVE  /\ (\A x \in S : f[x] \in Int) => SetSum(f, S) \in Int
           /\ (\A x \in S : f[x] \in Nat) => SetSum(f, S) \in Nat
<1>1. ASSUME NEW N, N = Int \/ N = Nat, \A x \in S : f[x] \in N
      PROVE  SetSum(f, S) \in N
  <2> DEFINE G == {T \in SUBSET S : SetSum(f, T) \in N}
  <2>1. {} \in G
    BY <1>1, SetSumEmpty
  <2>2. ASSUME NEW T \in SUBSET S, T # {}, \A x \in T : T \ {x} \in G
        PROVE  T \in G
    <3>1. IsFiniteSet(T) /\ First(T) \in T
      BY <2>2, FS_Subset, FirstFacts
    <3>2. SetSum(f, T) = f[First(T)] + SetSum(f, T \ {First(T)})
      BY <2>2, <3>1, SetSumFirst
    <3>3. f[First(T)] \in N /\ SetSum(f, T \ {First(T)}) \in N
      BY <1>1, <2>2, <3>1
    <3> QED
      BY <1>1, <3>2, <3>3
  <2> HIDE DEF G
  <2>3. S \in G
    BY <2>1, <2>2, FiniteInduction
  <2> QED
    BY <2>3 DEF G
<1> QED
  BY <1>1

(* Any element may be taken first. *)
LEMMA SetSumRemove ==
    ASSUME NEW S, IsFiniteSet(S), NEW f, \A x \in S : f[x] \in Int, NEW e \in S
    PROVE  SetSum(f, S) = f[e] + SetSum(f, S \ {e})
<1> DEFINE G == {T \in SUBSET S : \A x \in T : SetSum(f, T) = f[x] + SetSum(f, T \ {x})}
<1>1. {} \in G
  OBVIOUS
<1>2. ASSUME NEW T \in SUBSET S, T # {}, \A x \in T : T \ {x} \in G
      PROVE  T \in G
  <2>1. IsFiniteSet(T) /\ First(T) \in T
    BY <1>2, FS_Subset, FirstFacts
  <2> DEFINE c == First(T)
  <2>2. SetSum(f, T) = f[c] + SetSum(f, T \ {c})
    BY <1>2, <2>1, SetSumFirst
  <2>3. ASSUME NEW x \in T
        PROVE  SetSum(f, T) = f[x] + SetSum(f, T \ {x})
    <3>1. CASE x = c
      BY <2>2, <3>1
    <3>2. CASE x # c
      <4>1. /\ x \in T \ {c} /\ c \in T \ {x} /\ (T \ {c}) \ {x} = (T \ {x}) \ {c}
            /\ T \ {c} \in G /\ T \ {x} \in G
        BY <1>2, <2>1, <3>2
      <4>2. SetSum(f, T \ {c}) = f[x] + SetSum(f, (T \ {c}) \ {x})
        BY <4>1
      <4>3. SetSum(f, T \ {x}) = f[c] + SetSum(f, (T \ {x}) \ {c})
        BY <4>1
      <4>4. f[x] \in Int /\ f[c] \in Int /\ SetSum(f, (T \ {c}) \ {x}) \in Int
        <5>1. IsFiniteSet((T \ {c}) \ {x}) /\ \A y \in (T \ {c}) \ {x} : f[y] \in Int
          BY <2>1, FS_Subset
        <5>2. SetSum(f, (T \ {c}) \ {x}) \in Int
          BY <5>1, SetSumType
        <5> QED
          BY <2>1, <5>2
      <4> HIDE DEF c
      <4> QED
        BY <2>2, <4>1, <4>2, <4>3, <4>4
    <3> QED
      BY <3>1, <3>2
  <2> QED
    BY <2>3
<1> HIDE DEF G
<1>3. S \in G
  BY <1>1, <1>2, FiniteInduction
<1> QED
  BY <1>3 DEF G

(* Sums of equal numbers *)
LEMMA SetSumSame ==
    ASSUME NEW S, IsFiniteSet(S), NEW f, NEW g, \A x \in S : f[x] = g[x]
    PROVE  SetSum(f, S) = SetSum(g, S)
<1> DEFINE G == {T \in SUBSET S : SetSum(f, T) = SetSum(g, T)}
<1>1. {} \in G
  BY SetSumEmpty
<1>2. ASSUME NEW T \in SUBSET S, T # {}, \A x \in T : T \ {x} \in G
      PROVE  T \in G
  <2>1. IsFiniteSet(T) /\ First(T) \in T
    BY <1>2, FS_Subset, FirstFacts
  <2>2. /\ SetSum(f, T) = f[First(T)] + SetSum(f, T \ {First(T)})
        /\ SetSum(g, T) = g[First(T)] + SetSum(g, T \ {First(T)})
    BY <1>2, <2>1, SetSumFirst
  <2>3. f[First(T)] = g[First(T)] /\ SetSum(f, T \ {First(T)}) = SetSum(g, T \ {First(T)})
    BY <1>2, <2>1
  <2> QED
    BY <2>2, <2>3
<1> HIDE DEF G
<1>3. S \in G
  BY <1>1, <1>2, FiniteInduction
<1> QED
  BY <1>3 DEF G

(* The sum over two sets without a common element *)
LEMMA SetSumUnion ==
    ASSUME NEW S, IsFiniteSet(S), NEW R, IsFiniteSet(R), S \cap R = {},
           NEW f, \A x \in S \cup R : f[x] \in Int
    PROVE  SetSum(f, S \cup R) = SetSum(f, S) + SetSum(f, R)
<1> DEFINE G == {T \in SUBSET S : SetSum(f, T \cup R) = SetSum(f, T) + SetSum(f, R)}
<1>1. {} \in G
  <2>1. SetSum(f, R) \in Int
    BY SetSumType
  <2>2. {} \cup R = R
    OBVIOUS
  <2> QED
    BY <2>1, <2>2, SetSumEmpty
<1>2. ASSUME NEW T \in SUBSET S, T # {}, \A x \in T : T \ {x} \in G
      PROVE  T \in G
  <2>1. PICK x : x \in T
    BY <1>2
  <2>2. IsFiniteSet(T) /\ IsFiniteSet(T \cup R)
    BY FS_Subset, FS_Union
  <2>3. /\ x \in T \cup R /\ (T \cup R) \ {x} = (T \ {x}) \cup R
        /\ \A y \in T \cup R : f[y] \in Int
    BY <2>1
  <2>4. SetSum(f, T) = f[x] + SetSum(f, T \ {x})
    BY <2>1, <2>2, <2>3, SetSumRemove
  <2>5. SetSum(f, T \cup R) = f[x] + SetSum(f, (T \cup R) \ {x})
    BY <2>2, <2>3, SetSumRemove
  <2>6. SetSum(f, (T \ {x}) \cup R) = SetSum(f, T \ {x}) + SetSum(f, R)
    BY <1>2, <2>1
  <2>7. f[x] \in Int /\ SetSum(f, T \ {x}) \in Int /\ SetSum(f, R) \in Int
    <3>1. IsFiniteSet(T \ {x})
      BY <2>2, FS_RemoveElement
    <3> QED
      BY <2>1, <2>3, <3>1, SetSumType
  <2>8. SetSum(f, T \cup R) = f[x] + (SetSum(f, T \ {x}) + SetSum(f, R))
    BY <2>3, <2>5, <2>6, Zenon
  <2>9. SetSum(f, T \cup R) = SetSum(f, T) + SetSum(f, R)
    BY <2>4, <2>7, <2>8
  <2> QED
    BY <2>9
<1> HIDE DEF G
<1>3. S \in G
  BY <1>1, <1>2, FiniteInduction
<1> QED
  BY <1>3 DEF G

(* A sum of at most n numbers, none above b *)
LEMMA SetSumBound ==
    ASSUME NEW S, IsFiniteSet(S), NEW f, NEW b \in Nat,
           \A x \in S : f[x] \in Nat /\ f[x] <= b
    PROVE  SetSum(f, S) \in Nat /\ SetSum(f, S) <= Cardinality(S) * b
<1> DEFINE G == {T \in SUBSET S : SetSum(f, T) \in Nat /\ SetSum(f, T) <= Cardinality(T) * b}
<1>1. {} \in G
  BY SetSumEmpty, FS_EmptySet
<1>2. ASSUME NEW T \in SUBSET S, T # {}, \A x \in T : T \ {x} \in G
      PROVE  T \in G
  <2>1. PICK x : x \in T
    BY <1>2
  <2>2. IsFiniteSet(T) /\ Cardinality(T) \in Nat /\ Cardinality(T \ {x}) = Cardinality(T) - 1
    BY <2>1, FS_Subset, FS_CardinalityType, FS_RemoveElement
  <2>3. SetSum(f, T) = f[x] + SetSum(f, T \ {x})
    BY <2>1, <2>2, SetSumRemove
  <2>4. /\ SetSum(f, T \ {x}) \in Nat
        /\ SetSum(f, T \ {x}) <= (Cardinality(T) - 1) * b
    BY <1>2, <2>1, <2>2
  <2>5. (Cardinality(T) - 1) * b + b = Cardinality(T) * b
    BY <2>2
  <2>6. (Cardinality(T) - 1) * b \in Int /\ Cardinality(T) * b \in Int
    BY <2>2
  <2>7. f[x] \in Nat /\ f[x] <= b
    BY <2>1
  <2> DEFINE u == (Cardinality(T) - 1) * b
             v == Cardinality(T) * b
  <2>8. SetSum(f, T) \in Nat /\ SetSum(f, T) <= v
    <3> HIDE DEF u, v
    <3>1. u \in Int /\ v \in Int /\ u + b = v /\ SetSum(f, T \ {x}) <= u
      BY <2>4, <2>5, <2>6 DEF u, v
    <3> QED
      BY <2>3, <2>4, <2>7, <3>1
  <2> QED
    BY <2>8
<1> HIDE DEF G
<1>3. S \in G
  BY <1>1, <1>2, FiniteInduction
<1> QED
  BY <1>3 DEF G

(* One number changed *)
LEMMA SetSumChange ==
    ASSUME NEW S, IsFiniteSet(S), NEW f, NEW g, NEW e \in S,
           \A x \in S : f[x] \in Int /\ g[x] \in Int,
           \A x \in S \ {e} : g[x] = f[x]
    PROVE  SetSum(g, S) = SetSum(f, S) - f[e] + g[e]
<1>1. SetSum(f, S) = f[e] + SetSum(f, S \ {e}) /\ SetSum(g, S) = g[e] + SetSum(g, S \ {e})
  BY SetSumRemove
<1>2. IsFiniteSet(S \ {e})
  BY FS_RemoveElement
<1>3. SetSum(f, S \ {e}) = SetSum(g, S \ {e})
  BY <1>2, SetSumSame
<1>4. SetSum(f, S \ {e}) \in Int /\ f[e] \in Int /\ g[e] \in Int
  BY <1>2, SetSumType
<1> QED
  BY <1>1, <1>3, <1>4

-----------------------------------------------------------------------------
(* The book as a set of orders: what a level, or some levels, of a side hold *)

Standing(s, p) == {i \in Id : Contains(queue[s][p], i)}
Makers(s, R) == {i \in Id : \E p \in R : Contains(queue[s][p], i)}

LEMMA IdsFinite ==
    /\ IsFiniteSet(Id) /\ Cardinality(Id) = MaxOrders
    /\ \A T \in SUBSET Id : IsFiniteSet(T) /\ Cardinality(T) \in Nat /\ Cardinality(T) <= MaxOrders
<1>1. 1 \in Int /\ MaxOrders \in Int /\ MaxOrders \in Nat
  BY ConstantsAssumption
<1>2. IsFiniteSet(Id) /\ Cardinality(Id) = IF 1 > MaxOrders THEN 0 ELSE MaxOrders - 1 + 1
  BY <1>1, FS_Interval DEF Id
<1>3. Cardinality(Id) = MaxOrders
  BY <1>1, <1>2
<1> QED
  BY <1>2, <1>3, FS_Subset, FS_CardinalityType

(* What the orders of a level offer, front order first. *)
LEMMA AmountsFirst ==
    ASSUME NEW q \in Seq(Id), q # <<>>, IsInjective(q), NEW rem \in [Id -> Nat]
    PROVE  SumOf(Amounts(q, rem)) = rem[q[1]] + SumOf(Amounts(Tail(q), rem))
<1>1. Skips(Tail(q), q, 1)
  BY TailSkips
<1>2. \A i \in Id \ {q[1]} : rem[i] = rem[i]
  OBVIOUS
<1> DEFINE r == Tail(q)
<1>3. Skips(r, q, 1)
  BY <1>1
<1> HIDE DEF r
<1>4. SumOf(Amounts(q, rem)) = rem[q[1]] + SumOf(Amounts(r, rem))
  BY <1>2, <1>3, AmountsLeave
<1> QED
  BY <1>4 DEF r

(* The sum along a queue that names no order twice is the sum over the     *)
(* orders in it.                                                           *)
LEMMA QueueSum ==
    ASSUME NEW rem \in [Id -> Nat], NEW q \in Seq(Id), IsInjective(q)
    PROVE  SumOf(Amounts(q, rem)) = SetSum(rem, {i \in Id : Contains(q, i)})
<1> DEFINE In(r) == {i \in Id : Contains(r, i)}
           Wrong(r) == r \in Seq(Id) /\ IsInjective(r) /\ SumOf(Amounts(r, rem)) # SetSum(rem, In(r))
           Bad == {n \in Nat : \E r \in Seq(Id) : Wrong(r) /\ Len(r) = n}
<1>1. SUFFICES ASSUME Wrong(q) PROVE FALSE
  OBVIOUS
<1>2. Bad # {} /\ Bad \subseteq Nat
  <2>1. Len(q) \in Nat
    OBVIOUS
  <2>2. Len(q) \in Bad
    BY <1>1, <2>1
  <2> QED
    BY <2>2
<1>3. PICK n \in Bad : \A m \in Bad : n <= m
  <2> HIDE DEF Bad
  <2> QED
    BY <1>2, Least, Zenon
<1>4. PICK r \in Seq(Id) : Wrong(r) /\ Len(r) = n
  OBVIOUS
<1>5. CASE r = <<>>
  <2>1. Amounts(r, rem) = <<>>
    <3>1. Amounts(r, rem) \in Seq(Int) /\ Len(Amounts(r, rem)) = Len(r) /\ Len(r) = 0
      BY <1>5, AmountsFacts
    <3> QED
      BY <3>1, EmptySeq
  <2>2. In(r) = {}
    BY <1>5 DEF Contains
  <2> QED
    BY <1>4, <2>1, <2>2, SumEmpty, SetSumEmpty
<1>6. CASE r # <<>>
  <2>1. Skips(Tail(r), r, 1) /\ Head(r) = r[1]
    BY <1>6, TailSkips
  <2>2. /\ Tail(r) \in Seq(Id) /\ Head(r) \in Id /\ Contains(r, Head(r))
        /\ \A i : Contains(r, i) <=> Contains(Tail(r), i) \/ i = Head(r)
        /\ IsInjective(Tail(r)) /\ ~Contains(Tail(r), Head(r))
    <3>1. IsInjective(r)
      BY <1>4
    <3> QED
      BY <1>6, <3>1, TailFacts
  <2>3. SumOf(Amounts(r, rem)) = rem[r[1]] + SumOf(Amounts(Tail(r), rem))
    <3>1. IsInjective(r) /\ r \in Seq(Id)
      BY <1>4
    <3> QED
      BY <1>6, <3>1, AmountsFirst
  <2>4. SetSum(rem, In(r)) = rem[Head(r)] + SetSum(rem, In(Tail(r)))
    <3>1. In(r) \ {Head(r)} = In(Tail(r)) /\ Head(r) \in In(r)
      BY <2>2
    <3>2. IsFiniteSet(In(r)) /\ \A x \in In(r) : rem[x] \in Int
      BY IdsFinite
    <3> HIDE DEF In
    <3>3. SetSum(rem, In(r)) = rem[Head(r)] + SetSum(rem, In(r) \ {Head(r)})
      BY <3>1, <3>2, SetSumRemove
    <3> QED
      BY <3>1, <3>3
  <2>5. SumOf(Amounts(Tail(r), rem)) # SetSum(rem, In(Tail(r)))
    <3>1. SumOf(Amounts(r, rem)) # SetSum(rem, In(r))
      BY <1>4
    <3> QED
      BY <2>1, <2>3, <2>4, <3>1
  <2>6. Len(Tail(r)) = n - 1 /\ Len(Tail(r)) \in Nat /\ n \in Nat
    BY <1>4, <1>6, <2>1, <2>2, LenProperties DEF Skips
  <2>7. Len(Tail(r)) \in Bad
    BY <2>2, <2>5, <2>6
  <2> HIDE DEF Bad
  <2>8. n <= Len(Tail(r))
    BY <1>3, <2>7
  <2> QED
    BY <2>6, <2>8
<1> QED
  BY <1>5, <1>6

LEMMA LevelSum ==
    ASSUME IInv, NEW s \in Side, NEW p \in Price
    PROVE  SumOf(Amounts(queue[s][p], remaining_qty)) = SetSum(remaining_qty, Standing(s, p))
<1>1. /\ queue[s][p] \in Seq(Id) /\ IsInjective(queue[s][p])
      /\ remaining_qty \in [Id -> Nat]
  BY BookFacts DEF BookTypeOK, BookInjective
<1> QED
  BY <1>1, QueueSum DEF Standing

LEMMA LevelsFinite ==
    ASSUME IInv, NEW s \in Side
    PROVE  IsFiniteSet(Levels(s)) /\ Levels(s) \subseteq Price
<1> DEFINE price == [i \in Id |-> order[i].price]
<1>1. IsFiniteSet({price[i] : i \in Id})
  <2>1. price \in Surjection(Id, {price[i] : i \in Id})
    BY DEF Surjection
  <2> HIDE DEF price
  <2> QED
    BY <2>1, IdsFinite, FS_Surjection, Zenon
<1>2. ASSUME NEW p \in Levels(s)
      PROVE  \E i \in Id : price[i] = p
  <2>1. p \in Price /\ queue[s][p] # <<>> /\ queue[s][p] \in Seq(Id)
    BY BookFacts DEF Levels, BookTypeOK
  <2>2. Head(queue[s][p]) \in Id /\ Contains(queue[s][p], Head(queue[s][p]))
    BY <2>1, TailFacts
  <2>3. order[Head(queue[s][p])].price = p
    BY <2>1, <2>2, BookFacts DEF IndexCoversBook
  <2> QED
    BY <2>2, <2>3
<1>3. Levels(s) \in SUBSET {price[i] : i \in Id}
  BY <1>2
<1>4. IsFiniteSet(Levels(s))
  <2> HIDE DEF price
  <2> QED
    BY <1>1, <1>3, FS_Subset
<1> QED
  BY <1>4 DEF Levels

(* The totals of some levels of a side add up to what their orders offer,  *)
(* if no single one of them wraps.                                         *)
LEMMA LevelsSum ==
    ASSUME IInv, LevelTotals, NEW s \in Side, NEW R \in SUBSET Levels(s),
           \A p \in R : SetSum(remaining_qty, Standing(s, p)) < QMod
    PROVE  SetSum(total_quantity[s], R) = SetSum(remaining_qty, Makers(s, R))
<1> DEFINE G == {T \in SUBSET R : SetSum(total_quantity[s], T) = SetSum(remaining_qty, Makers(s, T))}
<1>1. IsFiniteSet(R) /\ R \subseteq Price
  BY LevelsFinite, FS_Subset
<1>2. remaining_qty \in [Id -> Nat] /\ IndexCoversBook
  BY BookFacts DEF BookTypeOK
<1>3. {} \in G
  <2>1. Makers(s, {}) = {}
    BY DEF Makers
  <2> QED
    BY <2>1, SetSumEmpty
<1>4. ASSUME NEW p \in R
      PROVE  total_quantity[s][p] = SetSum(remaining_qty, Standing(s, p)) /\ total_quantity[s][p] \in Nat
  <2>1. p \in Price
    BY <1>1
  <2>2. SetSum(remaining_qty, Standing(s, p)) \in Nat
    BY <1>2, IdsFinite, SetSumType DEF Standing
  <2>3. total_quantity[s][p] = SetSum(remaining_qty, Standing(s, p)) % QMod
    BY <2>1, TotalsMeaning, LevelSum
  <2>4. QMod \in Nat \ {0} /\ SetSum(remaining_qty, Standing(s, p)) < QMod
    BY ConstantsAssumption
  <2> QED
    BY <2>2, <2>3, <2>4
<1>5. ASSUME NEW T \in SUBSET R, T # {}, \A x \in T : T \ {x} \in G
      PROVE  T \in G
  <2>1. PICK p : p \in T
    BY <1>5
  <2>2. IsFiniteSet(T) /\ \A x \in T : total_quantity[s][x] \in Int
    BY <1>1, <1>4, FS_Subset
  <2>3. SetSum(total_quantity[s], T) = total_quantity[s][p] + SetSum(total_quantity[s], T \ {p})
    BY <2>1, <2>2, SetSumRemove
  <2>4. SetSum(total_quantity[s], T \ {p}) = SetSum(remaining_qty, Makers(s, T \ {p}))
    BY <1>5, <2>1
  <2>5. total_quantity[s][p] = SetSum(remaining_qty, Standing(s, p))
    BY <1>4, <2>1
  <2>6. /\ Makers(s, T) = Standing(s, p) \cup Makers(s, T \ {p})
        /\ Standing(s, p) \cap Makers(s, T \ {p}) = {}
    <3>1. Makers(s, T) = Standing(s, p) \cup Makers(s, T \ {p})
      BY <2>1 DEF Makers, Standing
    <3>2. ASSUME NEW i \in Standing(s, p), i \in Makers(s, T \ {p}) PROVE FALSE
      BY <1>1, <1>2, <2>1, <3>2 DEF Makers, Standing, IndexCoversBook
    <3> QED
      BY <3>1, <3>2
  <2>7. SetSum(remaining_qty, Makers(s, T))
          = SetSum(remaining_qty, Standing(s, p)) + SetSum(remaining_qty, Makers(s, T \ {p}))
    <3> DEFINE A == Standing(s, p)
               B == Makers(s, T \ {p})
    <3>1. A \subseteq Id /\ B \subseteq Id
      BY DEF Standing, Makers
    <3>2. A \cap B = {} /\ Makers(s, T) = A \cup B
      BY <2>6
    <3> HIDE DEF A, B
    <3>3. IsFiniteSet(A) /\ IsFiniteSet(B) /\ \A x \in A \cup B : remaining_qty[x] \in Int
      BY <1>2, <3>1, IdsFinite
    <3>4. SetSum(remaining_qty, A \cup B) = SetSum(remaining_qty, A) + SetSum(remaining_qty, B)
      BY <3>2, <3>3, SetSumUnion
    <3> QED
      BY <3>2, <3>4 DEF A, B
  <2>8. SetSum(total_quantity[s], T) = SetSum(remaining_qty, Makers(s, T))
    BY <2>3, <2>4, <2>5, <2>7
  <2> QED
    BY <2>8
<1> HIDE DEF G
<1>6. R \in G
  BY <1>1, <1>3, <1>5, FiniteInduction
<1> QED
  BY <1>6 DEF G

-----------------------------------------------------------------------------
(* availableQty: what it adds up, and that nothing wraps when the whole    *)
(* book fits the width of Quantity                                         *)

Within(s, l) == {p \in Levels(Opposite(s)) : PriceCrosses(s, l, p)}
OwnHidden(s, l) == {i \in icebergs_ : order[i].side = s /\ PriceCrosses(s, l, order[i].price)}

LEMMA AvailableSums ==
    ASSUME NEW s, NEW l
    PROVE  AvailableQty(s, l) =
             (SetSum(total_quantity[Opposite(s)], Within(s, l))
                + SetSum(hidden_remaining, OwnHidden(s, l))) % QMod
BY Zenon DEF AvailableQty, Within, OwnHidden, MapThenSumSet, MapThenFoldSet, SetSum, FoldOf, IsFold, First

LEMMA MakersFacts ==
    ASSUME IInv, NEW s \in Side, NEW R \in SUBSET Levels(s)
    PROVE  /\ \A i \in Makers(s, R) : i \in Id /\ order[i].side = s /\ order[i].price \in R
           /\ \A p \in R : Standing(s, p) \subseteq Makers(s, R)
<1>1. R \subseteq Price /\ IndexCoversBook
  BY BookFacts DEF Levels
<1> QED
  BY <1>1 DEF IndexCoversBook, Makers, Standing

LEMMA AvailableIs ==
    ASSUME IInv, BInv, NEW b \in Nat, MaxOrders * b < QMod,
           \A i \in Id : remaining_qty[i] <= b /\ hidden_remaining[i] <= b,
           NEW s \in Side, NEW l
    PROVE  /\ AvailableQty(s, l) = SetSum(remaining_qty, Makers(Opposite(s), Within(s, l)))
                                     + SetSum(hidden_remaining, OwnHidden(s, l))
           /\ SetSum(remaining_qty, Makers(Opposite(s), Within(s, l))) \in Nat
           /\ SetSum(hidden_remaining, OwnHidden(s, l)) \in Nat
<1> DEFINE o == Opposite(s)
           R == Within(s, l)
           A == Makers(o, R)
           B == OwnHidden(s, l)
           f == [i \in Id |-> IF i \in A THEN remaining_qty[i] ELSE hidden_remaining[i]]
<1>1. /\ remaining_qty \in [Id -> Nat] /\ hidden_remaining \in [Id -> Nat]
      /\ icebergs_ \subseteq Id
  BY DEF IInv, TypeOK
<1>2. o \in Side /\ o # s /\ R \in SUBSET Levels(o) /\ LevelTotals
  BY SideFacts DEF Within, BInv, LevelsGood
<1>3. A \subseteq Id /\ B \subseteq Id
  BY <1>1 DEF Makers, OwnHidden
<1>4. A \cap B = {}
  <2> SUFFICES ASSUME NEW i \in A, i \in B PROVE FALSE
    OBVIOUS
  <2>1. order[i].side = o
    <3> HIDE DEF R, o
    <3> QED
      BY <1>2, MakersFacts
  <2>2. order[i].side = s
    BY DEF OwnHidden
  <2> QED
    BY <1>2, <2>1, <2>2
<1> HIDE DEF A, B, R, o
<1>5. \A i \in Id : f[i] \in Nat /\ f[i] <= b
  BY <1>1
<1>6. IsFiniteSet(A) /\ IsFiniteSet(B) /\ IsFiniteSet(A \cup B)
      /\ Cardinality(A \cup B) \in Nat /\ Cardinality(A \cup B) <= MaxOrders
  <2>1. A \cup B \in SUBSET Id
    BY <1>3
  <2> QED
    BY <1>3, <2>1, IdsFinite
<1>7. SetSum(f, A \cup B) < QMod
  <2>1. \A x \in A \cup B : f[x] \in Nat /\ f[x] <= b
    BY <1>3, <1>5
  <2> HIDE DEF f
  <2>2. SetSum(f, A \cup B) \in Nat /\ SetSum(f, A \cup B) <= Cardinality(A \cup B) * b
    BY <1>6, <2>1, SetSumBound
  <2>3. Cardinality(A \cup B) * b <= MaxOrders * b
    <3> DEFINE c == Cardinality(A \cup B)
    <3>1. c \in Nat /\ c <= MaxOrders /\ MaxOrders \in Nat
      BY <1>6, ConstantsAssumption
    <3> HIDE DEF c
    <3>2. PICK d \in Nat : MaxOrders = c + d
      <4>1. MaxOrders - c \in Nat /\ MaxOrders = c + (MaxOrders - c)
        BY <3>1
      <4> QED
        BY <4>1
    <3>3. c * b \in Nat /\ d * b \in Nat /\ (c + d) * b = c * b + d * b
      BY <3>1, <3>2
    <3>4. c * b <= MaxOrders * b
      BY <3>2, <3>3
    <3> QED
      BY <3>4 DEF c
  <2>4. Cardinality(A \cup B) * b \in Int /\ MaxOrders * b \in Int /\ QMod \in Int
    BY <1>6, ConstantsAssumption
  <2> DEFINE u == Cardinality(A \cup B) * b
             v == MaxOrders * b
  <2>5. u \in Int /\ v \in Int /\ u <= v /\ v < QMod /\ SetSum(f, A \cup B) <= u
    BY <2>2, <2>3, <2>4
  <2> HIDE DEF u, v
  <2> QED
    BY <2>2, <2>4, <2>5
<1>8. /\ SetSum(f, A) = SetSum(remaining_qty, A) /\ SetSum(f, B) = SetSum(hidden_remaining, B)
      /\ SetSum(remaining_qty, A) \in Nat /\ SetSum(hidden_remaining, B) \in Nat
  <2>1. (\A x \in A : f[x] = remaining_qty[x]) /\ \A x \in B : f[x] = hidden_remaining[x]
    BY <1>3, <1>4
  <2>2. (\A x \in A : remaining_qty[x] \in Nat) /\ \A x \in B : hidden_remaining[x] \in Nat
    BY <1>1, <1>3
  <2> HIDE DEF f
  <2> QED
    BY <1>6, <2>1, <2>2, SetSumSame, SetSumType
<1>9. SetSum(remaining_qty, A) + SetSum(hidden_remaining, B) < QMod
  <2>1. SetSum(f, A \cup B) = SetSum(f, A) + SetSum(f, B)
    <3>1. \A x \in A \cup B : f[x] \in Int
      BY <1>3, <1>5
    <3> HIDE DEF f
    <3> QED
      BY <1>4, <1>6, <3>1, SetSumUnion
  <2> HIDE DEF f
  <2> QED
    BY <1>7, <1>8, <2>1
<1>10. \A p \in R : SetSum(remaining_qty, Standing(o, p)) < QMod
  <2> SUFFICES ASSUME NEW p \in R PROVE SetSum(remaining_qty, Standing(o, p)) < QMod
    OBVIOUS
  <2> DEFINE S == Standing(o, p)
  <2>1. S \subseteq A
    BY <1>2, MakersFacts DEF A
  <2> HIDE DEF S
  <2>2. /\ A = S \cup (A \ S) /\ S \cap (A \ S) = {}
        /\ IsFiniteSet(S) /\ IsFiniteSet(A \ S)
        /\ (\A x \in A : remaining_qty[x] \in Nat)
    BY <1>1, <1>3, <1>6, <2>1, FS_Subset
  <2>3. SetSum(remaining_qty, S) \in Nat /\ SetSum(remaining_qty, A \ S) \in Nat
    BY <2>1, <2>2, SetSumType
  <2>4. SetSum(remaining_qty, S \cup (A \ S)) = SetSum(remaining_qty, S) + SetSum(remaining_qty, A \ S)
    <3> DEFINE T == A \ S
    <3>1. /\ IsFiniteSet(S) /\ IsFiniteSet(T) /\ S \cap T = {}
          /\ \A x \in S \cup T : remaining_qty[x] \in Int
      BY <2>1, <2>2
    <3> HIDE DEF T
    <3>2. SetSum(remaining_qty, S \cup T) = SetSum(remaining_qty, S) + SetSum(remaining_qty, T)
      BY <3>1, SetSumUnion
    <3> QED
      BY <3>2 DEF T
  <2>5. SetSum(remaining_qty, A) = SetSum(remaining_qty, S) + SetSum(remaining_qty, A \ S)
    BY <2>2, <2>4
  <2>6. SetSum(remaining_qty, S) < QMod
    BY <1>8, <1>9, <2>3, <2>5, ConstantsAssumption
  <2> QED
    BY <2>6 DEF S
<1>11. SetSum(total_quantity[o], R) = SetSum(remaining_qty, A)
  BY <1>2, <1>10, LevelsSum DEF A
<1>12. AvailableQty(s, l) = (SetSum(total_quantity[o], R) + SetSum(hidden_remaining, B)) % QMod
  BY AvailableSums DEF o, R, B
<1>13. AvailableQty(s, l) = SetSum(remaining_qty, A) + SetSum(hidden_remaining, B)
  BY <1>8, <1>9, <1>11, <1>12, ConstantsAssumption
<1> QED
  BY <1>8, <1>13 DEF A, B, R, o

-----------------------------------------------------------------------------
(* A fill-or-kill order is only turned away for want of liquidity          *)

(* Every order asks for a quantity that callers ask for. *)
Sizes == \A i \in Submitted : order[i].total_qty \in Qty

LEMMA EngineKeepsOrders == Engine => UNCHANGED <<next_order_id_, order>>
<1>1. CASE MatchStep \/ EndMatch \/ RefreshExhausted \/ RefreshSlice
  BY <1>1, Zenon DEF MatchStep, FillFront, EndMatch, RefreshExhausted, RefreshSlice
<1>2. CASE ReturnStandard \/ ReturnFOK \/ ReturnIOC \/ ReturnIceberg
  BY <1>2, Zenon DEF ReturnStandard, ReturnFOK, ReturnIOC, ReturnIceberg, Return
<1> QED
  BY <1>1, <1>2 DEF Engine

LEMMA SizesNext == IInv /\ Sizes /\ [Next]_vars => Sizes'
<1> SUFFICES ASSUME IInv, Sizes, [Next]_vars PROVE Sizes'
  OBVIOUS
<1>1. order \in [Id -> Order] /\ Submitted \subseteq Id /\ next_order_id_ \in Nat
  BY SubmittedType DEF IInv, TypeOK
<1>2. ASSUME NEW o, o.total_qty \in Qty, NewOrder(o) PROVE Sizes'
  <2>1. /\ next_order_id_ \in Id /\ next_order_id_' = next_order_id_ + 1
        /\ order' = [order EXCEPT ![next_order_id_] = o]
    BY <1>2 DEF NewOrder
  <2>2. ASSUME NEW i \in Submitted' PROVE order'[i].total_qty \in Qty
    <3>1. CASE i = next_order_id_
      BY <1>1, <1>2, <2>1, <3>1
    <3>2. CASE i # next_order_id_
      <4>1. i \in Submitted
        BY <1>1, <2>1, <2>2, <3>2 DEF Submitted
      <4> QED
        BY <1>1, <2>1, <3>2, <4>1 DEF Sizes
    <3> QED
      BY <3>1, <3>2
  <2> QED
    BY <2>2 DEF Sizes
<1>3. CASE Submit
  <2>1. PICK r \in Request : SubmitOrder(r)
    BY <1>3 DEF Submit
  <2>2. r.total_qty \in Qty
    BY DEF Request
  <2>3. CASE SubmitPostOnly(r) \/ SubmitFOK(r) \/ SubmitStandard(r)
    BY <1>2, <2>2, <2>3 DEF SubmitPostOnly, SubmitFOK, SubmitStandard
  <2>4. CASE SubmitIceberg(r)
    <3>1. PICK v : NewOrder([r EXCEPT !.visible_qty = v])
      BY <2>4 DEF SubmitIceberg
    <3>2. [r EXCEPT !.visible_qty = v].total_qty = r.total_qty
      BY DEF Request
    <3> QED
      BY <1>2, <2>2, <3>1, <3>2
  <2> QED
    BY <2>1, <2>3, <2>4 DEF SubmitOrder
<1>4. CASE UNCHANGED <<next_order_id_, order>>
  BY <1>4 DEF Sizes, Submitted
<1>5. ASSUME ~Submit PROVE UNCHANGED <<next_order_id_, order>>
  <2>1. CASE Engine
    BY <2>1, EngineKeepsOrders
  <2>2. CASE \E id \in Id : CancelOrder(id)
    BY <2>2 DEF CancelOrder, CancelFound, CancelUnknown
  <2>3. CASE ClearRecentTrades
    BY <2>3 DEF ClearRecentTrades
  <2>4. CASE UNCHANGED vars
    BY <2>4 DEF vars
  <2> QED
    BY <1>5, <2>1, <2>2, <2>3, <2>4 DEF Next
<1> QED
  BY <1>3, <1>4, <1>5

LEMMA QtyNat == \A q \in Qty : q \in Nat
BY ConstantsAssumption

LEMMA SizesHold == Spec => [](IInv /\ BInv /\ Sizes)
<1>1. Init => Sizes
  BY DEF Init, Sizes, Submitted
<1>2. Sizes /\ IInv /\ [Next]_vars => Sizes'
  BY SizesNext
<1> QED
  BY <1>1, <1>2, Both, PTL DEF Spec

(* Between calls no order shows or hides more than twice the largest size: *)
(* its own size and, for an iceberg that traded on entry, Excess.          *)
LEMMA IdleBound ==
    ASSUME IInv, BInv, Sizes, pc = "idle", NEW K \in Nat, \A q \in Qty : q <= K
    PROVE  \A i \in Id : remaining_qty[i] <= 2 * K /\ hidden_remaining[i] <= 2 * K
<1> SUFFICES ASSUME NEW i \in Id PROVE remaining_qty[i] <= 2 * K /\ hidden_remaining[i] <= 2 * K
  OBVIOUS
<1>1. /\ remaining_qty[i] \in Nat /\ hidden_remaining[i] \in Nat /\ filled[i] \in Nat
      /\ order[i] \in Order /\ took[i] \in Nat
  BY DEF IInv, TypeOK
<1>2. taker = 0 /\ i # 0 /\ ~Consumed(i)
  BY DEF IInv, CallCoherent, Consumed, Contains, Id
<1>3. CASE Resting(i)
  <2>1. i \in Submitted
    BY <1>3, BookFacts
  <2>2. filled[i] + remaining_qty[i] + hidden_remaining[i] = order[i].total_qty + Excess(i)
    BY <1>2, <1>3, <2>1 DEF IInv, Conservation, Conserved
  <2>3. order[i].total_qty <= K /\ order[i].total_qty \in Nat /\ order[i].visible_qty \in Nat
    BY <1>1, <2>1 DEF Sizes, Order
  <2>4. Excess(i) \in Nat /\ Excess(i) <= order[i].total_qty
    <3>1. \/ Excess(i) = 0
          \/ /\ Excess(i) = MinOf(took[i], order[i].total_qty - order[i].visible_qty)
             /\ order[i].visible_qty < order[i].total_qty
      BY Zenon DEF Excess, IsIceberg
    <3> QED
      BY <1>1, <2>3, <3>1 DEF MinOf
  <2> QED
    BY <1>1, <2>2, <2>3, <2>4
<1>4. CASE ~Resting(i)
  <2>1. remaining_qty[i] = 0
    BY <1>4 DEF BInv, LevelsGood, OutIsEmpty
  <2>2. ~(hidden_remaining[i] > 0)
    BY <1>2, <1>4 DEF BInv, BergsTracked
  <2> QED
    BY <1>1, <2>1, <2>2
<1> QED
  BY <1>3, <1>4

LEMMA MakersSum ==
    ASSUME NEW s, NEW R
    PROVE  MapThenSumSet(LAMBDA x : remaining_qty[x], Makers(s, R)) = SetSum(remaining_qty, Makers(s, R))
BY SumIsSetSum

(* submitFOK: a fill-or-kill order is turned away only if the opposite     *)
(* levels within its limit really hold less than it asks for, whatever the *)
(* icebergs, as long as the quantities of the whole book, at most twice    *)
(* the largest size K for each order, fit the width of Quantity.           *)
THEOREM FOKOnlyKilledWhenShort ==
    ASSUME NEW K \in Nat, \A q \in Qty : q <= K, MaxOrders * (2 * K) < QMod
    PROVE  Spec => FOKCancelJustified
<1>1. ASSUME IInv, BInv, Sizes, [Next]_vars,
             NEW i \in Id, order'[i] # order[i], order'[i].type = "FOK", pc' = "idle"
      PROVE  LET o == order'[i]
                 opp == Opposite(o.side)
                 reach == {p \in Levels(opp) : PriceCrosses(o.side, o.price, p)}
                 makers == {x \in Id : \E p \in reach : Contains(queue[opp][p], x)}
             IN  MapThenSumSet(LAMBDA x : remaining_qty[x], makers) < o.total_qty
  <2>1. ~UNCHANGED order
    BY <1>1
  <2>2. Submit
    <3>1. CASE Engine
      BY <2>1, <3>1, EngineKeepsOrders
    <3>2. CASE \E id \in Id : CancelOrder(id)
      BY <2>1, <3>2 DEF CancelOrder, CancelFound, CancelUnknown
    <3>3. CASE ClearRecentTrades
      BY <2>1, <3>3 DEF ClearRecentTrades
    <3>4. CASE UNCHANGED vars
      BY <2>1, <3>4 DEF vars
    <3> QED
      BY <1>1, <3>1, <3>2, <3>3, <3>4 DEF Next
  <2>3. PICK r \in Request : SubmitOrder(r)
    BY <2>2 DEF Submit
  <2>4. order \in [Id -> Order] /\ r.side \in Side /\ r.total_qty \in Nat
    <3>1. order \in [Id -> Order]
      BY <1>1 DEF IInv, TypeOK
    <3>2. r.side \in Side /\ r.total_qty \in Qty
      BY DEF Request
    <3> QED
      BY <3>1, <3>2, QtyNat, Zenon
  <2>5. ASSUME NEW o, NewOrder(o) PROVE order'[i] = o /\ pc = "idle"
    BY <1>1, <2>4, <2>5 DEF NewOrder
  <2>6. SubmitFOK(r) /\ order'[i] = r /\ pc = "idle"
    <3>1. CASE SubmitPostOnly(r)
      <4>1. order'[i] = r /\ r.type = "PostOnly"
        BY <2>5, <3>1 DEF SubmitPostOnly
      <4> QED
        BY <1>1, <4>1
    <3>2. CASE SubmitStandard(r) \/ SubmitIceberg(r)
      BY <1>1, <3>2 DEF SubmitStandard, SubmitIceberg, BeginMatching
    <3>3. CASE SubmitFOK(r)
      BY <2>5, <3>3 DEF SubmitFOK
    <3> QED
      BY <2>3, <3>1, <3>2, <3>3 DEF SubmitOrder
  <2>7. AvailableQty(r.side, r.price) < r.total_qty
    BY <1>1, <2>6 DEF SubmitFOK, BeginMatching
  <2> DEFINE s == r.side
             l == r.price
             M == Makers(Opposite(s), Within(s, l))
  <2>8. SetSum(remaining_qty, M) < r.total_qty
    <3>1. /\ 2 * K \in Nat
          /\ \A x \in Id : remaining_qty[x] <= 2 * K /\ hidden_remaining[x] <= 2 * K
      BY <1>1, <2>6, IdleBound
    <3>2. s \in Side
      BY <2>4
    <3> HIDE DEF s, l
    <3>3. /\ AvailableQty(s, l) = SetSum(remaining_qty, M) + SetSum(hidden_remaining, OwnHidden(s, l))
          /\ SetSum(remaining_qty, M) \in Nat
          /\ SetSum(hidden_remaining, OwnHidden(s, l)) \in Nat
      <4> DEFINE b == 2 * K
      <4>1. b \in Nat /\ MaxOrders * b < QMod /\ \A x \in Id : remaining_qty[x] <= b /\ hidden_remaining[x] <= b
        BY <3>1
      <4> HIDE DEF b
      <4> QED
        BY <1>1, <3>2, <4>1, AvailableIs
    <3> HIDE DEF M
    <3>4. AvailableQty(s, l) < r.total_qty
      BY <2>7 DEF s, l
    <3> QED
      BY <2>4, <3>3, <3>4
  <2>9. MapThenSumSet(LAMBDA x : remaining_qty[x], M) = SetSum(remaining_qty, M)
    BY MakersSum
  <2>10. MapThenSumSet(LAMBDA x : remaining_qty[x], M) < r.total_qty
    BY <2>8, <2>9, Zenon
  <2> QED
    BY <2>6, <2>10, Zenon DEF Makers, Within
<1>2. IInv /\ BInv /\ Sizes /\ [Next]_vars
        => (\A i \in Id : order'[i] # order[i] /\ order'[i].type = "FOK" /\ pc' = "idle" =>
              LET o == order'[i]
                  opp == Opposite(o.side)
                  reach == {p \in Levels(opp) : PriceCrosses(o.side, o.price, p)}
                  makers == {x \in Id : \E p \in reach : Contains(queue[opp][p], x)}
              IN  MapThenSumSet(LAMBDA x : remaining_qty[x], makers) < o.total_qty)
  BY <1>1, Zenon
<1> QED
  BY <1>2, SizesHold, PTL DEF Spec, FOKCancelJustified

-----------------------------------------------------------------------------
(* Without icebergs: nothing is hidden, consumed or refreshed              *)

Plain == "Iceberg" \notin OrderTypes /\ 0 \notin Qty

LEMMA PlainFacts ==
    ASSUME Plain, IInv, BInv
    PROVE  /\ \A i \in Submitted : order[i].visible_qty = 0 /\ ~IsIceberg(order[i]) /\ Excess(i) = 0
                                   /\ order[i].type # "Iceberg"
           /\ \A i \in Id : hidden_remaining[i] = 0
           /\ icebergs_ = {}
           /\ \A i : ~Consumed(i)
           /\ iceberg_consumed = <<>>
<1>1. ASSUME NEW i \in Submitted
      PROVE  order[i].visible_qty = 0 /\ ~IsIceberg(order[i]) /\ Excess(i) = 0
             /\ order[i].type # "Iceberg"
  <2>1. i \in Id /\ order[i] \in Order
    BY SubmittedType DEF IInv, TypeOK
  <2>2. order[i].visible_qty \in Nat
    BY <2>1 DEF Order
  <2>3. order[i].type # "Iceberg"
    BY DEF IInv, OrdersWellFormed, Plain
  <2>4. order[i].visible_qty = 0
    BY <2>2, <2>3 DEF IInv, OrdersWellFormed
  <2> QED
    BY <2>3, <2>4 DEF IsIceberg, Excess
<1>2. \A i \in Id : ~Consumed(i)
  BY <1>1 DEF IInv, ConsumedCoherent
<1>3. iceberg_consumed \in Seq(Id)
  BY DEF IInv, TypeOK
<1>4. iceberg_consumed = <<>>
  <2> SUFFICES ASSUME iceberg_consumed # <<>> PROVE FALSE
    OBVIOUS
  <2>1. Head(iceberg_consumed) \in Id /\ Contains(iceberg_consumed, Head(iceberg_consumed))
    BY <1>3, TailFacts
  <2> QED
    BY <1>2, <2>1 DEF Consumed
<1>5. \A i \in Id : i \notin icebergs_
  <2> SUFFICES ASSUME NEW i \in Id, i \in icebergs_ PROVE FALSE
    OBVIOUS
  <2>1. IsIceberg(order[i]) /\ (Resting(i) \/ i = taker)
    BY <1>2 DEF BInv, BergsTracked
  <2>2. i \notin Submitted
    BY <1>1, <2>1
  <2>3. i \notin icebergs_
    BY <2>2 DEF IInv, FreshUntouched
  <2> QED
    BY <2>3
<1>6. hidden_remaining \in [Id -> Nat] /\ icebergs_ \subseteq Id
  BY DEF IInv, TypeOK
<1>7. \A i \in Id : hidden_remaining[i] = 0
  BY <1>5, <1>6 DEF BInv, BergsTracked
<1>8. \A i : ~Consumed(i)
  BY <1>4 DEF Consumed, Contains
<1> QED
  BY <1>1, <1>4, <1>5, <1>6, <1>7, <1>8

(* What each way of writing the book does to the set of resting orders     *)
LEMMA AddRests ==
    ASSUME IInv, NEW id \in Id, NEW o, o.side \in Side, o.price \in Price, NEW q \in Nat,
           ~Resting(id), AddToLevel(id, o, q)
    PROVE  /\ \A i \in Id : Resting(i)' <=> Resting(i) \/ i = id
           /\ remaining_qty' = [remaining_qty EXCEPT ![id] = q]
           /\ orders_index_' = [orders_index_ EXCEPT ![id] = <<o.side, o.price>>]
<1>1. /\ \A s \in Side, p \in Price, i \in Id :
            Contains(queue'[s][p], i) <=>
                Contains(queue[s][p], i) \/ (i = id /\ s = o.side /\ p = o.price)
      /\ remaining_qty' = [remaining_qty EXCEPT ![id] = q]
      /\ orders_index_' = [orders_index_ EXCEPT ![id] = <<o.side, o.price>>]
  BY BookFacts, AddToLevelFacts
<1> QED
  BY <1>1 DEF Resting

LEMMA RemovalRests ==
    ASSUME IInv, NEW id \in Id, orders_index_[id] # NoLoc, RemoveFromBook(id)
    PROVE  /\ \A i \in Id : Resting(i)' <=> Resting(i) /\ i # id
           /\ remaining_qty' = [remaining_qty EXCEPT ![id] = 0]
           /\ orders_index_' = [orders_index_ EXCEPT ![id] = NoLoc]
<1>1. /\ \A s \in Side, p \in Price, i \in Id :
            Contains(queue'[s][p], i) <=> Contains(queue[s][p], i) /\ i # id
      /\ remaining_qty' = [remaining_qty EXCEPT ![id] = 0]
      /\ orders_index_' = [orders_index_ EXCEPT ![id] = NoLoc]
  BY BookFacts, RemoveFromBookFacts
<1> QED
  BY <1>1 DEF Resting

LEMMA SameRests ==
    ASSUME UNCHANGED queue
    PROVE  /\ \A i : Resting(i)' <=> Resting(i)
           /\ \A s : Levels(s)' = Levels(s)
           /\ \A s, R : Makers(s, R)' = Makers(s, R)
BY DEF Resting, Levels, Makers

-----------------------------------------------------------------------------
(* What the steps of a call keep, besides IInv and BInv                    *)

(* The opposite levels an order r trades with: Reach, for the call's own.  *)
Crossed(r) ==
    {p \in Levels(Opposite(r.side)) : r.type = "Market" \/ PriceCrosses(r.side, r.price, p)}

(* Nothing rests with nothing to sell. *)
RestPositive == \A i \in Id : Resting(i) => remaining_qty[i] > 0

(* An index entry that outlives its order is one of an order that filled.  *)
GoneFilled ==
    \A i \in Id : orders_index_[i] # NoLoc /\ ~Resting(i) => filled[i] = order[i].total_qty

(* How far the call is *)
CallProgress ==
    pc # "idle" =>
        /\ filled[taker] + remaining = order[taker].total_qty
        /\ trades = <<>> <=> remaining = order[taker].total_qty
        /\ pc = "refresh" => remaining = 0 \/ Reach = {}

(* A fill-or-kill order that began finds what it still wants. *)
FOKCovered ==
    pc # "idle" /\ order[taker].type = "FOK" =>
        /\ pc = "match" =>
              remaining <= SetSum(remaining_qty, Makers(Opposite(order[taker].side), Reach))
        /\ pc = "refresh" => remaining = 0

XInv == RestPositive /\ GoneFilled /\ CallProgress /\ FOKCovered

(* Everything that is known of a state *)
AllInv == IInv /\ BInv /\ Sizes /\ XInv

LEMMA ReachIsCrossed == Reach = Crossed(order[taker])
BY DEF Reach, Crossed

LEMMA SizePositive ==
    ASSUME Plain, IInv, Sizes, NEW i \in Submitted
    PROVE  order[i].total_qty \in Nat /\ order[i].total_qty > 0
<1>1. order[i].total_qty \in Qty /\ order[i].total_qty # 0
  BY DEF Sizes, Plain
<1> QED
  BY <1>1, QtyNat

LEMMA XInvInit == Init => XInv
<1> SUFFICES ASSUME Init PROVE XInv
  OBVIOUS
<1>1. \A i : ~Resting(i)
  BY DEF Init, Resting, Contains
<1>2. \A i \in Id : orders_index_[i] = NoLoc
  BY DEF Init
<1>3. pc = "idle"
  BY DEF Init
<1> QED
  BY <1>1, <1>2, <1>3 DEF XInv, RestPositive, GoneFilled, CallProgress, FOKCovered

(* Between calls, XInv is about the book alone. *)
LEMMA IdleX ==
    ASSUME pc' = "idle", RestPositive', GoneFilled'
    PROVE  XInv'
BY DEF XInv, CallProgress, FOKCovered

LEMMA SameBookX ==
    ASSUME RestPositive, GoneFilled, UNCHANGED <<queue, remaining_qty, orders_index_, filled>>,
           \A i \in Id : orders_index_[i] # NoLoc => order'[i] = order[i]
    PROVE  RestPositive' /\ GoneFilled'
<1>1. \A i : Resting(i)' <=> Resting(i)
  BY SameRests
<1>2. RestPositive'
  BY <1>1 DEF RestPositive
<1>3. GoneFilled'
  BY <1>1 DEF GoneFilled
<1> QED
  BY <1>2, <1>3

LEMMA RemovalX ==
    ASSUME IInv, RestPositive, GoneFilled, NEW id \in Id, orders_index_[id] # NoLoc,
           RemoveFromBook(id), UNCHANGED <<order, filled>>
    PROVE  RestPositive' /\ GoneFilled'
<1>1. /\ \A i \in Id : Resting(i)' <=> Resting(i) /\ i # id
      /\ remaining_qty' = [remaining_qty EXCEPT ![id] = 0]
      /\ orders_index_' = [orders_index_ EXCEPT ![id] = NoLoc]
  BY RemovalRests
<1>2. remaining_qty \in [Id -> Nat] /\ DOMAIN orders_index_ = Id
  BY DEF IInv, TypeOK
<1>3. RestPositive'
  BY <1>1, <1>2 DEF RestPositive
<1>4. GoneFilled'
  BY <1>1, <1>2 DEF GoneFilled
<1> QED
  BY <1>3, <1>4

(* What the running call's order could trade with *)
OnOffer == SetSum(remaining_qty, Makers(Opposite(order[taker].side), Reach))

Takes(o, p) == o.type = "Market" \/ PriceCrosses(o.side, o.price, p)

LEMMA MakersAre ==
    ASSUME NEW o, NEW R, R = {p \in Levels(Opposite(o.side)) : Takes(o, p)}
    PROVE  Makers(Opposite(o.side), R) =
             {i \in Id : \E p \in Price : Takes(o, p) /\ Contains(queue[Opposite(o.side)][p], i)}
BY DEF Makers, Levels, Contains

LEMMA OnOfferNow ==
    ASSUME NEW s, s = Opposite(order[taker].side)
    PROVE  OnOffer = SetSum(remaining_qty,
             {i \in Id : \E p \in Price : Takes(order[taker], p) /\ Contains(queue[s][p], i)})
<1>1. Reach = {p \in Levels(Opposite(order[taker].side)) : Takes(order[taker], p)}
  BY DEF Reach, Takes
<1> QED
  BY <1>1, MakersAre, Zenon DEF OnOffer

LEMMA OnOfferThen ==
    ASSUME NEW s, s = Opposite(order'[taker'].side)
    PROVE  OnOffer' = SetSum(remaining_qty',
             {i \in Id : \E p \in Price : Takes(order'[taker'], p) /\ Contains(queue'[s][p], i)})
<1>1. OnOffer' = SetSum(remaining_qty', Makers(Opposite(order[taker].side), Reach)')
  BY DEF OnOffer
<1>2. Makers(Opposite(order[taker].side), Reach)' =
        {i \in Id : \E p \in Price : Takes(order'[taker'], p) /\ Contains(queue'[s][p], i)}
  BY DEF Makers, Reach, Levels, Contains, Takes
<1> QED
  BY <1>1, <1>2, Zenon

LEMMA FOKCoveredIs ==
    /\ FOKCovered <=> (pc # "idle" /\ order[taker].type = "FOK" =>
          /\ pc = "match" => remaining <= OnOffer
          /\ pc = "refresh" => remaining = 0)
    /\ FOKCovered' <=> (pc' # "idle" /\ order'[taker'].type = "FOK" =>
          /\ pc' = "match" => remaining' <= OnOffer'
          /\ pc' = "refresh" => remaining' = 0)
BY Zenon DEF FOKCovered, OnOffer

(* A call that enters the matching loop *)
LEMMA BeginX ==
    ASSUME Plain, AllInv, NEW r \in Request, r.type # "Iceberg", NewOrder(r), BeginMatching(r),
           r.type = "FOK" =>
               r.total_qty <= SetSum(remaining_qty, Makers(Opposite(r.side), Crossed(r)))
    PROVE  XInv'
<1> DEFINE n == next_order_id_
<1>1. /\ n \in Id /\ n \notin Submitted
      /\ order'[n] = r /\ \A i \in Submitted : order'[i] = order[i]
      /\ filled[n] = 0
  BY RequestFacts, NewOrderFacts DEF AllInv
<1>2. /\ pc' = "match" /\ taker' = n /\ remaining' = r.total_qty /\ trades' = <<>>
      /\ UNCHANGED <<queue, remaining_qty, total_quantity, orders_index_, filled>>
  BY DEF BeginMatching, book, hist
<1>3. RestPositive' /\ GoneFilled'
  <2>1. \A i \in Id : orders_index_[i] # NoLoc => order'[i] = order[i]
    BY <1>1 DEF AllInv, IInv, FreshUntouched
  <2> QED
    BY <1>2, <2>1, SameBookX DEF AllInv, XInv
<1>4. CallProgress'
  <2>1. r.total_qty \in Nat
    BY RequestFacts
  <2> QED
    BY <1>1, <1>2, <2>1 DEF CallProgress
<1>5. FOKCovered'
  <2> SUFFICES ASSUME r.type = "FOK" PROVE r.total_qty <= OnOffer'
    BY <1>1, <1>2, FOKCoveredIs
  <2> DEFINE s == Opposite(r.side)
             M == {i \in Id : \E p \in Price : Takes(r, p) /\ Contains(queue[s][p], i)}
  <2>1. OnOffer' = SetSum(remaining_qty, M)
    BY <1>1, <1>2, OnOfferThen
  <2>2. Makers(s, Crossed(r)) = M
    BY MakersAre DEF Crossed, Takes
  <2> HIDE DEF s, M
  <2>3. r.total_qty <= SetSum(remaining_qty, Makers(s, Crossed(r)))
    BY DEF s
  <2> QED
    BY <2>1, <2>2, <2>3
<1> QED
  BY <1>3, <1>4, <1>5 DEF XInv

(* One fill: the sum on offer and the quantity wanted fall together. *)
LEMMA MatchOffer ==
    ASSUME IInv, NEW s \in Side, NEW p \in Price, NEW m \in Id, NEW c \in Nat,
           s = Opposite(order[taker].side), p \in Reach, FillEffect(s, p, m, c),
           order' = order, taker' = taker
    PROVE  OnOffer' = OnOffer - c /\ OnOffer \in Int
<1> DEFINE o == order[taker]
           M == {i \in Id : \E l \in Price : Takes(o, l) /\ Contains(queue[s][l], i)}
           N == {i \in Id : \E l \in Price : Takes(o, l) /\ Contains(queue'[s][l], i)}
           gone == c = remaining_qty[m]
<1>1. OnOffer = SetSum(remaining_qty, M) /\ OnOffer' = SetSum(remaining_qty', N)
  <2>1. OnOffer = SetSum(remaining_qty, M)
    BY OnOfferNow
  <2>2. OnOffer' = SetSum(remaining_qty', N)
    BY OnOfferThen, ZenonT(60)
  <2> QED
    BY <2>1, <2>2
<1>2. /\ Contains(queue[s][p], m) /\ c <= remaining_qty[m]
      /\ remaining_qty' = [remaining_qty EXCEPT ![m] = @ - c]
      /\ \A l \in Price, i \in Id :
            Contains(queue'[s][l], i) <=> Contains(queue[s][l], i) /\ ~(i = m /\ gone)
  BY DEF FillEffect
<1>3. remaining_qty \in [Id -> Nat]
  BY DEF IInv, TypeOK
<1>4. m \in M
  BY <1>2 DEF Reach, Takes
<1>5. N = IF gone THEN M \ {m} ELSE M
  BY <1>2
<1>6. M \subseteq Id
  OBVIOUS
<1> HIDE DEF M, N
<1>7. IsFiniteSet(M) /\ IsFiniteSet(M \ {m}) /\ \A x \in M : remaining_qty[x] \in Int
  BY <1>3, <1>6, IdsFinite
<1>8. SetSum(remaining_qty, M) = remaining_qty[m] + SetSum(remaining_qty, M \ {m})
  BY <1>4, <1>7, SetSumRemove
<1>9. SetSum(remaining_qty, M) \in Int /\ SetSum(remaining_qty, M \ {m}) \in Int
  <2>1. \A x \in M \ {m} : remaining_qty[x] \in Int
    BY <1>7
  <2> HIDE DEF gone
  <2>2. SetSum(remaining_qty, M) \in Int
    BY <1>7, SetSumType
  <2>3. SetSum(remaining_qty, M \ {m}) \in Int
    <3> DEFINE D == M \ {m}
    <3>1. IsFiniteSet(D) /\ \A x \in D : remaining_qty[x] \in Int
      BY <1>7
    <3> HIDE DEF D
    <3>2. SetSum(remaining_qty, D) \in Int
      BY <3>1, SetSumType
    <3> QED
      BY <3>2 DEF D
  <2> QED
    BY <2>2, <2>3
<1>10. SetSum(remaining_qty', N) = SetSum(remaining_qty, M) - c
  <2>1. CASE gone
    <3> DEFINE D == M \ {m}
    <3>1. IsFiniteSet(D) /\ \A x \in D : remaining_qty'[x] = remaining_qty[x]
      BY <1>2, <1>3, <1>6, <1>7
    <3> HIDE DEF D
    <3>2. SetSum(remaining_qty', D) = SetSum(remaining_qty, D)
      BY <3>1, SetSumSame, Zenon
    <3>3. N = D
      BY <1>5, <2>1 DEF D
    <3>4. c = remaining_qty[m] /\ c \in Int
      BY <2>1
    <3>5. SetSum(remaining_qty', N) = SetSum(remaining_qty, M \ {m})
      BY <3>2, <3>3 DEF D
    <3> HIDE DEF gone
    <3> QED
      BY <1>8, <1>9, <3>4, <3>5
  <2>2. CASE ~gone
    <3>1. N = M
      BY <1>5, <2>2
    <3>2. \A x \in M : remaining_qty[x] \in Int /\ remaining_qty'[x] \in Int
      BY <1>2, <1>3, <1>6
    <3>3. \A x \in M \ {m} : remaining_qty'[x] = remaining_qty[x]
      BY <1>2, <1>3, <1>6
    <3>4. SetSum(remaining_qty', M) = SetSum(remaining_qty, M) - remaining_qty[m] + remaining_qty'[m]
      <4> DEFINE f == remaining_qty
                 g == remaining_qty'
      <4>1. /\ \A x \in M : f[x] \in Int /\ g[x] \in Int
            /\ \A x \in M \ {m} : g[x] = f[x]
            /\ IsFiniteSet(M) /\ m \in M
        BY <1>4, <1>7, <3>2, <3>3
      <4> HIDE DEF f, g
      <4>2. SetSum(g, M) = SetSum(f, M) - f[m] + g[m]
        BY <4>1, SetSumChange
      <4> QED
        BY <4>2 DEF f, g
    <3>5. remaining_qty'[m] = remaining_qty[m] - c /\ remaining_qty[m] \in Int
      BY <1>2, <1>3
    <3> HIDE DEF gone
    <3> QED
      BY <1>9, <3>1, <3>4, <3>5
  <2> QED
    BY <2>1, <2>2
<1> QED
  BY <1>1, <1>9, <1>10, Zenon

LEMMA MatchStepX ==
    ASSUME Plain, AllInv, MatchStep
    PROVE  XInv'
<1>1. PICK s \in Side, p \in Price, m \in Id, c \in Nat :
              /\ s = Opposite(order[taker].side) /\ p \in Reach
              /\ FillEffect(s, p, m, c)
              /\ UNCHANGED <<next_order_id_, order, orders_index_, icebergs_, hidden_remaining,
                             pc, taker, total_trades_, recent_trades_>>
              /\ pc = "match" /\ taker \in Id /\ m # taker
              /\ Resting(m)
  BY MatchFacts, ZenonT(60) DEF AllInv
<1>2. /\ c <= remaining /\ c <= remaining_qty[m] /\ (c = remaining \/ c = remaining_qty[m])
      /\ remaining' = remaining - c
      /\ remaining_qty' = [remaining_qty EXCEPT ![m] = @ - c]
      /\ filled' = [filled EXCEPT ![m] = @ + c, ![taker] = @ + c]
      /\ trades' = Append(trades, [maker |-> m, taker |-> taker, price |-> p, qty |-> c])
      /\ \A i \in Id : Resting(i)' <=> Resting(i) /\ ~(i = m /\ c = remaining_qty[m])
  BY <1>1 DEF FillEffect, Resting
<1>3. /\ remaining_qty \in [Id -> Nat] /\ filled \in [Id -> Nat] /\ trades \in Seq(Trade)
      /\ remaining > 0 /\ remaining \in Nat
      /\ orders_index_[taker] = NoLoc /\ taker \in Submitted /\ m \in Submitted
  BY <1>1, BookFacts DEF AllInv, IInv, TypeOK, MatchStep, CallCoherent
<1>4. c > 0 /\ remaining_qty[m] > 0
  <2>1. remaining_qty[m] > 0
    BY <1>1 DEF AllInv, XInv, RestPositive
  <2> QED
    BY <1>2, <1>3, <2>1
<1>5. RestPositive'
  <2> SUFFICES ASSUME NEW i \in Id, Resting(i)' PROVE remaining_qty'[i] > 0
    BY DEF RestPositive
  <2>1. Resting(i) /\ ~(i = m /\ c = remaining_qty[m]) /\ remaining_qty[i] > 0
    BY <1>2 DEF AllInv, XInv, RestPositive
  <2> QED
    BY <1>2, <1>3, <2>1
<1>6. filled[m] + remaining_qty[m] = order[m].total_qty
  <2>1. filled[m] + remaining_qty[m] + hidden_remaining[m] = order[m].total_qty + Excess(m)
    BY <1>1, <1>3 DEF AllInv, IInv, Conservation, Conserved
  <2>2. Excess(m) = 0 /\ hidden_remaining[m] = 0 /\ order[m].total_qty \in Nat
    BY <1>3, PlainFacts, SizePositive DEF AllInv
  <2> QED
    BY <1>3, <2>1, <2>2
<1>7. GoneFilled'
  <2> SUFFICES ASSUME NEW i \in Id, orders_index_[i] # NoLoc, ~Resting(i)'
               PROVE  filled'[i] = order[i].total_qty
    BY <1>1 DEF GoneFilled
  <2>1. i # taker
    BY <1>3
  <2>2. CASE i = m
    BY <1>1, <1>2, <1>3, <1>6, <2>2
  <2>3. CASE i # m
    <3>1. filled[i] = order[i].total_qty
      BY <1>2, <2>3 DEF AllInv, XInv, GoneFilled
    <3> QED
      BY <1>2, <1>3, <2>1, <2>3, <3>1
  <2> QED
    BY <2>2, <2>3
<1>8. filled[taker] + remaining = order[taker].total_qty /\ filled[taker] \in Nat
      /\ order[taker].total_qty \in Nat
  <2>1. filled[taker] \in Nat /\ order[taker].total_qty \in Nat
    BY <1>1, <1>3, SizePositive DEF AllInv
  <2> QED
    BY <1>1, <2>1 DEF AllInv, XInv, CallProgress
<1>9. CallProgress'
  <2>1. filled'[taker] + remaining' = order[taker].total_qty
    <3>1. filled'[taker] = filled[taker] + c
      BY <1>1, <1>2, <1>3
    <3> QED
      BY <1>2, <1>3, <1>8, <3>1
  <2>2. trades' # <<>> /\ remaining' # order[taker].total_qty
    <3>1. trades' # <<>>
      BY <1>2, <1>3
    <3> QED
      BY <1>2, <1>3, <1>4, <1>8, <3>1, SMTT(40)
  <2> QED
    BY <1>1, <2>1, <2>2 DEF CallProgress
<1>10. FOKCovered'
  <2> SUFFICES ASSUME order[taker].type = "FOK" PROVE remaining' <= OnOffer'
    BY <1>1, FOKCoveredIs
  <2>1. remaining <= OnOffer
    BY <1>1, FOKCoveredIs DEF AllInv, XInv
  <2>2. OnOffer' = OnOffer - c /\ OnOffer \in Int
    <3>1. order' = order /\ taker' = taker /\ IInv
      BY <1>1 DEF AllInv
    <3> QED
      BY <1>1, <3>1, MatchOffer
  <2> QED
    BY <1>2, <1>3, <2>1, <2>2
<1> QED
  BY <1>5, <1>7, <1>9, <1>10 DEF XInv

(* The taker comes to rest, or not; what it could trade with stays. *)
LEMMA EndMatchFacts ==
    ASSUME Plain, AllInv, EndMatch
    PROVE  /\ taker \in Submitted /\ taker \in Id /\ pc = "match" /\ pc' = "refresh"
           /\ order[taker].side \in Side /\ remaining \in Nat
           /\ ~Resting(taker) /\ orders_index_[taker] = NoLoc
           /\ UNCHANGED <<next_order_id_, order, icebergs_, hidden_remaining, taker, remaining,
                          iceberg_consumed, trades, result, filled>>
           /\ Levels(Opposite(order[taker].side))' = Levels(Opposite(order[taker].side))
           /\ \A i \in Id : Resting(i)' <=>
                 Resting(i) \/ (i = taker /\ remaining > 0 /\ order[taker].type # "Market")
           /\ \A i \in Id \ {taker} : /\ remaining_qty'[i] = remaining_qty[i]
                                      /\ orders_index_'[i] = orders_index_[i]
           /\ Resting(taker)' => remaining_qty'[taker] = remaining
           /\ ~Resting(taker)' => orders_index_'[taker] = NoLoc
<1> DEFINE n == taker
           o == order[taker]
<1>1. /\ n \in Submitted /\ n \in Id /\ pc = "match" /\ pc' = "refresh"
      /\ o \in Order /\ remaining \in Nat /\ orders_index_[n] = NoLoc
      /\ UNCHANGED <<next_order_id_, order, icebergs_, hidden_remaining, taker, remaining,
                     iceberg_consumed, trades, result, filled>>
  BY SubmittedType DEF AllInv, IInv, TypeOK, CallCoherent, EndMatch, bergs, call
<1>2. o.side \in Side
  BY <1>1 DEF Order
<1>3. ~Resting(n)
  BY <1>1, UnindexedNotResting, BookFacts DEF AllInv
<1>4. CASE remaining > 0 /\ o.type # "Market"
  <2>1. DisplayQty(o, remaining) = remaining
    BY <1>1, PlainFacts DEF AllInv, DisplayQty
  <2>2. AddToLevel(n, o, remaining)
    BY <1>4, <2>1 DEF EndMatch
  <2>3. o.price \in Price
    BY <1>1, <1>4 DEF AllInv, IInv, OrdersWellFormed
  <2>4. /\ \A i \in Id : Resting(i)' <=> Resting(i) \/ i = n
        /\ remaining_qty' = [remaining_qty EXCEPT ![n] = remaining]
        /\ orders_index_' = [orders_index_ EXCEPT ![n] = <<o.side, o.price>>]
    BY <1>1, <1>2, <1>3, <2>2, <2>3, AddRests DEF AllInv
  <2>5. /\ remaining_qty \in [Id -> Nat] /\ DOMAIN orders_index_ = Id
        /\ queue \in [Side -> [Price -> Seq(Id)]]
    BY DEF AllInv, IInv, TypeOK
  <2>6. Levels(Opposite(o.side))' = Levels(Opposite(o.side))
    <3>1. queue' = [queue EXCEPT ![o.side][o.price] = Append(@, n)]
      BY <2>2 DEF AddToLevel
    <3>2. Opposite(o.side) \in Side /\ Opposite(o.side) # o.side
      BY <1>2, SideFacts
    <3>3. queue'[Opposite(o.side)] = queue[Opposite(o.side)]
      BY <2>5, <3>1, <3>2
    <3> QED
      BY <1>1, <3>3 DEF Levels
  <2> QED
    BY <1>1, <1>2, <1>3, <1>4, <2>4, <2>5, <2>6
<1>5. CASE ~(remaining > 0 /\ o.type # "Market")
  <2>1. UNCHANGED <<queue, remaining_qty, orders_index_>>
    BY <1>5 DEF EndMatch, book
  <2>2. /\ \A i : Resting(i)' <=> Resting(i)
        /\ Levels(Opposite(o.side))' = Levels(Opposite(o.side))
    BY <1>1, <2>1 DEF Resting, Levels
  <2> QED
    BY <1>1, <1>2, <1>3, <1>5, <2>1, <2>2
<1> QED
  BY <1>4, <1>5

LEMMA EndMatchX ==
    ASSUME Plain, AllInv, EndMatch
    PROVE  XInv'
<1>1. /\ taker \in Submitted /\ taker \in Id /\ pc = "match" /\ pc' = "refresh"
      /\ remaining \in Nat /\ ~Resting(taker)
      /\ UNCHANGED <<order, taker, remaining, trades, filled>>
      /\ Levels(Opposite(order[taker].side))' = Levels(Opposite(order[taker].side))
      /\ \A i \in Id : Resting(i)' <=>
            Resting(i) \/ (i = taker /\ remaining > 0 /\ order[taker].type # "Market")
      /\ \A i \in Id \ {taker} : /\ remaining_qty'[i] = remaining_qty[i]
                                 /\ orders_index_'[i] = orders_index_[i]
      /\ Resting(taker)' => remaining_qty'[taker] = remaining
      /\ ~Resting(taker)' => orders_index_'[taker] = NoLoc
  BY EndMatchFacts, Zenon
<1>2. RestPositive'
  <2> SUFFICES ASSUME NEW i \in Id, Resting(i)' PROVE remaining_qty'[i] > 0
    BY DEF RestPositive
  <2>1. CASE i = taker
    <3>1. remaining > 0
      BY <1>1, <2>1
    <3> QED
      BY <1>1, <2>1, <3>1
  <2>2. CASE i # taker
    BY <1>1, <2>2 DEF AllInv, XInv, RestPositive
  <2> QED
    BY <2>1, <2>2
<1>3. GoneFilled'
  <2> SUFFICES ASSUME NEW i \in Id, orders_index_'[i] # NoLoc, ~Resting(i)'
               PROVE  filled[i] = order[i].total_qty
    BY <1>1 DEF GoneFilled
  <2>1. i # taker
    BY <1>1
  <2>2. orders_index_[i] # NoLoc /\ ~Resting(i)
    BY <1>1, <2>1
  <2> QED
    BY <2>2 DEF AllInv, XInv, GoneFilled
<1>4. remaining = 0 \/ Reach = {}
  BY DEF EndMatch
<1>5. Reach' = Reach
  BY <1>1 DEF Reach
<1>6. CallProgress'
  BY <1>1, <1>4, <1>5 DEF AllInv, XInv, CallProgress
<1>7. FOKCovered'
  <2> SUFFICES ASSUME order[taker].type = "FOK" PROVE remaining = 0
    BY <1>1, FOKCoveredIs
  <2>1. remaining <= OnOffer
    BY <1>1, FOKCoveredIs DEF AllInv, XInv
  <2>2. CASE Reach = {}
    <3>1. Makers(Opposite(order[taker].side), Reach) = {}
      BY <2>2 DEF Makers
    <3>2. OnOffer = 0
      BY <3>1, SetSumEmpty DEF OnOffer
    <3> QED
      BY <1>1, <2>1, <3>2
  <2> QED
    BY <1>4, <2>2
<1> QED
  BY <1>2, <1>3, <1>6, <1>7 DEF XInv

LEMMA ReturnX ==
    ASSUME Plain, AllInv, ReturnStandard \/ ReturnFOK \/ ReturnIOC \/ ReturnIceberg
    PROVE  XInv'
<1>1. RestPositive /\ GoneFilled /\ IInv
  BY DEF AllInv, XInv
<1>2. pc' = "idle" /\ UNCHANGED <<order, filled>>
  BY DEF ReturnStandard, ReturnFOK, ReturnIOC, ReturnIceberg, Return, hist
<1>3. CASE UNCHANGED book
  BY <1>1, <1>2, <1>3, SameBookX, IdleX DEF book
<1>4. CASE ~UNCHANGED book
  <2>1. ReturnIOC /\ remaining > 0
    BY <1>4 DEF ReturnStandard, ReturnFOK, ReturnIOC, ReturnIceberg
  <2>2. RemoveFromBook(taker) /\ order[taker].type = "IOC" /\ pc = "refresh"
    BY <2>1 DEF ReturnIOC, Returning
  <2>3. /\ taker \in Id /\ order[taker] \in Order
        /\ orders_index_[taker] = <<order[taker].side, order[taker].price>>
    BY <1>1, <2>1, <2>2, SubmittedType DEF IInv, CallCoherent, TypeOK
  <2>4. orders_index_[taker] # NoLoc
    BY <2>3 DEF Order, NoLoc, Side
  <2>5. RestPositive' /\ GoneFilled'
    BY <1>1, <1>2, <2>2, <2>3, <2>4, RemovalX
  <2> QED
    BY <1>2, <2>5, IdleX
<1> QED
  BY <1>3, <1>4

(* Without icebergs availableQty is what the reachable makers offer. *)
LEMMA AvailablePlain ==
    ASSUME Plain, AllInv, pc = "idle",
           NEW K \in Nat, \A q \in Qty : q <= K, MaxOrders * (2 * K) < QMod,
           NEW r \in Request, r.type # "Market"
    PROVE  /\ AvailableQty(r.side, r.price) =
                SetSum(remaining_qty, Makers(Opposite(r.side), Crossed(r)))
           /\ SetSum(remaining_qty, Makers(Opposite(r.side), Crossed(r))) \in Nat
<1> DEFINE b == 2 * K
           s == r.side
           l == r.price
           M == Makers(Opposite(s), Within(s, l))
<1>1. b \in Nat /\ MaxOrders * b < QMod /\ s \in Side
  BY RequestFacts
<1>2. \A x \in Id : remaining_qty[x] <= b /\ hidden_remaining[x] <= b
  <2>1. IInv /\ BInv /\ Sizes
    BY DEF AllInv
  <2> QED
    BY <2>1, IdleBound
<1>3. Within(s, l) = Crossed(r)
  BY DEF Within, Crossed
<1>4. OwnHidden(s, l) = {}
  BY PlainFacts DEF AllInv, OwnHidden
<1>5. IInv /\ BInv
  BY DEF AllInv
<1> HIDE DEF b, s, l
<1>6. /\ AvailableQty(s, l) = SetSum(remaining_qty, M) + SetSum(hidden_remaining, OwnHidden(s, l))
      /\ SetSum(remaining_qty, M) \in Nat
  BY <1>1, <1>2, <1>5, AvailableIs
<1>7. SetSum(hidden_remaining, OwnHidden(s, l)) = 0
  BY <1>4, SetSumEmpty
<1> HIDE DEF M
<1>8. AvailableQty(s, l) = SetSum(remaining_qty, M)
  BY <1>6, <1>7
<1> QED
  BY <1>3, <1>6, <1>8, Zenon DEF M, s, l

LEMMA SubmitX ==
    ASSUME Plain, AllInv, NEW K \in Nat, \A q \in Qty : q <= K, MaxOrders * (2 * K) < QMod,
           NEW r \in Request, SubmitOrder(r)
    PROVE  XInv'
<1>1. r.type # "Iceberg"
  BY RequestFacts DEF Plain
<1>2. GoodOrder(r) /\ r.side \in Side /\ r.total_qty \in Nat
      /\ (r.type # "Market" => r.price \in Price)
  BY <1>1, RequestFacts
<1>3. IInv /\ BInv /\ RestPositive /\ GoneFilled
  BY DEF AllInv, XInv
<1>4. ASSUME NewOrder(r)
      PROVE  /\ next_order_id_ \in Id /\ ~Resting(next_order_id_)
             /\ order'[next_order_id_] = r
             /\ \A i \in Id : orders_index_[i] # NoLoc => order'[i] = order[i] /\ i # next_order_id_
             /\ filled[next_order_id_] = 0
             /\ pc = "idle"
  <2>1. /\ next_order_id_ \in Id /\ ~Resting(next_order_id_) /\ next_order_id_ \notin Submitted
        /\ order'[next_order_id_] = r /\ \A i \in Submitted : order'[i] = order[i]
        /\ filled[next_order_id_] = 0
    BY <1>2, <1>3, <1>4, NewOrderFacts
  <2>2. \A i \in Id : orders_index_[i] # NoLoc => i \in Submitted
    BY <1>3 DEF IInv, FreshUntouched
  <2> QED
    BY <1>4, <2>1, <2>2 DEF NewOrder
<1>5. CASE SubmitPostOnly(r)
  <2>1. NewOrder(r) /\ r.type = "PostOnly" /\ r.price \in Price
    BY <1>2, <1>5 DEF SubmitPostOnly
  <2>2. pc' = "idle" /\ filled' = filled
    BY <1>4, <1>5, <2>1 DEF SubmitPostOnly, ReturnAtOnce, hist
  <2>3. CASE UNCHANGED book
    <3>1. UNCHANGED <<queue, remaining_qty, orders_index_, filled>>
      BY <2>2, <2>3 DEF book
    <3> QED
      BY <1>3, <1>4, <2>1, <2>2, <3>1, SameBookX, IdleX
  <2>4. CASE AddToLevel(next_order_id_, r, r.total_qty)
    <3> DEFINE n == next_order_id_
    <3>1. n \in Id /\ ~Resting(n)
      BY <1>4, <2>1
    <3>2. /\ \A i \in Id : Resting(i)' <=> Resting(i) \/ i = n
          /\ remaining_qty' = [remaining_qty EXCEPT ![n] = r.total_qty]
          /\ orders_index_' = [orders_index_ EXCEPT ![n] = <<r.side, r.price>>]
      BY <1>2, <1>3, <2>1, <2>4, <3>1, AddRests
    <3>3. remaining_qty \in [Id -> Nat] /\ DOMAIN orders_index_ = Id
      BY <1>3 DEF IInv, TypeOK
    <3>4. r.total_qty > 0
      <4>1. r.total_qty # 0
        BY DEF Plain, Request
      <4> QED
        BY <1>2, <4>1
    <3>5. RestPositive'
      BY <1>3, <3>1, <3>2, <3>3, <3>4 DEF RestPositive
    <3>6. GoneFilled'
      <4> SUFFICES ASSUME NEW i \in Id, orders_index_'[i] # NoLoc, ~Resting(i)'
                   PROVE  filled'[i] = order'[i].total_qty
        BY DEF GoneFilled
      <4>1. i # n /\ orders_index_[i] # NoLoc /\ ~Resting(i)
        BY <3>2, <3>3
      <4> QED
        BY <1>3, <1>4, <2>1, <2>2, <4>1 DEF GoneFilled
    <3> QED
      BY <2>2, <3>5, <3>6, IdleX
  <2> QED
    BY <1>5, <2>3, <2>4 DEF SubmitPostOnly
<1>6. CASE SubmitFOK(r)
  <2>1. NewOrder(r) /\ r.type = "FOK" /\ pc = "idle"
    BY <1>4, <1>6 DEF SubmitFOK
  <2>2. CASE ReturnAtOnce("Cancelled") /\ UNCHANGED book
    <3>1. pc' = "idle" /\ UNCHANGED <<queue, remaining_qty, orders_index_, filled>>
      BY <2>1, <2>2 DEF ReturnAtOnce, book, hist
    <3> QED
      BY <1>3, <1>4, <2>1, <3>1, SameBookX, IdleX
  <2>3. CASE AvailableQty(r.side, r.price) >= r.total_qty /\ BeginMatching(r)
    <3>1. /\ AvailableQty(r.side, r.price) =
                SetSum(remaining_qty, Makers(Opposite(r.side), Crossed(r)))
          /\ SetSum(remaining_qty, Makers(Opposite(r.side), Crossed(r))) \in Nat
      BY <2>1, AvailablePlain
    <3>2. r.total_qty <= SetSum(remaining_qty, Makers(Opposite(r.side), Crossed(r)))
      BY <1>2, <2>3, <3>1
    <3> QED
      BY <1>1, <2>1, <2>3, <3>2, BeginX
  <2> QED
    BY <1>6, <2>2, <2>3 DEF SubmitFOK
<1>7. CASE SubmitStandard(r)
  BY <1>1, <1>7, BeginX DEF SubmitStandard
<1>8. CASE SubmitIceberg(r)
  BY <1>1, <1>8 DEF SubmitIceberg
<1> QED
  BY <1>5, <1>6, <1>7, <1>8 DEF SubmitOrder

LEMMA NeverRefreshes ==
    ASSUME Plain, IInv, BInv
    PROVE  ~RefreshExhausted /\ ~RefreshSlice
BY PlainFacts DEF RefreshExhausted, RefreshSlice

LEMMA XInvNext ==
    ASSUME Plain, AllInv, [Next]_vars,
           NEW K \in Nat, \A q \in Qty : q <= K, MaxOrders * (2 * K) < QMod
    PROVE  XInv'
<1>0. IInv /\ BInv /\ RestPositive /\ GoneFilled
  BY DEF AllInv, XInv
<1>1. CASE Submit
  <2>1. PICK r \in Request : SubmitOrder(r)
    BY <1>1 DEF Submit
  <2> QED
    BY <2>1, SubmitX
<1>2. CASE Engine
  BY <1>0, <1>2, MatchStepX, EndMatchX, ReturnX, NeverRefreshes DEF Engine
<1>3. ASSUME NEW id \in Id, CancelOrder(id) PROVE XInv'
  <2>1. CASE CancelFound(id)
    <3>1. RemoveFromBook(id) /\ orders_index_[id] # NoLoc /\ pc' = "idle"
          /\ UNCHANGED <<order, filled>>
      BY <2>1 DEF CancelFound, hist
    <3> QED
      BY <1>0, <3>1, RemovalX, IdleX
  <2>2. CASE CancelUnknown(id)
    <3>1. pc' = "idle" /\ UNCHANGED <<queue, remaining_qty, orders_index_, filled, order>>
      BY <2>2 DEF CancelUnknown, hist, book
    <3> QED
      BY <1>0, <3>1, SameBookX, IdleX
  <2> QED
    BY <1>3, <2>1, <2>2 DEF CancelOrder
<1>4. CASE ClearRecentTrades
  <2>1. pc' = "idle" /\ UNCHANGED <<queue, remaining_qty, orders_index_, filled, order>>
    BY <1>4 DEF ClearRecentTrades, hist, book
  <2> QED
    BY <1>0, <2>1, SameBookX, IdleX
<1>5. CASE UNCHANGED vars
  <2>1. UNCHANGED <<queue, remaining_qty, orders_index_, filled, order, pc, taker, remaining, trades>>
    BY <1>5 DEF vars, book, call, hist
  <2>2. RestPositive' /\ GoneFilled'
    BY <1>0, <2>1, SameBookX
  <2>3. Reach' = Reach
    BY <2>1 DEF Reach, Levels
  <2>4. CallProgress'
    BY <2>1, <2>3 DEF AllInv, XInv, CallProgress
  <2>5. OnOffer' = OnOffer
    BY <2>1, <2>3 DEF OnOffer, Makers
  <2>6. FOKCovered'
    BY <2>1, <2>5, FOKCoveredIs DEF AllInv, XInv
  <2> QED
    BY <2>2, <2>4, <2>6 DEF XInv
<1> QED
  BY <1>1, <1>2, <1>3, <1>4, <1>5 DEF Next

LEMMA AllHold ==
    ASSUME Plain, NEW K \in Nat, \A q \in Qty : q <= K, MaxOrders * (2 * K) < QMod
    PROVE  Spec => []AllInv
<1>1. IInv /\ BInv /\ Sizes /\ XInv /\ [Next]_vars => XInv'
  BY XInvNext DEF AllInv
<1>2. Init => XInv
  BY XInvInit
<1>3. IInv /\ BInv /\ Sizes /\ XInv <=> AllInv
  BY DEF AllInv
<1> QED
  BY <1>1, <1>2, <1>3, SizesHold, PTL DEF Spec

-----------------------------------------------------------------------------
(* The state of Exchange that a state of the engine stands for             *)

Sent == [i \in Submitted |-> order[i]]
OpenIds == {x \in Id \ {taker} : Resting(x)}
Open == [i \in OpenIds |-> remaining_qty[i]]
Done == [i \in Submitted |-> filled[i]]
Reply == <<result.id, result.status>>

LEMMA ExtendIs ==
    ASSUME NEW f, NEW g, NEW k, NEW v, NEW D,
           f = [x \in D |-> f[x]], g = [x \in D \cup {k} |-> g[x]],
           g[k] = v, \A x \in D \ {k} : g[x] = f[x]
    PROVE  g = Promise!Extend(f, k, v)
<1> DEFINE h == [x \in DOMAIN f \cup {k} |-> IF x = k THEN v ELSE f[x]]
<1>1. h = Promise!Extend(f, k, v)
  BY Zenon DEF Promise!Extend
<1>2. DOMAIN f = D
  OBVIOUS
<1>3. g = h
  BY <1>2
<1> QED
  BY <1>1, <1>3

LEMMA DropIs ==
    ASSUME NEW f, NEW g, NEW k, NEW D,
           f = [x \in D |-> f[x]], g = [x \in D \ {k} |-> g[x]],
           \A x \in D \ {k} : g[x] = f[x]
    PROVE  g = Promise!Drop(f, k)
<1> DEFINE h == [x \in DOMAIN f \ {k} |-> f[x]]
<1>1. h = Promise!Drop(f, k)
  BY Zenon DEF Promise!Drop
<1>2. DOMAIN f = D
  OBVIOUS
<1>3. g = h
  BY <1>2
<1> QED
  BY <1>1, <1>3

(* Whom r may trade with: the makers of the levels its limit reaches *)
LEMMA AcceptableIs ==
    ASSUME IInv, NEW r, r.side \in Side,
           taker = 0 \/ (taker \in Id /\ order[taker].side = r.side)
    PROVE  /\ Promise!Acceptable(r) = Makers(Opposite(r.side), Crossed(r))
           /\ Promise!Acceptable(r) \subseteq OpenIds
<1> DEFINE A == {m \in DOMAIN Open :
                    /\ Sent[m].side # r.side
                    /\ \/ r.type = "Market"
                       \/ r.side = "Bid" /\ Sent[m].price <= r.price
                       \/ r.side = "Ask" /\ Sent[m].price >= r.price}
           o == Opposite(r.side)
<1>1. Promise!Acceptable(r) = A
  BY Zenon DEF Promise!Acceptable, Open, OpenIds, Sent
<1>2. DOMAIN Open = OpenIds
  BY DEF Open
<1>3. \A m \in OpenIds : m \in Id /\ m # taker /\ Resting(m) /\ m \in Submitted /\ Sent[m] = order[m]
  BY BookFacts DEF OpenIds, Sent
<1>4. o \in Side /\ o # r.side /\ Side = {"Bid", "Ask"}
  BY SideFacts DEF Side
<1>5. ASSUME NEW m \in A PROVE m \in Makers(o, Crossed(r))
  <2>1. PICK s \in Side, p \in Price : Contains(queue[s][p], m)
    BY <1>2, <1>3 DEF Resting
  <2>2. m \in Id /\ order[m].side = s /\ order[m].price = p /\ Sent[m] = order[m]
    BY <1>2, <1>3, <2>1, BookFacts DEF IndexCoversBook
  <2>3. s = o
    BY <1>4, <2>2
  <2>4. r.type = "Market" \/ PriceCrosses(r.side, r.price, p)
    BY <1>4, <2>2 DEF PriceCrosses
  <2>5. p \in Levels(o)
    BY <2>1, <2>3 DEF Levels, Contains
  <2> QED
    BY <2>1, <2>2, <2>3, <2>4, <2>5 DEF Makers, Crossed
<1>6. ASSUME NEW m \in Makers(o, Crossed(r)) PROVE m \in A
  <2>1. PICK p \in Crossed(r) : Contains(queue[o][p], m)
    BY DEF Makers
  <2>2. p \in Price /\ (r.type = "Market" \/ PriceCrosses(r.side, r.price, p)) /\ m \in Id
    BY DEF Crossed, Levels, Makers
  <2>3. order[m].side = o /\ order[m].price = p /\ Resting(m)
    BY <1>4, <2>1, <2>2, BookFacts DEF IndexCoversBook, Resting
  <2>4. m # taker
    BY <1>4, <2>2, <2>3 DEF Id
  <2>5. m \in OpenIds
    BY <2>2, <2>3, <2>4 DEF OpenIds
  <2>6. Sent[m] = order[m]
    BY <1>3, <2>5
  <2> QED
    BY <1>2, <1>4, <2>2, <2>3, <2>5, <2>6 DEF PriceCrosses
<1>7. A = Makers(o, Crossed(r)) /\ A \subseteq OpenIds
  BY <1>2, <1>5, <1>6
<1> QED
  BY <1>1, <1>7, Zenon

LEMMA OfferedIs ==
    ASSUME IInv, NEW r, r.side \in Side, taker = 0
    PROVE  Promise!Offered(r) = SetSum(remaining_qty, Makers(Opposite(r.side), Crossed(r)))
<1> DEFINE M == Makers(Opposite(r.side), Crossed(r))
<1>1. Promise!Offered(r) = SetSum(Open, Promise!Acceptable(r))
  BY Zenon DEF Promise!Offered, Promise!MapThenSumSet, Promise!MapThenFoldSet, SetSum, FoldOf,
               IsFold, First, Open, OpenIds
<1>2. Promise!Acceptable(r) = M /\ M \subseteq OpenIds
  BY AcceptableIs
<1>3. \A x \in M : Open[x] = remaining_qty[x]
  BY <1>2 DEF Open
<1>4. IsFiniteSet(M)
  BY IdsFinite DEF Makers
<1> HIDE DEF M
<1>5. SetSum(Open, M) = SetSum(remaining_qty, M)
  BY <1>3, <1>4, SetSumSame
<1> QED
  BY <1>1, <1>2, <1>5 DEF M

LEMMA ArriveStep ==
    ASSUME AllInv, NEW r, GoodOrder(r), NewOrder(r), filled' = filled
    PROVE  Promise!Arrive(r) /\ taker = 0
<1> DEFINE n == next_order_id_
<1>1. /\ n \in Id /\ n \notin Submitted /\ Submitted' = Submitted \cup {n}
      /\ order'[n] = r /\ \A i \in Submitted : order'[i] = order[i]
      /\ filled[n] = 0 /\ taker = 0
  BY NewOrderFacts DEF AllInv
<1>2. n' = n + 1 /\ n <= MaxOrders
  BY <1>1, ConstantsAssumption DEF NewOrder, Id
<1>3. Sent' = Promise!Extend(Sent, n, r)
  <2> DEFINE f == Sent
             g == Sent'
  <2>1. /\ f = [x \in Submitted |-> f[x]] /\ g = [x \in Submitted \cup {n} |-> g[x]]
        /\ g[n] = r /\ \A x \in Submitted \ {n} : g[x] = f[x]
    BY <1>1 DEF Sent
  <2> HIDE DEF f, g
  <2>2. g = Promise!Extend(f, n, r)
    BY <2>1, ExtendIs
  <2> QED
    BY <2>2 DEF f, g
<1>4. Done' = Promise!Extend(Done, n, 0)
  <2> DEFINE f == Done
             g == Done'
  <2>1. /\ f = [x \in Submitted |-> f[x]] /\ g = [x \in Submitted \cup {n} |-> g[x]]
        /\ g[n] = 0 /\ \A x \in Submitted \ {n} : g[x] = f[x]
    BY <1>1 DEF Done
  <2> HIDE DEF f, g
  <2>2. g = Promise!Extend(f, n, 0)
    BY <2>1, ExtendIs
  <2> QED
    BY <2>2 DEF f, g
<1>5. Promise!Arrive(r)
  BY <1>1, <1>2, <1>3, <1>4, Zenon DEF Promise!Arrive, Sent, Done
<1> QED
  BY <1>1, <1>5

LEMMA OpenSame ==
    ASSUME OpenIds' = OpenIds, \A i \in OpenIds : remaining_qty'[i] = remaining_qty[i]
    PROVE  Open' = Open
BY DEF Open

LEMMA OpenGrows ==
    ASSUME NEW n, NEW q, OpenIds' = OpenIds \cup {n}, n \notin OpenIds, remaining_qty'[n] = q,
           \A i \in OpenIds : remaining_qty'[i] = remaining_qty[i]
    PROVE  Open' = Promise!Extend(Open, n, q)
<1> DEFINE f == Open
           g == Open'
           D == OpenIds
<1>1. /\ f = [x \in D |-> f[x]] /\ g = [x \in D \cup {n} |-> g[x]]
      /\ g[n] = q /\ \A x \in D \ {n} : g[x] = f[x]
  BY DEF Open
<1> HIDE DEF f, g, D
<1>2. g = Promise!Extend(f, n, q)
  BY <1>1, ExtendIs
<1> QED
  BY <1>2 DEF f, g

LEMMA OpenShrinks ==
    ASSUME NEW n, OpenIds' = OpenIds \ {n},
           \A i \in OpenIds \ {n} : remaining_qty'[i] = remaining_qty[i]
    PROVE  Open' = Promise!Drop(Open, n)
<1> DEFINE f == Open
           g == Open'
           D == OpenIds
<1>1. /\ f = [x \in D |-> f[x]] /\ g = [x \in D \ {n} |-> g[x]]
      /\ \A x \in D \ {n} : g[x] = f[x]
  BY DEF Open
<1> HIDE DEF f, g, D
<1>2. g = Promise!Drop(f, n)
  BY <1>1, DropIs
<1> QED
  BY <1>2 DEF f, g

(* wouldMatch: whether anyone acceptable rests *)
LEMMA WouldMatchIs ==
    ASSUME IInv, NEW r, r.side \in Side, r.type # "Market", taker = 0
    PROVE  WouldMatch(r.side, r.price) <=> Promise!Acceptable(r) # {}
<1> DEFINE o == Opposite(r.side)
<1>1. Promise!Acceptable(r) = Makers(o, Crossed(r))
  BY AcceptableIs
<1>2. WouldMatch(r.side, r.price) <=> Crossed(r) # {}
  BY DEF WouldMatch, Crossed
<1>3. Crossed(r) # {} <=> Makers(o, Crossed(r)) # {}
  <2>1. ASSUME NEW p \in Crossed(r) PROVE Makers(o, Crossed(r)) # {}
    <3>1. p \in Price /\ p \in Levels(o) /\ o \in Side
      BY SideFacts DEF Crossed, Levels
    <3>2. PICK i \in Id : Contains(queue[o][p], i)
      BY <3>1, BookFacts, LevelOccupied
    <3> QED
      BY <3>2 DEF Makers
  <2> QED
    BY <2>1 DEF Makers
<1> QED
  BY <1>1, <1>2, <1>3

LEMMA PostOnlyStep ==
    ASSUME Plain, AllInv, NEW r \in Request, SubmitPostOnly(r)
    PROVE  Promise!ArrivePassive(r)
<1> DEFINE n == next_order_id_
<1>1. /\ r.type = "PostOnly" /\ NewOrder(r) /\ GoodOrder(r)
      /\ r.side \in Side /\ r.price \in Price /\ r.total_qty \in Nat
  BY RequestFacts DEF SubmitPostOnly
<1>2. filled' = filled /\ taker' = taker /\ remaining' = remaining
  BY DEF SubmitPostOnly, ReturnAtOnce, call, hist
<1>3. Promise!Arrive(r) /\ taker = 0
  BY <1>1, <1>2, ArriveStep
<1>4. IInv
  BY DEF AllInv
<1>5. WouldMatch(r.side, r.price) <=> Promise!Acceptable(r) # {}
  BY <1>1, <1>3, <1>4, WouldMatchIs
<1>6. CASE WouldMatch(r.side, r.price) /\ ReturnAtOnce("Rejected") /\ UNCHANGED book
  <2>1. Reply' = <<n, "Rejected">>
    BY <1>6 DEF ReturnAtOnce, Reply
  <2>2. Open' = Open
    <3>1. OpenIds' = OpenIds /\ remaining_qty' = remaining_qty
      BY <1>2, <1>6 DEF OpenIds, Resting, book
    <3> QED
      BY <3>1, OpenSame
  <2> QED
    BY <1>1, <1>2, <1>3, <1>5, <1>6, <2>1, <2>2, Zenon DEF Promise!ArrivePassive, Open, OpenIds, Reply
<1>7. CASE ~WouldMatch(r.side, r.price) /\ AddToLevel(n, r, r.total_qty) /\ ReturnAtOnce("Accepted")
  <2>1. Reply' = <<n, "Accepted">>
    BY <1>7 DEF ReturnAtOnce, Reply
  <2>2. n \in Id /\ ~Resting(n)
    BY <1>1, <1>4, NewOrderFacts
  <2>3. /\ \A i \in Id : Resting(i)' <=> Resting(i) \/ i = n
        /\ remaining_qty' = [remaining_qty EXCEPT ![n] = r.total_qty]
    BY <1>1, <1>4, <1>7, <2>2, AddRests
  <2>4. OpenIds' = OpenIds \cup {n} /\ n \notin OpenIds
    <3>1. 0 \notin Id
      BY DEF Id
    <3> QED
      BY <1>2, <1>3, <2>2, <2>3, <3>1 DEF OpenIds
  <2>5. remaining_qty'[n] = r.total_qty /\ \A i \in OpenIds : remaining_qty'[i] = remaining_qty[i]
    <3>1. remaining_qty \in [Id -> Nat]
      BY <1>4 DEF IInv, TypeOK
    <3> QED
      BY <2>2, <2>3, <2>4, <3>1 DEF OpenIds
  <2>6. Open' = Promise!Extend(Open, n, r.total_qty)
    BY <2>4, <2>5, OpenGrows
  <2> QED
    BY <1>1, <1>2, <1>3, <1>5, <1>7, <2>1, <2>6, Zenon DEF Promise!ArrivePassive, Open, OpenIds, Reply
<1> QED
  BY <1>6, <1>7 DEF SubmitPostOnly

LEMMA ActiveStep ==
    ASSUME Plain, AllInv, NEW r \in Request, r.type \notin {"PostOnly", "Iceberg"},
           NewOrder(r), BeginMatching(r),
           r.type = "FOK" => Promise!Offered(r) >= r.total_qty
    PROVE  Promise!ArriveActive(r)
<1> DEFINE n == next_order_id_
<1>1. GoodOrder(r) /\ IInv
  BY RequestFacts DEF AllInv
<1>2. /\ filled' = filled /\ taker' = n /\ remaining' = r.total_qty /\ result' = NoResult
      /\ queue' = queue /\ remaining_qty' = remaining_qty
  BY DEF BeginMatching, book, hist
<1>3. Promise!Arrive(r) /\ taker = 0
  BY <1>1, <1>2, ArriveStep
<1>4. Reply' = Promise!Waiting
  <2>1. Promise!Waiting = <<0, "None">>
    BY Zenon DEF Promise!Waiting
  <2> QED
    BY <1>2, <2>1 DEF Reply, NoResult
<1>5. Open' = Open
  <2>1. ~Resting(n) /\ 0 \notin Id
    BY <1>1, NewOrderFacts
  <2>2. OpenIds' = {x \in Id \ {n} : Resting(x)}
    BY <1>2 DEF OpenIds, Resting
  <2>3. OpenIds' = OpenIds
    BY <1>3, <2>1, <2>2 DEF OpenIds
  <2> QED
    BY <1>2, <2>3, OpenSame
<1> QED
  BY <1>2, <1>3, <1>4, <1>5, Zenon DEF Promise!ArriveActive, Open, OpenIds, Reply

LEMMA SubmitStep ==
    ASSUME Plain, AllInv, NEW K \in Nat, \A q \in Qty : q <= K, MaxOrders * (2 * K) < QMod,
           NEW r \in Request, SubmitOrder(r)
    PROVE  Promise!ArrivePassive(r) \/ Promise!Kill(r) \/ Promise!ArriveActive(r)
<1>1. r.type # "Iceberg" /\ GoodOrder(r) /\ r.side \in Side /\ r.total_qty \in Nat /\ IInv
  BY RequestFacts DEF Plain, AllInv
<1>2. CASE SubmitPostOnly(r)
  BY <1>2, PostOnlyStep
<1>3. CASE SubmitStandard(r)
  BY <1>1, <1>3, ActiveStep DEF SubmitStandard
<1>4. CASE SubmitFOK(r)
  <2>1. r.type = "FOK" /\ NewOrder(r) /\ pc = "idle"
    BY <1>4 DEF SubmitFOK, NewOrder
  <2>2. taker = 0
    BY <1>1, <2>1 DEF IInv, CallCoherent
  <2>3. Promise!Offered(r) = AvailableQty(r.side, r.price)
    <3>1. Promise!Offered(r) = SetSum(remaining_qty, Makers(Opposite(r.side), Crossed(r)))
      BY <1>1, <2>2, OfferedIs
    <3>2. AvailableQty(r.side, r.price) = SetSum(remaining_qty, Makers(Opposite(r.side), Crossed(r)))
      BY <2>1, AvailablePlain
    <3> QED
      BY <3>1, <3>2, Zenon
  <2>4. CASE AvailableQty(r.side, r.price) < r.total_qty /\ ReturnAtOnce("Cancelled") /\ UNCHANGED book
    <3>1. /\ filled' = filled /\ taker' = taker /\ remaining' = remaining
          /\ queue' = queue /\ remaining_qty' = remaining_qty
          /\ Reply' = <<next_order_id_, "Cancelled">>
      BY <2>4 DEF ReturnAtOnce, call, hist, book, Reply
    <3>2. Promise!Arrive(r)
      BY <1>1, <2>1, <3>1, ArriveStep
    <3>3. Open' = Open
      <4>1. OpenIds' = OpenIds
        BY <3>1 DEF OpenIds, Resting
      <4> QED
        BY <3>1, <4>1, OpenSame
    <3>4. Promise!Offered(r) < r.total_qty
      BY <2>3, <2>4, Zenon
    <3>5. Promise!Kill(r)
      BY <2>1, <3>1, <3>2, <3>3, <3>4, Zenon DEF Promise!Kill, Open, OpenIds, Reply
    <3> QED
      BY <3>5
  <2>5. CASE AvailableQty(r.side, r.price) >= r.total_qty /\ BeginMatching(r)
    <3>1. Promise!Offered(r) >= r.total_qty
      BY <2>3, <2>5, Zenon
    <3>2. Promise!ArriveActive(r)
      BY <1>1, <2>1, <2>5, <3>1, ActiveStep
    <3> QED
      BY <3>2
  <2> QED
    BY <1>4, <2>4, <2>5 DEF SubmitFOK
<1>5. CASE SubmitIceberg(r)
  BY <1>1, <1>5 DEF SubmitIceberg
<1> QED
  BY <1>2, <1>3, <1>4, <1>5 DEF SubmitOrder

LEMMA MinIs ==
    ASSUME NEW a \in Nat, NEW b \in Nat, NEW c \in Nat, c <= a, c <= b, c = a \/ c = b
    PROVE  Promise!Min({a, b}) = c
<1> DEFINE S == {a, b}
           x == CHOOSE x \in S : \A y \in S : x =< y
<1>1. Promise!Min(S) = x
  BY Zenon DEF Promise!Min
<1>2. c \in S /\ \A y \in S : c =< y
  OBVIOUS
<1>3. x \in S /\ \A y \in S : x =< y
  BY <1>2, Zenon
<1>4. x = c
  <2>1. x \in Nat /\ x =< c /\ c =< x
    BY <1>2, <1>3
  <2> QED
    BY <2>1
<1> QED
  BY <1>1, <1>4, Zenon

(* The front of the best level: no order of its side stands at a better    *)
(* price, nor at its price and is older.                                   *)
LEMMA FrontIsBest ==
    ASSUME Plain, IInv, BInv, NEW s \in Side, NEW p \in Price, NEW m \in Id,
           IsBest(s, p), queue[s][p] # <<>>, m = Head(queue[s][p]),
           NEW x \in Id, Resting(x), order[x].side = s
    PROVE  /\ ~Better(s, order[x].price, p)
           /\ order[x].price = p => m <= x
<1>1. queue[s][p] \in Seq(Id) /\ InOrder(queue[s][p], order)
  BY BookFacts DEF BookTypeOK, BInv, LevelsGood, OldestFirst
<1>2. PICK q : q = queue[s][p]
  OBVIOUS
<1>3. /\ q \in Seq(Id) /\ q # <<>> /\ DOMAIN q = 1 .. Len(q) /\ Len(q) \in Nat /\ q[1] = m
  BY <1>1, <1>2
<1>4. PICK l \in Price : Contains(queue[s][l], x) /\ order[x].price = l
  BY BookFacts DEF Resting, IndexCoversBook
<1>5. ~Better(s, l, p)
  <2>1. l \in Levels(s)
    BY <1>4 DEF Levels, Contains
  <2> QED
    BY <2>1 DEF IsBest
<1>6. ASSUME l = p, x # m PROVE m < x
  <2>1. PICK k \in DOMAIN q : q[k] = x
    BY <1>2, <1>3, <1>4, <1>6 DEF Contains
  <2>2. 1 \in DOMAIN q /\ 1 < k
    BY <1>3, <1>6, <2>1
  <2>3. m \in Submitted /\ x \in Submitted
    <3>1. Contains(q, m)
      BY <1>3, <2>2 DEF Contains
    <3> QED
      BY <1>2, <3>1, BookFacts DEF Resting
  <2>4. ~IsIceberg(order[m]) /\ ~IsIceberg(order[x])
    BY <2>3, PlainFacts
  <2> QED
    BY <1>1, <1>2, <1>3, <2>1, <2>2, <2>4 DEF InOrder
<1> QED
  BY <1>4, <1>5, <1>6 DEF Id

LEMMA NothingBeats ==
    ASSUME Plain, AllInv, NEW s \in Side, NEW p \in Price, NEW m \in Id,
           taker \in Id, order[taker].side \in Side, s = Opposite(order[taker].side),
           p \in Reach, IsBest(s, p), queue[s][p] # <<>>, m = Head(queue[s][p])
    PROVE  /\ m \in Promise!Acceptable(order[taker]) /\ m \in OpenIds
           /\ \A x \in Promise!Acceptable(order[taker]) : ~Promise!Beats(x, m, order[taker])
<1> DEFINE r == order[taker]
<1>1. IInv /\ BInv
  BY DEF AllInv
<1>2. /\ Promise!Acceptable(r) = Makers(s, Crossed(r))
      /\ Promise!Acceptable(r) \subseteq OpenIds
  BY <1>1, AcceptableIs
<1>3. Contains(queue[s][p], m)
  <2>1. queue[s][p] \in Seq(Id)
    BY <1>1, BookFacts DEF BookTypeOK
  <2> QED
    BY <2>1, TailFacts
<1>4. m \in Promise!Acceptable(r)
  BY <1>2, <1>3, ReachIsCrossed DEF Makers
<1>5. order[m].side = s /\ order[m].price = p
  BY <1>1, <1>3, BookFacts DEF IndexCoversBook
<1>6. ASSUME NEW x \in Promise!Acceptable(r) PROVE ~Promise!Beats(x, m, r)
  <2>1. x \in Id /\ Resting(x) /\ x \in Submitted /\ m \in Submitted
    <3>1. x \in OpenIds /\ m \in OpenIds
      BY <1>2, <1>4
    <3> QED
      BY <1>1, <3>1, BookFacts DEF OpenIds
  <2>2. order[x].side = s /\ order[x].price \in Price
    <3>1. PICK l \in Crossed(r) : Contains(queue[s][l], x)
      BY <1>2 DEF Makers
    <3>2. l \in Price
      BY DEF Crossed, Levels
    <3> QED
      BY <1>1, <2>1, <3>1, <3>2, BookFacts DEF IndexCoversBook
  <2>3. ~Better(s, order[x].price, p) /\ (order[x].price = p => m <= x)
    BY <1>1, <2>1, <2>2, FrontIsBest
  <2>4. Promise!Beats(x, m, r) <=>
          \/ IF r.side = "Bid" THEN Sent[x].price < Sent[m].price ELSE Sent[x].price > Sent[m].price
          \/ Sent[x].price = Sent[m].price /\ x < m
    BY Zenon DEF Promise!Beats, Sent
  <2>5. Sent[x] = order[x] /\ Sent[m] = order[m]
    BY <2>1 DEF Sent
  <2>6. ~(x < m /\ m <= x)
    BY <2>1 DEF Id
  <2>7. Better(s, order[x].price, p) <=>
          IF r.side = "Bid" THEN order[x].price < p ELSE order[x].price > p
    BY DEF Better, Opposite, Side
  <2> QED
    BY <1>5, <2>3, <2>4, <2>5, <2>6, <2>7
<1> QED
  BY <1>2, <1>4, <1>6

LEMMA TradeStep ==
    ASSUME Plain, AllInv, MatchStep
    PROVE  Promise!Trade
<1>1. PICK s \in Side, p \in Price, m \in Id, c \in Nat :
              /\ s = Opposite(order[taker].side) /\ IsBest(s, p) /\ p \in Reach
              /\ queue[s][p] # <<>>
              /\ FillEffect(s, p, m, c)
              /\ UNCHANGED <<next_order_id_, order, orders_index_, icebergs_, hidden_remaining,
                             pc, taker, total_trades_, recent_trades_>>
              /\ pc = "match" /\ taker \in Id /\ m # taker
              /\ Resting(m)
  BY MatchFacts, ZenonT(60) DEF AllInv
<1>2. /\ c <= remaining /\ c <= remaining_qty[m] /\ (c = remaining \/ c = remaining_qty[m])
      /\ remaining' = remaining - c
      /\ remaining_qty' = [remaining_qty EXCEPT ![m] = @ - c]
      /\ filled' = [filled EXCEPT ![m] = @ + c, ![taker] = @ + c]
      /\ m = Head(queue[s][p])
      /\ \A i \in Id : Resting(i)' <=> Resting(i) /\ ~(i = m /\ c = remaining_qty[m])
  BY <1>1 DEF FillEffect, Resting
<1>3. /\ remaining_qty \in [Id -> Nat] /\ filled \in [Id -> Nat]
      /\ remaining > 0 /\ remaining \in Nat
      /\ taker \in Submitted /\ m \in Submitted /\ taker # 0
      /\ order[taker] \in Order /\ result' = result
  <2>1. IInv /\ remaining > 0
    BY DEF AllInv, MatchStep
  <2>2. result' = result
    BY Zenon DEF MatchStep, FillFront
  <2>3. taker \in Submitted /\ m \in Submitted
    BY <1>1, <2>1, BookFacts DEF IInv, CallCoherent
  <2>4. /\ remaining_qty \in [Id -> Nat] /\ filled \in [Id -> Nat] /\ remaining \in Nat
        /\ order \in [Id -> Order]
    BY <2>1 DEF IInv, TypeOK
  <2>5. taker \in Id
    BY <1>1
  <2>6. taker # 0
    BY <2>5 DEF Id
  <2> QED
    BY <2>1, <2>2, <2>3, <2>4, <2>5, <2>6
<1>4. order[taker].side \in Side
  BY <1>3, SMTT(40) DEF Order
<1>5. /\ m \in Promise!Acceptable(order[taker]) /\ m \in OpenIds
      /\ \A x \in Promise!Acceptable(order[taker]) : ~Promise!Beats(x, m, order[taker])
  BY <1>1, <1>2, <1>4, NothingBeats
<1>6. Sent[taker] = order[taker] /\ Sent' = Sent /\ Submitted' = Submitted
  BY <1>1, <1>3 DEF Sent, Submitted
<1>7. Open[m] = remaining_qty[m]
  BY <1>5, ZenonT(60) DEF Open
<1>8. Promise!Min({remaining, Open[m]}) = c
  BY <1>1, <1>2, <1>3, <1>7, MinIs
<1>9. Open' = IF c = Open[m] THEN Promise!Drop(Open, m) ELSE [Open EXCEPT ![m] = @ - c]
  <2>1. \A i \in OpenIds \ {m} : remaining_qty'[i] = remaining_qty[i]
    BY <1>2, <1>3 DEF OpenIds
  <2>2. CASE c = Open[m]
    <3>1. OpenIds' = OpenIds \ {m}
      <4>1. c = remaining_qty[m]
        BY <1>7, <2>2, Zenon
      <4>2. \A i \in Id : Resting(i)' <=> Resting(i) /\ i # m
        BY <1>2, <4>1, Zenon
      <4>3. taker' = taker
        BY <1>1
      <4> QED
        BY <4>2, <4>3 DEF OpenIds
    <3> QED
      BY <2>1, <2>2, <3>1, OpenShrinks, SMTT(40)
  <2>3. CASE c # Open[m]
    <3>1. OpenIds' = OpenIds
      <4>1. c # remaining_qty[m]
        BY <1>7, <2>3, Zenon
      <4>2. \A i \in Id : Resting(i)' <=> Resting(i)
        BY <1>2, <4>1, ZenonT(60)
      <4>3. taker' = taker
        BY <1>1
      <4> QED
        BY <4>2, <4>3 DEF OpenIds
    <3>2. remaining_qty'[m] = remaining_qty[m] - c
      BY <1>1, <1>2, <1>3
    <3>3. Open' = [i \in OpenIds |-> remaining_qty'[i]]
      BY <3>1 DEF Open
    <3>4. Open' = [Open EXCEPT ![m] = @ - c]
      BY <1>5, <1>7, <2>1, <3>2, <3>3 DEF Open
    <3> QED
      BY <2>3, <3>4, SMTT(40)
  <2> QED
    BY <2>2, <2>3
<1>10. Done' = [Done EXCEPT ![m] = @ + c, ![taker] = @ + c]
  BY <1>1, <1>2, <1>3, <1>6, SubmittedType DEF Done, AllInv, IInv
<1>11. Reply' = Reply
  BY <1>3 DEF Reply
<1> DEFINE q == Promise!Min({remaining, Open[m]})
<1>12. /\ remaining' = remaining - q
       /\ Open' = IF q = Open[m] THEN Promise!Drop(Open, m) ELSE [Open EXCEPT ![m] = @ - q]
       /\ Done' = [Done EXCEPT ![m] = @ + q, ![taker] = @ + q]
  BY <1>2, <1>8, <1>9, <1>10
<1>13. /\ m \in Promise!Acceptable(Sent[taker])
       /\ \A x \in Promise!Acceptable(Sent[taker]) : ~Promise!Beats(x, m, Sent[taker])
  BY <1>5, <1>6
<1>14. UNCHANGED <<next_order_id_, Sent, taker, Reply>>
  BY <1>1, <1>6, <1>11
<1> QED
  BY <1>3, <1>12, <1>13, <1>14, Zenon DEF Promise!Trade, Open, OpenIds, Sent, Done, Reply

(* The end of the matching loop is no step of Exchange: if the taker came  *)
(* to rest it is not on offer before its call returns.                     *)
LEMMA EndMatchStutters ==
    ASSUME Plain, AllInv, EndMatch
    PROVE  UNCHANGED <<next_order_id_, Sent, Open, taker, remaining, Done, Reply>>
<1>1. /\ UNCHANGED <<next_order_id_, order, taker, remaining, result, filled>>
      /\ \A i \in Id : Resting(i)' <=>
            Resting(i) \/ (i = taker /\ remaining > 0 /\ order[taker].type # "Market")
      /\ \A i \in Id \ {taker} : remaining_qty'[i] = remaining_qty[i]
  BY EndMatchFacts, Zenon
<1>2. OpenIds' = OpenIds
  BY <1>1 DEF OpenIds
<1>3. Open' = Open
  <2>1. \A i \in OpenIds : remaining_qty'[i] = remaining_qty[i]
    BY <1>1 DEF OpenIds
  <2> QED
    BY <1>2, <2>1, OpenSame
<1>4. Sent' = Sent /\ Done' = Done /\ Reply' = Reply
  BY <1>1 DEF Sent, Done, Reply, Submitted
<1> QED
  BY <1>1, <1>3, <1>4

LEMMA VerdictIs ==
    ASSUME NEW r, NEW rest \in Nat, r.total_qty \in Nat, r.total_qty > 0
    PROVE  /\ rest = 0 => Promise!Verdict(r, rest) = "Filled"
           /\ rest > 0 /\ r.type = "IOC" /\ rest = r.total_qty
                => Promise!Verdict(r, rest) = "Cancelled"
           /\ rest > 0 /\ r.type = "IOC" /\ rest < r.total_qty
                => Promise!Verdict(r, rest) = "PartialFill"
           /\ rest > 0 /\ r.type \in {"Limit", "Market"}
                => Promise!Verdict(r, rest) = "Accepted"
<1> DEFINE v == CASE rest = 0                                        -> "Filled"
                  [] rest > 0 /\ r.type = "IOC" /\ rest = r.total_qty -> "Cancelled"
                  [] rest > 0 /\ r.type = "IOC" /\ rest < r.total_qty -> "PartialFill"
                  [] rest > 0 /\ r.type \in {"Limit", "Market"}       -> "Accepted"
<1>1. Promise!Verdict(r, rest) = v
  BY Zenon DEF Promise!Verdict
<1>2. CASE rest = 0
  BY <1>1, <1>2
<1>3. CASE rest > 0 /\ r.type = "IOC" /\ rest = r.total_qty
  BY <1>1, <1>3
<1>4. CASE rest > 0 /\ r.type = "IOC" /\ rest < r.total_qty
  BY <1>1, <1>4
<1>5. CASE rest > 0 /\ r.type \in {"Limit", "Market"}
  BY <1>1, <1>5
<1> QED
  BY <1>2, <1>3, <1>4, <1>5

(* After the matching loop the taker's remainder rests, all of it. *)
LEMMA RemainderRests ==
    ASSUME Plain, AllInv, pc = "refresh"
    PROVE  /\ taker \in Id /\ taker \in Submitted /\ taker # 0
           /\ Resting(taker) <=> remaining > 0 /\ order[taker].type # "Market"
           /\ Resting(taker) => remaining_qty[taker] = remaining
           /\ ~Resting(taker) => orders_index_[taker] = NoLoc
           /\ Resting(taker) => orders_index_[taker] = <<order[taker].side, order[taker].price>>
           /\ remaining \in Nat /\ order[taker] \in Order
<1>1. /\ taker \in Submitted /\ taker \in Id /\ IInv /\ BInv
      /\ remaining \in Nat /\ order[taker] \in Order
      /\ filled[taker] \in Nat /\ remaining_qty[taker] \in Nat /\ order[taker].total_qty \in Int
  <2>1. taker \in Submitted /\ IInv /\ BInv /\ TypeOK
    BY DEF AllInv, IInv, CallCoherent
  <2>2. taker \in Id
    BY <2>1, SubmittedType
  <2>3. /\ remaining \in Nat /\ order[taker] \in Order
        /\ filled[taker] \in Nat /\ remaining_qty[taker] \in Nat
    BY <2>1, <2>2 DEF TypeOK
  <2>4. order[taker].total_qty \in Int
    BY <2>3, QtyNat DEF Order
  <2> QED
    BY <2>1, <2>2, <2>3, <2>4
<1>2. CASE remaining > 0 /\ order[taker].type # "Market"
  <2>1. Resting(taker) /\ orders_index_[taker] = <<order[taker].side, order[taker].price>>
    BY <1>1, <1>2 DEF BInv, BergsTracked, IInv, CallCoherent
  <2>2. filled[taker] + remaining_qty[taker] + hidden_remaining[taker]
          = order[taker].total_qty + Excess(taker)
    BY <1>1, <2>1 DEF IInv, Conservation, Conserved
  <2>3. hidden_remaining[taker] = 0 /\ Excess(taker) = 0
    BY <1>1, PlainFacts
  <2>4. filled[taker] + remaining = order[taker].total_qty
    BY DEF AllInv, XInv, CallProgress
  <2>5. remaining_qty[taker] = remaining
    BY <1>1, <2>2, <2>3, <2>4
  <2> QED
    BY <1>1, <1>2, <2>1, <2>5 DEF Id
<1>3. CASE ~(remaining > 0 /\ order[taker].type # "Market")
  <2>1. orders_index_[taker] = NoLoc
    BY <1>1, <1>3 DEF IInv, CallCoherent
  <2>2. ~Resting(taker)
    BY <1>1, <2>1, UnindexedNotResting, BookFacts
  <2> QED
    BY <1>1, <1>3, <2>1, <2>2 DEF Id
<1> QED
  BY <1>2, <1>3

LEMMA ReplyIs ==
    ASSUME Plain, AllInv, ReturnStandard \/ ReturnFOK \/ ReturnIOC
    PROVE  Reply' = <<taker, Promise!Verdict(order[taker], remaining)>>
<1> DEFINE r == order[taker]
<1>1. pc = "refresh"
  BY DEF ReturnStandard, ReturnFOK, ReturnIOC, Returning
<1>2. remaining \in Nat /\ r \in Order /\ taker \in Submitted /\ taker \in Id
  BY <1>1, RemainderRests
<1>3. r.total_qty \in Nat /\ r.total_qty > 0
  BY <1>2, SizePositive, QtyNat DEF Order, AllInv
<1>4. /\ filled[taker] + remaining = r.total_qty
      /\ trades = <<>> <=> remaining = r.total_qty
  BY <1>1 DEF AllInv, XInv, CallProgress
<1>5. remaining <= r.total_qty
  <2>1. filled[taker] \in Nat
    BY <1>2 DEF AllInv, IInv, TypeOK
  <2> QED
    BY <1>2, <1>3, <1>4, <2>1
<1>6. CASE ReturnStandard
  <2>1. Reply' = <<taker, IF remaining = 0 THEN "Filled" ELSE "Accepted">>
    BY <1>6 DEF ReturnStandard, Return, Reply
  <2>2. r.type \in {"Limit", "Market"}
    BY <1>6 DEF ReturnStandard, Returning
  <2>3. Promise!Verdict(r, remaining) = IF remaining = 0 THEN "Filled" ELSE "Accepted"
    BY <1>2, <1>3, <2>2, VerdictIs
  <2> QED
    BY <2>1, <2>3
<1>7. CASE ReturnFOK
  <2>1. Reply' = <<taker, IF remaining = 0 THEN "Filled" ELSE "Cancelled">>
    BY <1>7 DEF ReturnFOK, Return, Reply
  <2>2. remaining = 0
    BY <1>1, <1>7, FOKCoveredIs DEF ReturnFOK, Returning, AllInv, XInv
  <2>3. Promise!Verdict(r, remaining) = "Filled"
    BY <1>2, <1>3, <2>2, VerdictIs
  <2> QED
    BY <2>1, <2>2, <2>3
<1>8. CASE ReturnIOC
  <2> DEFINE v == CASE trades = <<>> -> "Cancelled"
                    [] trades # <<>> /\ remaining = 0 -> "Filled"
                    [] trades # <<>> /\ remaining > 0 -> "PartialFill"
  <2>1. Reply' = <<taker, v>>
    BY <1>8, Zenon DEF ReturnIOC, Return, Reply
  <2>2. r.type = "IOC"
    BY <1>8 DEF ReturnIOC, Returning
  <2>3. CASE trades = <<>>
    <3>1. remaining > 0 /\ remaining = r.total_qty
      BY <1>3, <1>4, <2>3
    <3>2. Promise!Verdict(r, remaining) = "Cancelled"
      BY <1>2, <1>3, <2>2, <3>1, VerdictIs
    <3>3. v = "Cancelled"
      BY <2>3
    <3> QED
      BY <2>1, <3>2, <3>3
  <2>4. CASE trades # <<>> /\ remaining = 0
    <3>1. Promise!Verdict(r, remaining) = "Filled"
      BY <1>2, <1>3, <2>4, VerdictIs
    <3>2. v = "Filled"
      BY <2>4
    <3> QED
      BY <2>1, <3>1, <3>2
  <2>5. CASE trades # <<>> /\ remaining > 0
    <3>1. remaining < r.total_qty
      BY <1>2, <1>3, <1>4, <1>5, <2>5
    <3>2. Promise!Verdict(r, remaining) = "PartialFill"
      BY <1>2, <1>3, <2>2, <2>5, <3>1, VerdictIs
    <3>3. v = "PartialFill"
      BY <2>5
    <3> QED
      BY <2>1, <3>2, <3>3
  <2> QED
    BY <1>2, <2>3, <2>4, <2>5
<1> QED
  BY <1>6, <1>7, <1>8

LEMMA FinishStep ==
    ASSUME Plain, AllInv, ReturnStandard \/ ReturnFOK \/ ReturnIOC
    PROVE  Promise!Finish
<1> DEFINE r == order[taker]
<1>1. /\ pc = "refresh" /\ taker' = 0 /\ remaining' = 0
      /\ UNCHANGED <<next_order_id_, order, filled>>
      /\ r.type \in {"Limit", "Market", "FOK", "IOC"}
  BY DEF ReturnStandard, ReturnFOK, ReturnIOC, Returning, Return, hist
<1>2. /\ taker \in Id /\ taker \in Submitted /\ taker # 0
      /\ Resting(taker) <=> remaining > 0 /\ r.type # "Market"
      /\ Resting(taker) => remaining_qty[taker] = remaining
      /\ Resting(taker) => orders_index_[taker] = <<r.side, r.price>>
      /\ remaining \in Nat /\ r \in Order /\ r.side \in Side
  BY <1>1, RemainderRests DEF Order
<1>3. remaining = 0 \/ Promise!Acceptable(r) = {}
  <2>1. remaining = 0 \/ Reach = {}
    BY <1>1 DEF AllInv, XInv, CallProgress
  <2>2. Promise!Acceptable(r) = Makers(Opposite(r.side), Reach)
    BY <1>2, AcceptableIs, ReachIsCrossed DEF AllInv
  <2> QED
    BY <2>1, <2>2 DEF Makers
<1>4. Sent' = Sent /\ Done' = Done /\ Sent[taker] = r
  BY <1>1, <1>2 DEF Sent, Done, Submitted
<1>5. Reply' = <<taker, Promise!Verdict(r, remaining)>>
  BY ReplyIs
<1>6. remaining_qty \in [Id -> Nat] /\ 0 \notin Id
  BY DEF AllInv, IInv, TypeOK, Id
<1>7. CASE UNCHANGED book
  <2>1. (\A i : Resting(i)' <=> Resting(i)) /\ remaining_qty' = remaining_qty
    BY <1>7 DEF Resting, book
  <2>2. CASE remaining > 0 /\ r.type = "Limit"
    <3>1. OpenIds' = OpenIds \cup {taker} /\ taker \notin OpenIds
      BY <1>1, <1>2, <1>6, <2>1, <2>2 DEF OpenIds
    <3>2. remaining_qty'[taker] = remaining
      BY <1>2, <2>1, <2>2
    <3>3. Open' = Promise!Extend(Open, taker, remaining)
      BY <2>1, <3>1, <3>2, OpenGrows
    <3> QED
      BY <1>1, <1>2, <1>3, <1>4, <1>5, <2>2, <3>3, Zenon
         DEF Promise!Finish, Open, OpenIds, Sent, Done, Reply
  <2>3. CASE ~(remaining > 0 /\ r.type = "Limit")
    <3>1. ~Resting(taker)
      <4>1. CASE ReturnStandard
        BY <1>2, <2>3, <4>1 DEF ReturnStandard, Returning
      <4>2. CASE ReturnFOK
        <5>1. remaining = 0
          BY <1>1, <4>2, FOKCoveredIs DEF ReturnFOK, Returning, AllInv, XInv
        <5> QED
          BY <1>2, <5>1
      <4>3. CASE ReturnIOC /\ Resting(taker)
        <5>1. RemoveFromBook(taker)
          BY <1>2, <4>3 DEF ReturnIOC
        <5>2. orders_index_[taker] # NoLoc
          BY <1>2, <4>3 DEF NoLoc, Side
        <5>3. \A i \in Id : Resting(i)' <=> Resting(i) /\ i # taker
          BY <1>2, <5>1, <5>2, RemovalRests DEF AllInv
        <5> QED
          BY <1>2, <2>1, <4>3, <5>3
      <4> QED
        BY <4>1, <4>2, <4>3
    <3>2. OpenIds' = OpenIds
      BY <1>1, <1>2, <1>6, <2>1, <3>1 DEF OpenIds
    <3>3. Open' = Open
      BY <2>1, <3>2, OpenSame
    <3> QED
      BY <1>1, <1>2, <1>3, <1>4, <1>5, <2>3, <3>3, Zenon
         DEF Promise!Finish, Open, OpenIds, Sent, Done, Reply
  <2> QED
    BY <2>2, <2>3
<1>8. CASE ~UNCHANGED book
  <2>1. ReturnIOC /\ remaining > 0
    BY <1>8 DEF ReturnStandard, ReturnFOK, ReturnIOC
  <2>2. RemoveFromBook(taker) /\ r.type = "IOC"
    BY <2>1 DEF ReturnIOC, Returning
  <2>3. orders_index_[taker] # NoLoc
    BY <1>2, <2>1, <2>2 DEF NoLoc, Side
  <2>4. /\ \A i \in Id : Resting(i)' <=> Resting(i) /\ i # taker
        /\ remaining_qty' = [remaining_qty EXCEPT ![taker] = 0]
    BY <1>2, <2>2, <2>3, RemovalRests DEF AllInv
  <2>5. OpenIds' = OpenIds
    BY <1>1, <1>6, <2>4 DEF OpenIds
  <2>6. \A i \in OpenIds : remaining_qty'[i] = remaining_qty[i]
    BY <1>6, <2>4 DEF OpenIds
  <2>7. Open' = Open
    BY <2>5, <2>6, OpenSame
  <2>8. ~(remaining > 0 /\ r.type = "Limit")
    BY <2>2
  <2> QED
    BY <1>1, <1>2, <1>3, <1>4, <1>5, <2>7, <2>8, Zenon
       DEF Promise!Finish, Open, OpenIds, Sent, Done, Reply
<1> QED
  BY <1>7, <1>8

LEMMA CancelStep ==
    ASSUME Plain, AllInv, NEW id \in Id, CancelOrder(id)
    PROVE  Promise!Cancel(id) \/ Promise!CancelNothing(id)
<1>1. /\ taker = 0 /\ taker' = taker /\ remaining' = remaining
      /\ UNCHANGED <<next_order_id_, order, filled>>
  BY DEF CancelOrder, CancelFound, CancelUnknown, call, hist, AllInv, IInv, CallCoherent
<1>2. Sent' = Sent /\ Done' = Done
  BY <1>1 DEF Sent, Done, Submitted
<1>3. OpenIds = {x \in Id : Resting(x)} /\ OpenIds' = {x \in Id : Resting(x)'}
  BY <1>1 DEF OpenIds, Id
<1>4. IInv /\ BInv /\ remaining_qty \in [Id -> Nat] /\ DOMAIN Open = OpenIds
  BY DEF AllInv, IInv, TypeOK, Open
<1>5. CASE CancelFound(id)
  <2>1. RemoveFromBook(id) /\ orders_index_[id] # NoLoc /\ Reply' = <<0, "CancelTrue">>
    BY <1>5 DEF CancelFound, NoResult, Reply
  <2>2. /\ \A i \in Id : Resting(i)' <=> Resting(i) /\ i # id
        /\ remaining_qty' = [remaining_qty EXCEPT ![id] = 0]
    BY <1>4, <2>1, RemovalRests
  <2>3. OpenIds' = OpenIds \ {id} /\ \A i \in OpenIds \ {id} : remaining_qty'[i] = remaining_qty[i]
    BY <1>3, <1>4, <2>2
  <2>4. CASE Resting(id)
    <3>1. Open' = Promise!Drop(Open, id)
      BY <2>3, OpenShrinks
    <3>2. id \in DOMAIN Open
      BY <1>3, <1>4, <2>4
    <3>3. Promise!Cancel(id)
      BY <1>1, <1>2, <2>1, <3>1, <3>2, Zenon DEF Promise!Cancel, Open, OpenIds, Sent, Done, Reply
    <3> QED
      BY <3>3
  <2>5. CASE ~Resting(id)
    <3>1. Open' = Open
      <4>1. OpenIds' = OpenIds
        BY <1>3, <2>3, <2>5
      <4>2. \A i \in OpenIds : remaining_qty'[i] = remaining_qty[i]
        BY <1>3, <2>3, <2>5
      <4> QED
        BY <4>1, <4>2, OpenSame
    <3>2. id \notin DOMAIN Open
      BY <1>3, <1>4, <2>5
    <3>3. id \in Submitted
      BY <1>4, <2>1 DEF IInv, FreshUntouched
    <3>4. id < next_order_id_
      <4>1. next_order_id_ \in Nat /\ id \in Nat
        BY <1>4, ConstantsAssumption DEF IInv, TypeOK, Id
      <4> QED
        BY <3>3, <4>1 DEF Submitted
    <3>5. Sent[id] = order[id] /\ Done[id] = filled[id]
      BY <3>3 DEF Sent, Done
    <3>6. Done[id] = Sent[id].total_qty
      BY <2>1, <2>5, <3>5 DEF AllInv, XInv, GoneFilled
    <3>7. Promise!CancelNothing(id)
      BY <1>1, <1>2, <2>1, <3>1, <3>2, <3>4, <3>6, Zenon
         DEF Promise!CancelNothing, Open, OpenIds, Sent, Done, Reply
    <3> QED
      BY <3>7
  <2> QED
    BY <2>4, <2>5
<1>6. CASE CancelUnknown(id)
  <2>1. orders_index_[id] = NoLoc /\ UNCHANGED book /\ Reply' = <<0, "CancelFalse">>
    BY <1>6 DEF CancelUnknown, NoResult, Reply
  <2>2. id \notin DOMAIN Open
    BY <1>3, <1>4, <2>1, UnindexedNotResting, BookFacts
  <2>3. Open' = Open
    <3>1. OpenIds' = OpenIds /\ remaining_qty' = remaining_qty
      BY <1>3, <2>1 DEF book, Resting
    <3> QED
      BY <3>1, OpenSame
  <2>4. Promise!CancelNothing(id)
    BY <1>1, <1>2, <2>1, <2>2, <2>3, Zenon
       DEF Promise!CancelNothing, Open, OpenIds, Sent, Done, Reply
  <2> QED
    BY <2>4
<1> QED
  BY <1>5, <1>6 DEF CancelOrder

PromiseState == <<next_order_id_, Sent, Open, taker, remaining, Done, Reply>>

LEMMA InitIsPromised == Init => Promise!Init
<1> SUFFICES ASSUME Init PROVE Promise!Init
  OBVIOUS
<1>1. next_order_id_ = 1 /\ taker = 0 /\ remaining = 0 /\ Submitted = {}
  BY DEF Init, Submitted
<1>2. OpenIds = {}
  BY DEF Init, OpenIds, Resting, Contains
<1>3. Sent = <<>> /\ Done = <<>> /\ Open = <<>>
  BY <1>1, <1>2 DEF Sent, Done, Open
<1>4. Reply = Promise!Waiting
  <2>1. Promise!Waiting = <<0, "None">>
    BY Zenon DEF Promise!Waiting
  <2> QED
    BY <2>1 DEF Init, NoResult, Reply
<1> QED
  BY <1>1, <1>3, <1>4, Zenon DEF Promise!Init, Open, OpenIds, Sent, Done, Reply

LEMMA StepIsPromised ==
    ASSUME Plain, AllInv, [Next]_vars,
           NEW K \in Nat, \A q \in Qty : q <= K, MaxOrders * (2 * K) < QMod
    PROVE  Promise!Next \/ UNCHANGED PromiseState
<1>1. CASE Submit
  <2>1. PICK r \in Request : SubmitOrder(r)
    BY <1>1 DEF Submit
  <2>2. Promise!ArrivePassive(r) \/ Promise!Kill(r) \/ Promise!ArriveActive(r)
    BY <2>1, SubmitStep
  <2> QED
    BY <2>2, Zenon DEF Promise!Next
<1>2. CASE Engine
  <2>1. ~RefreshExhausted /\ ~RefreshSlice
    BY NeverRefreshes DEF AllInv
  <2>2. ~ReturnIceberg
    <3>1. pc # "idle" => order[taker].type # "Iceberg"
      BY PlainFacts DEF AllInv, IInv, CallCoherent
    <3> QED
      BY <3>1 DEF ReturnIceberg, Returning
  <2>3. CASE MatchStep
    BY <2>3, TradeStep, Zenon DEF Promise!Next
  <2>4. CASE EndMatch
    BY <2>4, EndMatchStutters, Zenon DEF PromiseState
  <2>5. CASE ReturnStandard \/ ReturnFOK \/ ReturnIOC
    BY <2>5, FinishStep, Zenon DEF Promise!Next
  <2> QED
    BY <1>2, <2>1, <2>2, <2>3, <2>4, <2>5 DEF Engine
<1>3. ASSUME NEW id \in Id, CancelOrder(id) PROVE Promise!Next
  <2>1. Promise!Cancel(id) \/ Promise!CancelNothing(id)
    BY <1>3, CancelStep
  <2>2. id \in 1 .. MaxOrders
    BY DEF Id
  <2> QED
    BY <2>1, <2>2, Zenon DEF Promise!Next
<1>4. CASE ClearRecentTrades \/ UNCHANGED vars
  <2>1. UNCHANGED <<next_order_id_, order, queue, remaining_qty, taker, remaining, filled, result>>
    BY <1>4 DEF ClearRecentTrades, vars, book, call, hist
  <2>2. OpenIds' = OpenIds
    BY <2>1 DEF OpenIds, Resting
  <2>3. Open' = Open
    BY <2>1, <2>2, OpenSame
  <2>4. Sent' = Sent /\ Done' = Done /\ Reply' = Reply
    BY <2>1 DEF Sent, Done, Reply, Submitted
  <2> QED
    BY <2>1, <2>3, <2>4, Zenon DEF PromiseState
<1> QED
  BY <1>1, <1>2, <1>3, <1>4 DEF Next

(* Without icebergs, and where no sum wraps, every step of the engine is   *)
(* one of Exchange or none of it: submitOrder, its matching loop and       *)
(* cancelOrder trade the best price first and the oldest order at it, rest *)
(* what is left, and answer as documented.  That calls return, the rest of *)
(* ImplementsExchange, is left to the runs.                                *)
THEOREM EngineKeepsPromise ==
    ASSUME Plain, NEW K \in Nat, \A q \in Qty : q <= K, MaxOrders * (2 * K) < QMod
    PROVE  Spec => Promise!Init /\ [][Promise!Next]_(Promise!vars)
<1>1. Init => Promise!Init
  BY InitIsPromised
<1>2. AllInv /\ [Next]_vars => Promise!Next \/ UNCHANGED PromiseState
  BY StepIsPromised
<1>3. UNCHANGED PromiseState => UNCHANGED Promise!vars
  BY Zenon DEF Promise!vars, PromiseState, Sent, Open, OpenIds, Done, Reply
<1>4. AllInv /\ [Next]_vars => [Promise!Next]_(Promise!vars)
  <2>1. AllInv /\ [Next]_vars => Promise!Next \/ UNCHANGED Promise!vars
    BY <1>2, <1>3, Zenon
  <2> QED
    BY <2>1
<1>5. Spec => []AllInv
  BY AllHold
<1> QED
  BY <1>1, <1>4, <1>5, PTL DEF Spec

-----------------------------------------------------------------------------
(* Orders for now or never                                                 *)

(* What a step can bring to rest: a post-only order, a slice of an iceberg *)
(* or, when its match is over, what is left of the taker.                  *)
LEMMA ComesToRest ==
    ASSUME IInv, Next, NEW i \in Id, Resting(i)', ~Resting(i)
    PROVE  \/ order'[i].type \in {"PostOnly", "Iceberg"}
           \/ EndMatch /\ i = taker /\ remaining > 0 /\ order[i].type # "Market"
<1>1. ASSUME NEW r \in Request, SubmitOrder(r)
      PROVE  order'[i].type = "PostOnly"
  <2> DEFINE n == next_order_id_
  <2>1. CASE queue' = queue
    BY <2>1, SameRests
  <2>2. CASE SubmitPostOnly(r) /\ AddToLevel(n, r, r.total_qty)
    <3>1. /\ r.type = "PostOnly" /\ r.side \in Side /\ r.price \in Price /\ r.total_qty \in Nat
          /\ GoodOrder(r) /\ NewOrder(r)
      BY <2>2, RequestFacts DEF SubmitPostOnly
    <3>2. n \in Id /\ ~Resting(n) /\ order'[n] = r
      BY <3>1, NewOrderFacts
    <3>3. i = n
      BY <2>2, <3>1, <3>2, AddRests
    <3> QED
      BY <3>1, <3>2, <3>3
  <2> QED
    BY <1>1, <2>1, <2>2
    DEF SubmitOrder, SubmitPostOnly, SubmitFOK, SubmitStandard, SubmitIceberg, BeginMatching, book
<1>2. ASSUME MatchStep PROVE FALSE
  <2>1. \E s \in Side, p \in Price, m \in Id, c \in Nat : FillEffect(s, p, m, c)
    BY <1>2, MatchFacts, ZenonT(60)
  <2> QED
    BY <2>1 DEF FillEffect, Resting
<1>3. ASSUME EndMatch
      PROVE  i = taker /\ remaining > 0 /\ order[i].type # "Market"
  <2> DEFINE o == order[taker]
  <2>1. CASE remaining > 0 /\ o.type # "Market"
    <3>1. /\ taker \in Submitted /\ taker \in Id /\ o \in Order /\ remaining \in Nat
          /\ orders_index_[taker] = NoLoc
      BY <1>3, SubmittedType DEF IInv, TypeOK, CallCoherent, EndMatch
    <3>2. o.side \in Side /\ o.price \in Price /\ DisplayQty(o, remaining) \in Nat
      BY <2>1, <3>1 DEF IInv, OrdersWellFormed, Order, DisplayQty, MinOf
    <3>3. ~Resting(taker) /\ AddToLevel(taker, o, DisplayQty(o, remaining))
      BY <1>3, <2>1, <3>1, UnindexedNotResting, BookFacts DEF EndMatch
    <3>4. i = taker
      BY <3>1, <3>2, <3>3, AddRests
    <3> QED
      BY <2>1, <3>4
  <2>2. CASE ~(remaining > 0 /\ o.type # "Market")
    BY <1>3, <2>2, SameRests DEF EndMatch, book
  <2> QED
    BY <2>1, <2>2
<1>4. ASSUME RefreshSlice PROVE order'[i].type = "Iceberg"
  <2>1. PICK id \in Id : id = Head(iceberg_consumed) /\ ~Resting(id) /\ id \in Submitted
                         /\ IsIceberg(order[id])
    BY <1>4, PopConsumedFacts DEF RefreshSlice
  <2>2. PICK q : q = MinOf(order[id].visible_qty, hidden_remaining[id])
    OBVIOUS
  <2>3. AddToLevel(id, order[id], q) /\ order' = order
    BY <1>4, <2>1, <2>2 DEF RefreshSlice
  <2>4. order[id] \in Order /\ hidden_remaining[id] \in Nat
    BY DEF IInv, TypeOK
  <2>5. order[id].visible_qty > 0 /\ order[id].side \in Side /\ q \in Nat
    BY <2>1, <2>2, <2>4 DEF IsIceberg, Order, MinOf
  <2>6. order[id].type = "Iceberg" /\ order[id].price \in Price
    BY <2>1, <2>5 DEF IInv, OrdersWellFormed
  <2>7. i = id
    BY <2>1, <2>3, <2>5, <2>6, AddRests
  <2> QED
    BY <2>3, <2>6, <2>7
<1>5. ASSUME NEW id \in Id, RemoveFromBook(id), orders_index_[id] # NoLoc PROVE FALSE
  BY <1>5, RemovalRests
<1>6. ASSUME RefreshExhausted \/ ReturnStandard \/ ReturnFOK \/ ReturnIOC \/ ReturnIceberg
      PROVE  FALSE
  <2>1. CASE queue' = queue
    BY <2>1, SameRests
  <2>2. CASE ReturnIOC /\ remaining > 0
    <3>1. RemoveFromBook(taker) /\ order[taker].type = "IOC" /\ pc = "refresh"
      BY <2>2 DEF ReturnIOC, Returning
    <3>2. taker \in Id /\ order[taker] \in Order
          /\ orders_index_[taker] = <<order[taker].side, order[taker].price>>
      BY <2>2, <3>1, SubmittedType DEF IInv, CallCoherent, TypeOK
    <3>3. orders_index_[taker] # NoLoc
      BY <3>2 DEF Order, NoLoc, Side
    <3> QED
      BY <1>5, <3>1, <3>2, <3>3
  <2> QED
    BY <1>6, <2>1, <2>2
    DEF RefreshExhausted, ReturnStandard, ReturnFOK, ReturnIOC, ReturnIceberg, book
<1>7. ASSUME NEW id \in Id, CancelOrder(id) PROVE FALSE
  <2>1. CASE CancelFound(id)
    BY <1>5, <2>1 DEF CancelFound
  <2>2. CASE CancelUnknown(id)
    BY <2>2, SameRests DEF CancelUnknown, book
  <2> QED
    BY <1>7, <2>1, <2>2 DEF CancelOrder
<1>8. ASSUME ClearRecentTrades PROVE FALSE
  BY <1>8, SameRests DEF ClearRecentTrades, book
<1> QED
  BY <1>1, <1>2, <1>3, <1>4, <1>6, <1>7, <1>8 DEF Next, Submit, Engine

(* The order of an id that was given out stays, and a step gives out at    *)
(* most the next id.                                                       *)
LEMMA OrdersStay ==
    ASSUME IInv, [Next]_vars
    PROVE  /\ \A i \in Submitted : i \in Submitted' /\ order'[i] = order[i]
           /\ \A i \in Submitted' \ Submitted :
                 i \in Id /\ i = next_order_id_ /\ ~Resting(i) /\ filled[i] = 0 /\ pc = "idle"
                 /\ \E r \in Request : SubmitOrder(r) /\ order'[i].type = r.type
<1>1. CASE next_order_id_' = next_order_id_ /\ order' = order
  BY <1>1 DEF Submitted
<1>2. ASSUME NEW r \in Request, SubmitOrder(r)
      PROVE  /\ \A i \in Submitted : i \in Submitted' /\ order'[i] = order[i]
             /\ \A i \in Submitted' \ Submitted :
                   i \in Id /\ i = next_order_id_ /\ ~Resting(i) /\ filled[i] = 0 /\ pc = "idle"
                   /\ order'[i].type = r.type
  <2>1. PICK o : NewOrder(o) /\ GoodOrder(o) /\ o.type = r.type
    <3>1. CASE r.type # "Iceberg"
      BY <1>2, <3>1, RequestFacts
      DEF SubmitOrder, SubmitPostOnly, SubmitFOK, SubmitStandard, SubmitIceberg
    <3>2. CASE r.type = "Iceberg"
      <4> DEFINE invalid == r.visible_qty = 0 \/ r.visible_qty >= r.total_qty
                 o == [r EXCEPT !.visible_qty = IF invalid THEN 0 ELSE @]
      <4>1. NewOrder(o)
        BY <1>2, <3>2 DEF SubmitOrder, SubmitPostOnly, SubmitFOK, SubmitStandard, SubmitIceberg
      <4>2. /\ r \in Order /\ r.type \in OrderTypes /\ r.total_qty \in Nat /\ r.visible_qty \in Nat
            /\ (r.type # "Market" => r.price \in Price)
        BY RequestFacts
      <4>3. /\ o \in Order /\ o.type = r.type /\ o.price = r.price /\ o.total_qty = r.total_qty
            /\ o.visible_qty = IF invalid THEN 0 ELSE r.visible_qty
        BY <4>2 DEF Order
      <4>4. GoodOrder(o)
        BY <3>2, <4>2, <4>3 DEF GoodOrder
      <4> QED
        BY <4>1, <4>3, <4>4
    <3> QED
      BY <3>1, <3>2
  <2> DEFINE n == next_order_id_
  <2>2. /\ n \in Id /\ Submitted' = Submitted \cup {n} /\ order'[n] = o /\ ~Resting(n)
        /\ filled[n] = 0 /\ \A i \in Submitted : order'[i] = order[i]
    BY <2>1, NewOrderFacts
  <2>3. pc = "idle"
    BY <2>1 DEF NewOrder
  <2> QED
    BY <2>1, <2>2, <2>3
<1>3. ASSUME ~Submit PROVE next_order_id_' = next_order_id_ /\ order' = order
  BY <1>3, EngineKeepsOrders
  DEF Next, CancelOrder, CancelFound, CancelUnknown, ClearRecentTrades, vars
<1> QED
  BY <1>1, <1>2, <1>3 DEF Submit

LEMMA NoZeroId == 0 \notin Id
BY DEF Id

(* No market or IOC order rests but the one whose call still runs, which   *)
(* is never a market order.                                                *)
ImmediateInv ==
    \A i \in Submitted : order[i].type \in {"Market", "IOC"} /\ Resting(i) =>
        i = taker /\ pc = "refresh" /\ remaining > 0 /\ order[i].type = "IOC"

LEMMA ImmediateNext == IInv /\ ImmediateInv /\ [Next]_vars => ImmediateInv'
<1> SUFFICES ASSUME IInv, ImmediateInv, [Next]_vars,
                    NEW i \in Submitted', order'[i].type \in {"Market", "IOC"}, Resting(i)'
             PROVE  (i = taker /\ pc = "refresh" /\ remaining > 0 /\ order[i].type = "IOC")'
  BY DEF ImmediateInv
<1>1. CASE UNCHANGED vars
  <2>1. UNCHANGED <<queue, order, next_order_id_, taker, pc, remaining>>
    BY <1>1 DEF vars, book, call
  <2>2. Resting(i) /\ i \in Submitted
    BY <2>1, SameRests DEF Submitted
  <2> QED
    BY <2>1, <2>2 DEF ImmediateInv
<1>2. CASE Next /\ ~Resting(i)
  <2>1. i \in Id
    BY OrdersStay, BookFacts
  <2>2. EndMatch /\ i = taker /\ remaining > 0 /\ order[i].type # "Market"
    BY <1>2, <2>1, ComesToRest
  <2>3. order' = order /\ UNCHANGED <<taker, remaining>> /\ pc' = "refresh"
    BY <2>2 DEF EndMatch, call
  <2> QED
    BY <2>2, <2>3
<1>3. CASE Next /\ Resting(i)
  <2>1. i \in Submitted /\ i \in Id /\ order'[i] = order[i]
    BY <1>3, OrdersStay, BookFacts
  <2>2. i = taker /\ pc = "refresh" /\ remaining > 0 /\ order[i].type = "IOC"
    BY <1>3, <2>1 DEF ImmediateInv
  <2>3. CASE RefreshExhausted \/ RefreshSlice
    <3>1. UNCHANGED <<order, taker, remaining, pc>>
      BY <2>3 DEF RefreshExhausted, RefreshSlice
    <3> QED
      BY <2>2, <3>1
  <2>4. ~ReturnIOC
    <3> SUFFICES ASSUME ReturnIOC PROVE FALSE
      OBVIOUS
    <3>1. RemoveFromBook(taker)
      BY <2>2 DEF ReturnIOC
    <3>2. orders_index_[taker] = <<order[taker].side, order[taker].price>> /\ order[taker] \in Order
      BY <2>1, <2>2 DEF IInv, CallCoherent, TypeOK
    <3>3. orders_index_[taker] # NoLoc
      BY <3>2 DEF Order, NoLoc, Side
    <3> QED
      BY <2>1, <2>2, <3>1, <3>3, RemovalRests
  <2>5. Engine
    BY <1>3, <2>2 DEF Next, Submit, SubmitOrder, SubmitPostOnly, SubmitFOK, SubmitStandard,
       SubmitIceberg, NewOrder, CancelOrder, CancelFound, CancelUnknown, ClearRecentTrades
  <2> QED
    BY <2>2, <2>3, <2>4, <2>5
    DEF Engine, MatchStep, EndMatch, ReturnStandard, ReturnFOK, ReturnIceberg, Returning
<1> QED
  BY <1>1, <1>2, <1>3

(* What is left of a market or an IOC order never stays in the book,       *)
(* icebergs or not.                                                        *)
NoRemainderRests ==
    pc = "idle" => \A i \in Submitted : order[i].type \in {"Market", "IOC"} => ~Resting(i)

THEOREM NeverLeftInBook == Spec => []NoRemainderRests
<1>1. Init => ImmediateInv
  BY DEF Init, ImmediateInv, Submitted
<1>2. ImmediateInv => NoRemainderRests
  BY DEF ImmediateInv, NoRemainderRests
<1> QED
  BY <1>1, <1>2, ImmediateNext, Invariance, PTL DEF Spec

(* A fill-or-kill order never rests, and has all or nothing once its call  *)
(* is over.                                                                *)
FOKInv ==
    \A i \in Submitted : order[i].type = "FOK" =>
        ~Resting(i) /\ (i # taker => filled[i] \in {0, order[i].total_qty})

LEMMA FOKNext ==
    ASSUME Plain, AllInv, AllInv', FOKInv, [Next]_vars
    PROVE  FOKInv'
<1> SUFFICES ASSUME NEW i \in Submitted', order'[i].type = "FOK"
             PROVE  ~Resting(i)' /\ (i # taker' => filled'[i] \in {0, order'[i].total_qty})
  BY DEF FOKInv
<1>0. IInv /\ BInv /\ IInv' /\ CallProgress /\ CallProgress' /\ FOKCovered /\ FOKCovered'
  BY DEF AllInv, XInv
<1>1. i \in Id /\ ~Resting(i) /\ (i \in Submitted => order'[i] = order[i])
  BY <1>0, OrdersStay, BookFacts DEF FOKInv
<1>2. ~Resting(i)'
  <2> SUFFICES ASSUME Resting(i)' PROVE FALSE
    OBVIOUS
  <2>1. Next
    <3>1. ~UNCHANGED queue
      BY <1>1, SameRests
    <3> QED
      BY <3>1 DEF vars, book
  <2>2. EndMatch /\ i = taker /\ remaining > 0
    BY <1>0, <1>1, <2>1, ComesToRest
  <2>3. UNCHANGED <<order, taker, remaining>> /\ pc' = "refresh"
    BY <2>2 DEF EndMatch, call
  <2> QED
    BY <1>0, <2>2, <2>3 DEF FOKCovered
<1>3. ASSUME i # taker' PROVE filled'[i] \in {0, order'[i].total_qty}
  <2>1. CASE i \notin Submitted
    <3>1. filled[i] = 0 /\ pc = "idle"
      BY <1>0, <2>1, OrdersStay
    <3>2. filled' = filled
      BY <1>0, <2>1, <3>1, OrdersStay
      DEF SubmitOrder, SubmitPostOnly, SubmitFOK, SubmitStandard, SubmitIceberg, ReturnAtOnce,
          BeginMatching, hist
    <3> QED
      BY <3>1, <3>2
  <2>2. CASE i \in Submitted /\ i # taker
    <3>1. filled[i] \in {0, order[i].total_qty}
      BY <1>1, <2>2 DEF FOKInv
    <3>2. filled'[i] = filled[i]
      <4>1. CASE MatchStep
        <5>1. PICK s \in Side, p \in Price, m \in Id, c \in Nat : FillEffect(s, p, m, c) /\ Resting(m)
          BY <1>0, <4>1, MatchFacts, ZenonT(60)
        <5>2. filled' = [filled EXCEPT ![m] = @ + c, ![taker] = @ + c]
          BY <5>1 DEF FillEffect
        <5>3. filled \in [Id -> Nat] /\ i # m
          BY <1>0, <1>1, <5>1 DEF IInv, TypeOK
        <5> QED
          BY <1>1, <2>2, <5>2, <5>3
      <4>2. CASE ~MatchStep
        <5>1. filled' = filled
          BY <4>2
          DEF Next, Submit, SubmitOrder, SubmitPostOnly, SubmitFOK, SubmitStandard, SubmitIceberg,
              ReturnAtOnce, BeginMatching, Engine, EndMatch, RefreshExhausted, RefreshSlice,
              ReturnStandard, ReturnFOK, ReturnIOC, ReturnIceberg, Return, CancelOrder,
              CancelFound, CancelUnknown, ClearRecentTrades, hist, vars
        <5> QED
          BY <5>1
      <4> QED
        BY <4>1, <4>2
    <3> QED
      BY <1>1, <2>2, <3>1, <3>2
  <2>3. CASE i \in Submitted /\ i = taker
    <3>1. taker' # taker /\ pc # "idle"
      BY <1>0, <1>1, <1>3, <2>3, NoZeroId DEF IInv, CallCoherent
    <3>2. ReturnStandard \/ ReturnFOK \/ ReturnIOC \/ ReturnIceberg
      BY <3>1
      DEF Next, Submit, SubmitOrder, SubmitPostOnly, SubmitFOK, SubmitStandard, SubmitIceberg,
          NewOrder, Engine, MatchStep, FillFront, EndMatch, RefreshExhausted, RefreshSlice,
          CancelOrder, CancelFound, CancelUnknown, ClearRecentTrades, call, vars
    <3>3. pc = "refresh" /\ filled' = filled
      BY <3>2 DEF ReturnStandard, ReturnFOK, ReturnIOC, ReturnIceberg, Returning, Return, hist
    <3>4. remaining = 0 /\ filled[i] + remaining = order[i].total_qty
      BY <1>0, <1>1, <2>3, <3>1, <3>3 DEF FOKCovered, CallProgress
    <3>5. filled[i] \in Nat
      BY <1>0, <1>1 DEF IInv, TypeOK
    <3>6. filled[i] = order[i].total_qty
      BY <3>4, <3>5
    <3> QED
      BY <1>1, <2>3, <3>3, <3>6
  <2> QED
    BY <2>1, <2>2, <2>3
<1> QED
  BY <1>2, <1>3

(* A fill-or-kill order has all of its quantity or none, and never rests,  *)
(* as the code promises of it, where no iceberg is offered and no sum wraps. *)
THEOREM FOKWholeOrNone ==
    ASSUME Plain, NEW K \in Nat, \A q \in Qty : q <= K, MaxOrders * (2 * K) < QMod
    PROVE  Spec => []FOKAllOrNothing
<1>1. Init => FOKInv
  BY DEF Init, FOKInv, Submitted
<1>2. AllInv /\ AllInv' /\ FOKInv /\ [Next]_vars => FOKInv'
  BY FOKNext
<1>3. AllInv /\ FOKInv => FOKAllOrNothing
  <2> SUFFICES ASSUME AllInv, FOKInv, pc = "idle", NEW i \in Submitted, order[i].type = "FOK"
               PROVE  filled[i] \in {0, order[i].total_qty} /\ ~Resting(i)
    BY DEF FOKAllOrNothing
  <2>1. i # taker
    BY NoZeroId, SubmittedType DEF AllInv, IInv, CallCoherent, TypeOK
  <2> QED
    BY <2>1 DEF FOKInv
<1>4. Spec => []AllInv
  BY AllHold
<1> QED
  BY <1>1, <1>2, <1>3, <1>4, PTL DEF Spec

(* An entry of the index that outlives its order in the book is that of an *)
(* order that traded all it was for: a cancel that is answered true and    *)
(* takes nothing off the book names such an order, and no other.           *)
THEOREM OnlyFilledStayIndexed ==
    ASSUME Plain, NEW K \in Nat, \A q \in Qty : q <= K, MaxOrders * (2 * K) < QMod
    PROVE  Spec => []GoneFilled
<1>1. AllInv => GoneFilled
  BY DEF AllInv, XInv
<1>2. Spec => []AllInv
  BY AllHold
<1> QED
  BY <1>1, <1>2, PTL

-----------------------------------------------------------------------------
(* What the owner of an engine sees of it and does to it: its best prices  *)
(* and totals, its tape, and a bid that trades with nothing, followed by   *)
(* an ask above it, as the makers of Simulator submit them.                *)

(* A side that is not empty has one best price.                            *)
LEMMA BestPriceIs ==
    ASSUME IInv, NEW s \in Side, Levels(s) # {}
    PROVE  \E p \in Levels(s) : /\ BestPrice(s) = {p} /\ p \in Price /\ p \in Int
                                /\ \A q \in Levels(s) : ~Better(s, q, p)
<1> DEFINE beyond == [p \in Levels(s) |-> {q \in Levels(s) : Better(s, q, p)}]
           H == {Cardinality(beyond[p]) : p \in Levels(s)}
<1>1. IsFiniteSet(Levels(s)) /\ Levels(s) \subseteq Price /\ Price \subseteq Int
  BY LevelsFinite, ConstantsAssumption
<1>2. \A p \in Levels(s) : IsFiniteSet(beyond[p]) /\ Cardinality(beyond[p]) \in Nat
  <2>1. \A p \in Levels(s) : beyond[p] \in SUBSET Levels(s)
    OBVIOUS
  <2> HIDE DEF beyond
  <2> QED
    BY <1>1, <2>1, FS_Subset, FS_CardinalityType
<1>3. PICK p \in Levels(s) : \A q \in Levels(s) : Cardinality(beyond[p]) <= Cardinality(beyond[q])
  <2>1. H # {} /\ H \subseteq Nat
    <3> HIDE DEF beyond
    <3> QED
      BY <1>2
  <2> HIDE DEF H
  <2>2. PICK h \in H : \A k \in H : h <= k
    BY <2>1, Least
  <2> QED
    BY <2>2 DEF H
<1>4. \A q \in Levels(s) : ~Better(s, q, p)
  <2> SUFFICES ASSUME NEW q \in Levels(s), Better(s, q, p) PROVE FALSE
    OBVIOUS
  <2>1. \A x, y, z \in Int : Better(s, x, y) /\ Better(s, y, z) => Better(s, x, z)
    BY DEF Better
  <2>2. \A x \in Int : ~Better(s, x, x)
    BY DEF Better
  <2>3. beyond[q] \subseteq beyond[p] /\ q \in beyond[p] /\ q \notin beyond[q]
    BY <1>1, <2>1, <2>2
  <2> HIDE DEF beyond
  <2>4. Cardinality(beyond[q]) < Cardinality(beyond[p])
    <3>1. Cardinality(beyond[q]) <= Cardinality(beyond[p])
      BY <1>2, <2>3, FS_Subset
    <3>2. Cardinality(beyond[q]) # Cardinality(beyond[p])
      BY <1>2, <2>3, FS_Subset
    <3> QED
      BY <1>2, <3>1, <3>2
  <2> QED
    BY <1>2, <1>3, <2>4
<1>5. ASSUME NEW q \in Levels(s), \A r \in Levels(s) : ~Better(s, r, q)
      PROVE  q = p
  <2>1. p \in Int /\ q \in Int /\ ~Better(s, q, p) /\ ~Better(s, p, q)
    BY <1>1, <1>4, <1>5
  <2>2. \A x, y \in Int : ~Better(s, x, y) /\ ~Better(s, y, x) => x = y
    BY DEF Better
  <2> QED
    BY <2>1, <2>2, Zenon
<1>6. BestPrice(s) = {p}
  <2>1. BestPrice(s) \subseteq {p}
    BY <1>5 DEF BestPrice, IsBest
  <2>2. p \in BestPrice(s)
    BY <1>4 DEF BestPrice, IsBest
  <2> QED
    BY <2>1, <2>2
<1> QED
  BY <1>1, <1>4, <1>6

(* The total of a side has the width of a quantity, and is zero without    *)
(* levels.                                                                 *)
LEMMA TotalQtyIs ==
    ASSUME IInv, NEW s \in Side
    PROVE  /\ TotalQty(s) \in 0 .. (QMod - 1)
           /\ Levels(s) = {} => TotalQty(s) = 0 /\ BestPrice(s) = {}
<1>1. TotalQty(s) = SetSum(total_quantity[s], Levels(s)) % QMod
  BY SumIsSetSum, Zenon DEF TotalQty
<1>2. SetSum(total_quantity[s], Levels(s)) \in Int
  <2>1. \A p \in Levels(s) : total_quantity[s][p] \in Int
    BY BookFacts DEF BookTypeOK, Levels
  <2> QED
    BY <2>1, LevelsFinite, SetSumType
<1>3. TotalQty(s) \in 0 .. (QMod - 1)
  BY <1>1, <1>2, ModType
<1>4. ASSUME Levels(s) = {}
      PROVE  TotalQty(s) = 0 /\ BestPrice(s) = {}
  <2>1. TotalQty(s) = 0 % QMod
    BY <1>1, <1>4, SetSumEmpty
  <2>2. QMod \in Nat \ {0}
    BY ConstantsAssumption
  <2>3. 0 % QMod = 0
    BY <2>2
  <2> QED
    BY <1>4, <2>1, <2>3 DEF BestPrice
<1> QED
  BY <1>3, <1>4

(* Returning records the call's trades, of which the tape keeps the newest *)
(* MaxRecent; nothing else in a call touches the tape.                     *)
LEMMA TapeAdds ==
    ASSUME IInv, Engine
    PROVE  \/ UNCHANGED tape
           \/ \E n \in Nat : /\ total_trades_' = total_trades_ + n
                             /\ Len(recent_trades_') = MinOf(Len(recent_trades_) + n, MaxRecent)
<1>1. \/ UNCHANGED tape
      \/ RecordTrades
  BY DEF Engine, MatchStep, FillFront, EndMatch, RefreshExhausted, RefreshSlice,
         ReturnStandard, ReturnFOK, ReturnIOC, ReturnIceberg, Return, tape
<1>2. ASSUME RecordTrades
      PROVE  \E n \in Nat : /\ total_trades_' = total_trades_ + n
                            /\ Len(recent_trades_') = MinOf(Len(recent_trades_) + n, MaxRecent)
  <2>1. recent_trades_ \in Seq(Trade) /\ trades \in Seq(Trade) /\ MaxRecent \in Nat \ {0}
    BY ConstantsAssumption DEF IInv, TypeOK
  <2> DEFINE all == recent_trades_ \o trades
  <2>2. /\ all \in Seq(Trade) /\ Len(all) = Len(recent_trades_) + Len(trades)
        /\ Len(recent_trades_) \in Nat /\ Len(trades) \in Nat
    BY <2>1, ConcatProperties, LenProperties
  <2>3. recent_trades_' = LastN(all, MaxRecent) /\ total_trades_' = total_trades_ + Len(trades)
    BY <1>2 DEF RecordTrades
  <2> HIDE DEF all
  <2>4. Len(LastN(all, MaxRecent)) = MinOf(Len(all), MaxRecent)
    <3>1. CASE Len(all) <= MaxRecent
      BY <3>1 DEF LastN, MinOf
    <3>2. CASE ~(Len(all) <= MaxRecent)
      <4>1. \A k \in (Len(all) - MaxRecent + 1) .. Len(all) : all[k] \in Trade
        BY <2>1, <2>2, <3>2, ElementOfSeq
      <4>2. /\ Len(all) - MaxRecent + 1 \in 1 .. Len(all) /\ Len(all) \in Int
            /\ Len(all) - (Len(all) - MaxRecent + 1) + 1 = MaxRecent
        BY <2>1, <2>2, <3>2
      <4>3. Len(SubSeq(all, Len(all) - MaxRecent + 1, Len(all))) = MaxRecent
        BY <4>1, <4>2, SubSeqProperties
      <4> QED
        BY <3>2, <4>3 DEF LastN, MinOf
    <3> QED
      BY <3>1, <3>2
  <2> QED
    BY <2>2, <2>3, <2>4
<1> QED
  BY <1>1, <1>2, Zenon

(* Submitting and cancelling leave the tape alone.                         *)
LEMMA SubmitKeepsTape ==
    ASSUME NEW r, SubmitOrder(r)
    PROVE  UNCHANGED tape
BY DEF SubmitOrder, SubmitPostOnly, SubmitFOK, SubmitStandard, SubmitIceberg,
       ReturnAtOnce, BeginMatching

(* The bid id enters or stands in the book and has traded nothing; what    *)
(* runs beside it is a call for an ask above it; there are asks.           *)
BidMakes(id) ==
    /\ id \in Submitted
    /\ order[id].side = "Bid" /\ order[id].type = "Limit"
    /\ filled[id] = 0
    /\ Levels("Ask") # {}
    /\ IF taker = id /\ pc = "match" THEN remaining > 0 /\ Reach = {} ELSE Resting(id)
    /\ pc # "idle" /\ taker # id =>
          /\ order[taker].side = "Ask" /\ order[taker].type = "Limit"
          /\ order[id].price < order[taker].price

(* A limit order goes straight to the matching loop.                       *)
LEMMA LimitEnters ==
    ASSUME IInv, NEW r \in Request, r.type = "Limit", SubmitOrder(r)
    PROVE  /\ GoodOrder(r) /\ NewOrder(r) /\ BeginMatching(r)
           /\ pc = "idle" /\ pc' = "match" /\ taker' = next_order_id_
           /\ remaining' = r.total_qty
           /\ next_order_id_ \in Id \ Submitted
           /\ Submitted' = Submitted \cup {next_order_id_}
           /\ order'[next_order_id_] = r
           /\ \A i \in Submitted : order'[i] = order[i]
           /\ UNCHANGED <<queue, filled>>
<1>1. SubmitStandard(r)
  BY DEF SubmitOrder, SubmitPostOnly, SubmitFOK, SubmitIceberg
<1>2. NewOrder(r) /\ BeginMatching(r) /\ GoodOrder(r)
  BY <1>1, RequestFacts DEF SubmitStandard
<1>3. pc = "idle" /\ pc' = "match" /\ taker' = next_order_id_ /\ remaining' = r.total_qty
  BY <1>2 DEF NewOrder, BeginMatching
<1>4. UNCHANGED <<queue, filled>>
  BY <1>2 DEF BeginMatching, book, hist
<1>5. /\ next_order_id_ \in Id \ Submitted
      /\ Submitted' = Submitted \cup {next_order_id_}
      /\ order'[next_order_id_] = r
      /\ \A i \in Submitted : order'[i] = order[i]
  BY <1>2, NewOrderFacts
<1> QED
  BY <1>2, <1>3, <1>4, <1>5

(* A bid below every ask meets nothing.                                    *)
LEMMA BidEnters ==
    ASSUME IInv, NEW r \in Request, r.side = "Bid", r.type = "Limit", r.total_qty > 0,
           Levels("Ask") # {}, \A p \in Levels("Ask") : r.price < p,
           SubmitOrder(r), NEW n, n = next_order_id_
    PROVE  BidMakes(n)'
<1>1. /\ pc' = "match" /\ taker' = n /\ remaining' = r.total_qty
      /\ n \in Id \ Submitted /\ n \in Submitted' /\ order'[n] = r
      /\ UNCHANGED <<queue, filled>>
  BY LimitEnters
<1>2. filled'[n] = 0
  BY <1>1 DEF IInv, FreshUntouched
<1>3. \A s : Levels(s)' = Levels(s)
  BY <1>1, SameRests
<1>4. Reach' = {}
  <2>1. Reach' = {p \in Levels("Ask")' : p <= r.price}
    BY <1>1 DEF Reach, Opposite, PriceCrosses
  <2>2. Levels("Ask") \subseteq Int /\ r.price \in Int
    BY RequestFacts, ConstantsAssumption DEF Levels
  <2> QED
    BY <1>3, <2>1, <2>2
<1>5. remaining' > 0 /\ Levels("Ask")' # {}
  BY <1>1, <1>3
<1> QED
  BY <1>1, <1>2, <1>4, <1>5 DEF BidMakes

(* The ask follows, above the bid.                                         *)
LEMMA AskEnters ==
    ASSUME IInv, NEW id, BidMakes(id), NEW r \in Request, r.side = "Ask", r.type = "Limit",
           order[id].price < r.price, SubmitOrder(r)
    PROVE  BidMakes(id)'
<1>1. /\ pc = "idle" /\ pc' = "match" /\ taker' = next_order_id_
      /\ next_order_id_ \in Id \ Submitted /\ Submitted' = Submitted \cup {next_order_id_}
      /\ order'[next_order_id_] = r
      /\ \A i \in Submitted : order'[i] = order[i]
      /\ UNCHANGED <<queue, filled>>
  BY LimitEnters
<1>2. id \in Submitted' /\ taker' # id /\ order'[id] = order[id] /\ order'[taker'] = r
  BY <1>1 DEF BidMakes
<1>3. Resting(id)' /\ Levels("Ask")' # {}
  BY <1>1, SameRests DEF BidMakes
<1> QED
  BY <1>1, <1>2, <1>3 DEF BidMakes

(* The steps of a call leave the bid where it is: its own call meets no    *)
(* ask it could trade with, and the ask's call stays above it.             *)
LEMMA MatchKeepsBid ==
    ASSUME IInv, NEW id, BidMakes(id), MatchStep
    PROVE  BidMakes(id)'
<1>1. PICK s \in Side, p \in Price, m \in Id, c \in Nat :
          /\ s = Opposite(order[taker].side) /\ p \in Reach
          /\ FillEffect(s, p, m, c)
          /\ UNCHANGED <<next_order_id_, order, pc, taker>>
          /\ pc = "match" /\ Resting(m) /\ orders_index_[m] = <<s, p>>
  BY MatchFacts
<1>2. /\ taker # id /\ Resting(id) /\ order[taker].side = "Ask" /\ s = "Bid"
      /\ order[taker].type = "Limit" /\ order[id].price < order[taker].price
  BY <1>1 DEF BidMakes, Opposite
<1>3. m # id
  <2>1. p >= order[taker].price
    BY <1>1, <1>2, SMTT(40) DEF Reach, PriceCrosses, Opposite
  <2>2. Contains(queue[s][p], m)
    BY <1>1 DEF FillEffect
  <2>3. order[m].price = p
    BY <1>1, <2>2, BookFacts DEF IndexCoversBook
  <2>4. order[id].price \in Int /\ order[taker].price \in Int /\ p \in Int
    <3>1. order \in [Id -> Order] /\ id \in Id /\ taker \in Id /\ Price \subseteq Int
      BY <1>1, BookFacts, ConstantsAssumption DEF IInv, TypeOK, CallCoherent, BidMakes
    <3> QED
      BY <1>1, <3>1 DEF Order
  <2> QED
    BY <1>2, <2>1, <2>3, <2>4
<1>4. id \in Id /\ filled \in [Id -> Nat]
  BY BookFacts, SMTT(40) DEF BidMakes, IInv, TypeOK
<1>5. filled'[id] = 0
  BY <1>1, <1>2, <1>3, <1>4 DEF FillEffect, BidMakes
<1>6. /\ \A t \in Side, l \in Price, i \in Id :
            Contains(queue'[t][l], i) <=>
                Contains(queue[t][l], i) /\ ~(i = m /\ c = remaining_qty[m])
      /\ queue' = [queue EXCEPT !["Bid"][p] = RestAfter(s, p, m, c)]
  BY <1>1, <1>2 DEF FillEffect
<1>7. Resting(id)'
  BY <1>2, <1>3, <1>4, <1>6 DEF Resting
<1>8. Levels("Ask")' = Levels("Ask")
  BY <1>6, BookFacts DEF Levels, BookTypeOK, Side
<1> QED
  BY <1>1, <1>2, <1>5, <1>7, <1>8 DEF BidMakes, Submitted

LEMMA EndMatchKeepsBid ==
    ASSUME IInv, NEW id, BidMakes(id), EndMatch
    PROVE  BidMakes(id)'
<1> DEFINE n == taker
           o == order[taker]
<1>1. /\ n \in Submitted /\ n \in Id /\ pc = "match" /\ pc' = "refresh"
      /\ o \in Order /\ o.side \in Side /\ remaining \in Nat /\ orders_index_[n] = NoLoc
      /\ UNCHANGED <<next_order_id_, order, taker, filled>>
  BY BookFacts DEF IInv, TypeOK, CallCoherent, EndMatch, Order, call
<1>2. o.type = "Limit"
  BY <1>1 DEF BidMakes
<1>3. CASE remaining > 0
  <2>1. PICK q : q = DisplayQty(o, remaining)
    OBVIOUS
  <2>2. q \in Nat
    BY <1>1, <2>1 DEF DisplayQty, MinOf, Order
  <2>3. AddToLevel(n, o, q) /\ o.price \in Price
    BY <1>1, <1>2, <1>3, <2>1 DEF EndMatch, IInv, OrdersWellFormed
  <2>4. ~Resting(n)
    BY <1>1, BookFacts, UnindexedNotResting
  <2>5. \A i \in Id : Resting(i)' <=> Resting(i) \/ i = n
    BY <1>1, <2>2, <2>3, <2>4, AddRests
  <2>6. /\ BookTypeOK'
        /\ \A s \in Side, p \in Price, i \in Id :
              Contains(queue'[s][p], i) <=>
                  Contains(queue[s][p], i) \/ (i = n /\ s = o.side /\ p = o.price)
    BY <1>1, <2>2, <2>3, <2>4, BookFacts, AddToLevelFacts
  <2>7. Levels("Ask") \subseteq Levels("Ask")'
    <3> SUFFICES ASSUME NEW p \in Levels("Ask") PROVE p \in Levels("Ask")'
      OBVIOUS
    <3>1. p \in Price /\ "Ask" \in Side
      BY DEF Levels, Side
    <3>2. PICK i \in Id : Contains(queue["Ask"][p], i)
      BY <3>1, BookFacts, LevelOccupied
    <3> QED
      BY <2>6, <3>1, <3>2, LevelOccupiedNext
  <2>8. id \in Id
    BY BookFacts DEF BidMakes
  <2> QED
    BY <1>1, <2>5, <2>7, <2>8 DEF BidMakes, Submitted
<1>4. CASE ~(remaining > 0)
  <2>1. UNCHANGED queue
    BY <1>4 DEF EndMatch, book
  <2> QED
    BY <1>1, <1>4, <2>1, SameRests DEF BidMakes, Submitted
<1> QED
  BY <1>3, <1>4

LEMMA CallKeepsBid ==
    ASSUME "Iceberg" \notin OrderTypes, IInv, NEW id, BidMakes(id), Engine
    PROVE  BidMakes(id)'
<1>1. CASE MatchStep
  BY <1>1, MatchKeepsBid
<1>2. CASE EndMatch
  BY <1>2, EndMatchKeepsBid
<1>3. ASSUME UNCHANGED <<queue, next_order_id_, order, filled>>,
             pc = "refresh", pc' = "idle" \/ UNCHANGED <<pc, taker>>
      PROVE  BidMakes(id)'
  BY <1>3, SameRests DEF BidMakes, Submitted
<1>4. CASE RefreshExhausted
  BY <1>3, <1>4 DEF RefreshExhausted, hist
<1>5. CASE RefreshSlice
  BY <1>5, NoRefresh
<1>6. CASE ReturnStandard \/ ReturnFOK \/ ReturnIceberg
  BY <1>3, <1>6 DEF ReturnStandard, ReturnFOK, ReturnIceberg, Returning, Return, book, hist
<1>7. CASE ReturnIOC
  BY <1>7 DEF ReturnIOC, Returning, BidMakes
<1> QED
  BY <1>1, <1>2, <1>4, <1>5, <1>6, <1>7 DEF Engine

(* While no call runs, only the tape may be cleared.                       *)
LEMMA ClearKeepsBid ==
    ASSUME NEW id, BidMakes(id), ClearRecentTrades
    PROVE  BidMakes(id)'
<1>1. UNCHANGED <<queue, next_order_id_, order, filled, pc, taker>> /\ pc = "idle"
  BY DEF ClearRecentTrades, book, call, hist
<1> QED
  BY <1>1, SameRests DEF BidMakes, Submitted
=============================================================================
