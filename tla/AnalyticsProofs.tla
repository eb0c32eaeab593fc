--------------------------- MODULE AnalyticsProofs ---------------------------
(***************************************************************************)
(* Theorems about PerpetualEngine, for every configuration, book and last  *)
(* trade price, about VPINCalculator, for every bucket volume and window   *)
(* and trades of any size, and about the two beside one market.            *)
(***************************************************************************)
EXTENDS Analytics, SequenceTheorems, TLAPS

-----------------------------------------------------------------------------
(* Arithmetic *)

LEMMA TruncIsInteger ==
    ASSUME NEW x \in Int, NEW n \in Nat \ {0}
    PROVE  Trunc(x, n) \in Int
BY DEF Trunc

(* A fraction below one of a natural number is below it *)
LEMMA FractionBelow ==
    ASSUME NEW x \in Nat \ {0}, NEW num \in Nat, NEW den \in Nat \ {0}, num < den
    PROVE  (x * num) \div den \in 0 .. (x - 1)
<1> DEFINE q == (x * num) \div den
           r == (x * num) % den
<1>1. x * num \in Nat /\ x * den \in Nat
  OBVIOUS
<1>2. /\ q \in Int /\ r \in 0 .. (den - 1)
      /\ x * num = den * q + r
  BY <1>1
<1>3. x * num < x * den
  OBVIOUS
<1>4. q < x
  <2>1. SUFFICES ASSUME q >= x PROVE FALSE
    BY <1>2
  <2>2. den * q >= den * x
    BY <1>2, <2>1
  <2>3. QED  BY <1>2, <1>3, <2>2
<1>5. q >= 0
  <2>1. SUFFICES ASSUME q <= -1 PROVE FALSE
    BY <1>2
  <2>2. den * q <= -den
    BY <1>2, <2>1
  <2>3. QED  BY <1>1, <1>2, <2>2
<1>6. QED  BY <1>2, <1>4, <1>5

(* The premium is smaller than the price it is a fraction of, and has its  *)
(* sign.                                                                   *)
LEMMA PremiumBelowPrice ==
    ASSUME PerpTypeOK, NEW last \in Int, last # 0
    PROVE  /\ Premium(last) \in Int
           /\ last > 0 => 0 <= Premium(last) /\ Premium(last) < last
           /\ last < 0 => last < Premium(last) /\ Premium(last) <= 0
<1>1. cfg_.num \in Nat /\ cfg_.den \in Nat \ {0} /\ cfg_.num < cfg_.den
  BY PerpetualAssumption DEF PerpTypeOK, ConfigType
<1> DEFINE num == cfg_.num
           den == cfg_.den
<1>2. CASE last > 0
  <2>1. (last * num) \div den \in 0 .. (last - 1)
    BY <1>1, <1>2, FractionBelow
  <2>2. last * num >= 0
    BY <1>1, <1>2
  <2>3. Premium(last) = (last * num) \div den
    BY <2>2 DEF Premium, Trunc
  <2>4. QED  BY <1>2, <2>1, <2>3
<1>3. CASE last < 0
  <2>1. ((-last) * num) \div den \in 0 .. ((-last) - 1)
    <3>1. -last \in Nat \ {0}
      BY <1>3
    <3>2. QED  BY <1>1, <3>1, FractionBelow
  <2>2. -(last * num) = (-last) * num
    BY <1>1
  <2>3. last * num \in Int
    BY <1>1
  <2>4. CASE num = 0
    <3>1. Premium(last) = 0 \div den
      BY <1>1, <2>4 DEF Premium, Trunc
    <3>2. QED  BY <1>1, <1>3, <3>1
  <2>5. CASE num > 0
    <3>1. last * num < 0
      BY <1>1, <1>3, <2>5
    <3>2. Premium(last) = -(((-last) * num) \div den)
      BY <2>2, <2>3, <3>1 DEF Premium, Trunc
    <3>3. QED  BY <1>3, <2>1, <3>2
  <2>6. QED  BY <1>1, <2>4, <2>5
<1>4. QED  BY <1>2, <1>3

LEMMA TotalsAreNatural ==
    ASSUME PerpTypeOK
    PROVE  book_.bid_qty \in Nat /\ book_.ask_qty \in Nat
<1>1. book_ \in [bid : Optional(BookPrice), ask : Optional(BookPrice),
                bid_qty : BookQty \cup {0}, ask_qty : BookQty \cup {0}]
  BY DEF PerpTypeOK, Book
<1>2. book_.bid_qty \in BookQty \cup {0} /\ book_.ask_qty \in BookQty \cup {0}
  BY <1>1
<1>3. BookQty \cup {0} \subseteq Nat
  BY PerpetualAssumption
<1>4. QED  BY <1>2, <1>3

(* What tick() reads of a book of the right type *)
LEMMA MidIsInteger ==
    ASSUME PerpTypeOK
    PROVE  /\ Mid(book_) \in Int
           /\ ValueOrZero(book_.bid) \in Int
           /\ ValueOrZero(book_.ask) \in Int
<1>1. book_.bid \in Optional(BookPrice) /\ book_.ask \in Optional(BookPrice)
  BY DEF PerpTypeOK, Book
<1>2. ASSUME NEW S \in Optional(BookPrice) PROVE ValueOrZero(S) \in Int
  BY <1>2, PerpetualAssumption DEF Optional, ValueOrZero
<1>3. ValueOrZero(book_.bid) \in Int /\ ValueOrZero(book_.ask) \in Int
  BY <1>1, <1>2
<1> DEFINE sum == ValueOrZero(book_.bid) + ValueOrZero(book_.ask)
<1>4. sum \in Int
  BY <1>3
<1>5. Trunc(sum, 2) \in Int
  <2> HIDE DEF sum
  <2>1. QED  BY <1>4, TruncIsInteger
<1>6. Mid(book_) \in Int
  <2>1. CASE book_.bid = {} \/ book_.ask = {}
    BY <2>1 DEF Mid
  <2>2. CASE ~(book_.bid = {} \/ book_.ask = {})
    <3>1. Mid(book_) = Trunc(sum, 2)
      BY <2>2, Zenon DEF Mid
    <3>2. QED  BY <1>5, <3>1
  <2>3. QED  BY <2>1, <2>2
<1>7. QED  BY <1>3, <1>6

(* The clamp *)
LEMMA ClampFacts ==
    ASSUME PerpTypeOK, NEW m \in Int, NEW last \in Int
    PROVE  /\ Clamped(m, last) \in Int
           /\ m # 0 => Clamped(m, last) # 0
           /\ last = 0 => Clamped(m, last) = m
           /\ last # 0 /\ m # 0 =>
                 Magnitude(Clamped(m, last) - last) <= Magnitude(Premium(last))
<1>1. CASE last = 0
  BY <1>1 DEF Clamped
<1>2. CASE last # 0
  <2>1. /\ Premium(last) \in Int
        /\ last > 0 => 0 <= Premium(last) /\ Premium(last) < last
        /\ last < 0 => last < Premium(last) /\ Premium(last) <= 0
    BY <1>2, PremiumBelowPrice
  <2>2. QED  BY <1>2, <2>1 DEF Clamped, Magnitude
<1>3. QED  BY <1>1, <1>2

-----------------------------------------------------------------------------
(* Types *)

LEMMA TickFacts ==
    ASSUME PerpTypeOK, Tick
    PROVE  /\ mark_price_' \in Int
           /\ funding_rate_' \in Int \X (Nat \ {0})
           /\ mark_price_ # 0 => mark_price_' # 0
           /\ last_trade_price_ # 0 =>
                 Magnitude(mark_price_' - last_trade_price_) <= Magnitude(Premium(last_trade_price_))
<1> DEFINE m == Unclamped(Mid(book_), mark_price_, last_trade_price_)
<1>1. mark_price_ \in Int /\ last_trade_price_ \in Int
  BY DEF PerpTypeOK
<1>2. /\ m \in Int
      /\ mark_price_ # 0 \/ last_trade_price_ # 0 => m # 0
  BY <1>1, MidIsInteger DEF Unclamped
<1>3. mark_price_' = Clamped(m, last_trade_price_)
  BY DEF Tick
<1>4. funding_rate_' \in Int \X (Nat \ {0})
  <2>1. book_.bid_qty \in Nat /\ book_.ask_qty \in Nat
    BY TotalsAreNatural
  <2>2. cfg_.sensitivity \in Nat /\ cfg_.max_rate \in Nat
    BY PerpetualAssumption DEF PerpTypeOK, ConfigType
  <2> DEFINE bids == book_.bid_qty
             asks == book_.ask_qty
  <2>3. funding_rate_' = FundingRate(bids, asks)
    BY DEF Tick
  <2>5. CASE bids = asks
    BY <2>3, <2>5 DEF FundingRate
  <2>6. CASE bids # asks
    <3>1. bids + asks \in Nat \ {0}
      BY <2>1, <2>6
    <3>2. cfg_.sensitivity * (bids - asks) \in Int /\ cfg_.max_rate \in Int /\ -cfg_.max_rate \in Int
      BY <2>1, <2>2
    <3>3. QED  BY <2>3, <2>6, <3>1, <3>2 DEF FundingRate
  <2>7. QED  BY <2>5, <2>6
<1>5. QED  BY <1>1, <1>2, <1>3, <1>4, ClampFacts

LEMMA PerpInitType == PerpInit => PerpTypeOK
BY DEF PerpInit, PerpTypeOK

LEMMA PerpNextType == PerpTypeOK /\ [PerpNext]_perpVars => PerpTypeOK'
<1> SUFFICES ASSUME PerpTypeOK, [PerpNext]_perpVars PROVE PerpTypeOK'
  OBVIOUS
<1>1. CASE Tick /\ UNCHANGED book_
  BY <1>1, TickFacts DEF Tick, PerpTypeOK
<1>2. ASSUME NEW p \in TradePrice, OnTrade(p), UNCHANGED book_ PROVE PerpTypeOK'
  BY <1>2, PerpetualAssumption DEF OnTrade, PerpTypeOK
<1>3. ASSUME NEW c \in Config, SetConfig(c), UNCHANGED book_ PROVE PerpTypeOK'
  BY <1>3 DEF SetConfig, PerpTypeOK
<1>4. CASE BookMoves
  BY <1>4 DEF BookMoves, perp, PerpTypeOK
<1>5. CASE UNCHANGED perpVars
  BY <1>5 DEF perpVars, perp, PerpTypeOK
<1>6. QED  BY <1>1, <1>2, <1>3, <1>4, <1>5 DEF PerpNext

(* PerpetualEngine's prices stay integers and its funding rate a fraction, *)
(* for every book, trade and configuration.                                *)
THEOREM PerpetualTypes == PerpSpec => []PerpTypeOK
BY PerpInitType, PerpNextType, PTL DEF PerpSpec

-----------------------------------------------------------------------------
(* A mark price once known is never lost: neither a book that empties nor  *)
(* the clamp, with any premium below 100% and prices of either sign, sets  *)
(* it back to the 0 that stands for "none".                                *)
THEOREM MarkPersists == PerpSpec => MarkNeverLost
<1>1. PerpTypeOK /\ [PerpNext]_perpVars => [mark_price_ # 0 => mark_price_' # 0]_perpVars
  BY TickFacts DEF PerpNext, OnTrade, SetConfig, BookMoves, perp, perpVars
<1>2. QED  BY <1>1, PerpetualTypes, PTL DEF PerpSpec, MarkNeverLost

(* After every tick the mark price is within the premium of the last trade *)
(* price, when there is one.                                               *)
THEOREM PremiumKept == PerpSpec => PremiumHeld
<1> DEFINE Kept == Tick /\ last_trade_price_ # 0 =>
               Magnitude(mark_price_' - last_trade_price_) <= Magnitude(Premium(last_trade_price_))
<1>1. PerpTypeOK /\ [PerpNext]_perpVars => [Kept]_perpVars
  BY TickFacts
<1>2. QED  BY <1>1, PerpetualTypes, PTL DEF PerpSpec, PremiumHeld

(* With no trade known and positive quotes the mark price lies between     *)
(* them, and a one-sided book leaves it alone.                             *)
THEOREM MarkBetweenQuotes == PerpSpec => MarkInsideQuotes
<1> DEFINE bid == ValueOrZero(book_.bid)
           ask == ValueOrZero(book_.ask)
           Inside == Tick /\ last_trade_price_ = 0 =>
               IF 0 < bid /\ bid <= ask THEN bid <= mark_price_' /\ mark_price_' <= ask
               ELSE book_.bid = {} \/ book_.ask = {} => mark_price_' = mark_price_
<1>1. ASSUME PerpTypeOK PROVE Inside
  <2> SUFFICES ASSUME Tick, last_trade_price_ = 0
               PROVE  IF 0 < bid /\ bid <= ask THEN bid <= mark_price_' /\ mark_price_' <= ask
                      ELSE book_.bid = {} \/ book_.ask = {} => mark_price_' = mark_price_
    OBVIOUS
  <2>1. bid \in Int /\ ask \in Int /\ mark_price_ \in Int
    BY <1>1, MidIsInteger DEF PerpTypeOK
  <2>2. mark_price_' = IF Mid(book_) # 0 THEN Mid(book_) ELSE mark_price_
    BY DEF Tick, Clamped, Unclamped
  <2>3. CASE book_.bid = {} \/ book_.ask = {}
    <3>1. Mid(book_) = 0 /\ (bid = 0 \/ ask = 0)
      BY <2>3 DEF Mid, ValueOrZero
    <3> HIDE DEF bid, ask
    <3>2. QED  BY <2>1, <2>2, <3>1
  <2>4. CASE ~(book_.bid = {} \/ book_.ask = {}) /\ 0 < bid /\ bid <= ask
    <3>1. Mid(book_) = (bid + ask) \div 2
      BY <2>1, <2>4 DEF Mid, Trunc
    <3> HIDE DEF bid, ask
    <3>2. QED  BY <2>1, <2>2, <2>4, <3>1
  <2>5. QED  BY <2>3, <2>4
<1>2. PerpTypeOK /\ [PerpNext]_perpVars => [Inside]_perpVars
  BY <1>1
<1>3. QED  BY <1>2, PerpetualTypes, PTL DEF PerpSpec, MarkInsideQuotes

(* The funding rate has the sign of the imbalance and keeps to its bound.  *)
THEOREM FundingWithinBound == PerpSpec => FundingBounded
<1> DEFINE Bounded == Tick => LET n == funding_rate_'[1]
                                  d == funding_rate_'[2]
                              IN  /\ Magnitude(n) <= cfg_.max_rate * d
                                  /\ n > 0 => book_.bid_qty > book_.ask_qty
                                  /\ n < 0 => book_.bid_qty < book_.ask_qty
<1>1. ASSUME PerpTypeOK PROVE Bounded
  <2> SUFFICES ASSUME Tick
               PROVE  LET n == funding_rate_'[1]
                          d == funding_rate_'[2]
                      IN  /\ Magnitude(n) <= cfg_.max_rate * d
                          /\ n > 0 => book_.bid_qty > book_.ask_qty
                          /\ n < 0 => book_.bid_qty < book_.ask_qty
    OBVIOUS
  <2> DEFINE bids == book_.bid_qty
             asks == book_.ask_qty
             raw == cfg_.sensitivity * (bids - asks)
             bound == cfg_.max_rate * (bids + asks)
  <2>1. bids \in Nat /\ asks \in Nat
    BY <1>1, TotalsAreNatural
  <2>2. cfg_.sensitivity \in Nat /\ cfg_.max_rate \in Nat
    BY <1>1, PerpetualAssumption DEF PerpTypeOK, ConfigType
  <2>3. /\ raw \in Int /\ bound \in Nat
        /\ raw > 0 => bids > asks
        /\ raw < 0 => bids < asks
    BY <2>1, <2>2
  <2>4. funding_rate_' = IF bids = asks THEN <<0, 1>>
                         ELSE IF raw > bound THEN <<cfg_.max_rate, 1>>
                         ELSE IF raw < -bound THEN <<-cfg_.max_rate, 1>>
                         ELSE <<raw, bids + asks>>
    BY DEF Tick, FundingRate
  <2>5. /\ cfg_.max_rate * 1 = cfg_.max_rate
        /\ cfg_.max_rate * funding_rate_'[2] =
               IF funding_rate_'[2] = 1 THEN cfg_.max_rate ELSE cfg_.max_rate * funding_rate_'[2]
    BY <2>2
  <2>6. CASE bids = asks
    BY <2>2, <2>4, <2>5, <2>6 DEF Magnitude
  <2>7. CASE bids # asks /\ raw > bound
    <3>1. funding_rate_' = <<cfg_.max_rate, 1>>
      BY <2>4, <2>7
    <3>2. raw > 0
      BY <2>3, <2>7
    <3>3. QED  BY <2>2, <2>3, <2>5, <3>1, <3>2 DEF Magnitude
  <2>8. CASE bids # asks /\ ~(raw > bound) /\ raw < -bound
    <3>1. funding_rate_' = <<-cfg_.max_rate, 1>>
      BY <2>4, <2>8
    <3>2. raw < 0
      BY <2>3, <2>8
    <3>3. QED  BY <2>2, <2>3, <2>5, <3>1, <3>2 DEF Magnitude
  <2>9. CASE bids # asks /\ ~(raw > bound) /\ ~(raw < -bound)
    <3>1. funding_rate_'[1] = raw /\ funding_rate_'[2] = bids + asks
      BY <2>4, <2>9
    <3>2. cfg_.max_rate * funding_rate_'[2] = bound
      BY <3>1
    <3> HIDE DEF raw, bound
    <3>3. Magnitude(raw) <= bound
      BY <2>3, <2>9 DEF Magnitude
    <3>4. QED  BY <2>3, <3>1, <3>2, <3>3
  <2>10. QED  BY <2>6, <2>7, <2>8, <2>9
<1>2. PerpTypeOK /\ [PerpNext]_perpVars => [Bounded]_perpVars
  BY <1>1
<1>3. QED  BY <1>2, PerpetualTypes, PTL DEF PerpSpec, FundingBounded

-----------------------------------------------------------------------------
(* The rolling window keeps elements it was given, as many as it may. *)
LEMMA NewestFacts ==
    ASSUME NEW S, NEW s \in Seq(S), NEW n \in Nat
    PROVE  /\ Newest(s, n) \in Seq(S)
           /\ Len(Newest(s, n)) = IF Len(s) < n THEN Len(s) ELSE n
           /\ \A k \in DOMAIN Newest(s, n) : \E j \in DOMAIN s : Newest(s, n)[k] = s[j]
<1>1. Len(s) \in Nat /\ DOMAIN s = 1 .. Len(s)
  BY LenProperties
<1>2. CASE Len(s) <= n
  <2>1. Newest(s, n) = s
    BY <1>2 DEF Newest
  <2>2. Len(s) = IF Len(s) < n THEN Len(s) ELSE n
    <3> DEFINE len == Len(s)
    <3>1. len \in Nat /\ len <= n
      BY <1>1, <1>2
    <3> HIDE DEF len
    <3>2. len = IF len < n THEN len ELSE n
      BY <3>1
    <3>3. QED  BY <3>2 DEF len
  <2>3. \A k \in DOMAIN s : \E j \in DOMAIN s : s[k] = s[j]
    OBVIOUS
  <2>4. QED  BY <2>1, <2>2, <2>3
<1>3. CASE Len(s) > n
  <2> DEFINE first == Len(s) - n + 1
  <2>1. first \in 1 .. (Len(s) + 1)
    BY <1>1, <1>3
  <2>2. Newest(s, n) = SubSeq(s, first, Len(s))
    BY <1>1, <1>3 DEF Newest
  <2>3. /\ SubSeq(s, first, Len(s)) \in Seq(S)
        /\ Len(SubSeq(s, first, Len(s))) = IF first <= Len(s) THEN Len(s) - first + 1 ELSE 0
        /\ \A k \in 1 .. Len(s) - first + 1 :
              SubSeq(s, first, Len(s))[k] = s[first + k - 1]
    <3>1. \A i \in first .. Len(s) : s[i] \in S
      BY <1>1, <2>1, LenProperties
    <3>2. first \in Int /\ Len(s) \in Int
      BY <1>1
    <3> HIDE DEF first
    <3>3. QED  BY <3>1, <3>2, SubSeqProperties
  <2>4. Len(Newest(s, n)) = n /\ DOMAIN Newest(s, n) = 1 .. n
    BY <1>1, <1>3, <2>2, <2>3, LenProperties
  <2>5. ASSUME NEW k \in 1 .. n PROVE \E j \in DOMAIN s : Newest(s, n)[k] = s[j]
    <3>1. first + k - 1 \in DOMAIN s
      BY <1>1, <1>3
    <3>2. Newest(s, n)[k] = s[first + k - 1]
      BY <2>2, <2>3, <2>4
    <3>3. QED  BY <3>1, <3>2
  <2>6. QED  BY <1>1, <1>3, <2>2, <2>3, <2>4, <2>5, SMTT(40)
<1>4. QED  BY <1>1, <1>2, <1>3

(* Volume v makes v \div BucketVolume full buckets and a remainder. *)
LEMMA BucketArithmetic ==
    ASSUME NEW v \in Nat
    PROVE  /\ v \div BucketVolume \in Nat
           /\ Carried(v) \in 0 .. (BucketVolume - 1)
           /\ v = (v \div BucketVolume) * BucketVolume + Carried(v)
           /\ v < BucketVolume <=> v \div BucketVolume = 0
           /\ v = BucketVolume => v \div BucketVolume = 1
<1> DEFINE n == v \div BucketVolume
<1>1. BucketVolume \in Nat \ {0}
  BY VpinAssumption
<1>2. /\ n \in Int
      /\ v % BucketVolume \in 0 .. (BucketVolume - 1)
      /\ v = BucketVolume * n + (v % BucketVolume)
  BY <1>1
<1>3. n >= 0
  <2>1. SUFFICES ASSUME n <= -1 PROVE FALSE
    BY <1>2
  <2>2. BucketVolume * n <= -BucketVolume
    BY <1>1, <1>2, <2>1
  <2>3. QED  BY <1>1, <1>2, <2>2
<1>4. BucketVolume * n = n * BucketVolume
  BY <1>1, <1>2
<1> HIDE DEF n
<1>5. n >= 1 => v >= BucketVolume
  <2>1. n >= 1 => BucketVolume * n >= BucketVolume
    BY <1>1, <1>2
  <2>2. BucketVolume * n \in Int
    BY <1>1, <1>2
  <2>3. QED  BY <1>1, <1>2, <2>1, <2>2
<1>6. n >= 2 => v > BucketVolume
  <2>1. n >= 2 => BucketVolume * n >= BucketVolume + BucketVolume
    BY <1>1, <1>2
  <2>2. QED  BY <1>1, <1>2, <2>1
<1>7. n = 0 => v < BucketVolume
  <2>1. n = 0 => BucketVolume * n = 0
    BY <1>1
  <2>2. QED  BY <1>1, <1>2, <2>1
<1>8. Carried(v) = v % BucketVolume
  <2>1. Carried(v) = v - n * BucketVolume
    BY DEF Carried, n
  <2>2. n * BucketVolume \in Int
    BY <1>1, <1>2
  <2>3. QED  BY <1>1, <1>2, <1>4, <2>1, <2>2
<1>9. /\ n \in Nat
      /\ v = n * BucketVolume + Carried(v)
      /\ v < BucketVolume <=> n = 0
      /\ v = BucketVolume => n = 1
  BY <1>1, <1>2, <1>3, <1>4, <1>5, <1>6, <1>7, <1>8
<1>10. QED  BY <1>2, <1>8, <1>9 DEF n

(* The ratios a trade finalizes: proper ones, and a bucket that holds buys *)
(* only, filled to the brim, gets ratio 1.                                 *)
LEMMA FilledFacts ==
    ASSUME NEW v \in Nat, NEW b \in Nat, NEW s \in Nat, b + s <= v
    PROVE  /\ Filled(v, b, s) \in Seq(Ratio)
           /\ Len(Filled(v, b, s)) = v \div BucketVolume
           /\ \A k \in DOMAIN Filled(v, b, s) : Filled(v, b, s)[k][1] <= Filled(v, b, s)[k][2]
           /\ s = 0 /\ b = v /\ v <= BucketVolume =>
                 \A k \in DOMAIN Filled(v, b, s) : Filled(v, b, s)[k][1] = Filled(v, b, s)[k][2]
<1> DEFINE n == v \div BucketVolume
           e(k) == <<IF k = 1 THEN Distance(b, s) ELSE 0, v - (k - 1) * BucketVolume>>
<1>1. BucketVolume \in Nat \ {0} /\ n \in Nat /\ v = n * BucketVolume + Carried(v)
      /\ Carried(v) \in Nat
  <2>1. /\ v \div BucketVolume \in Nat
        /\ Carried(v) \in 0 .. (BucketVolume - 1)
        /\ v = (v \div BucketVolume) * BucketVolume + Carried(v)
    BY BucketArithmetic
  <2>2. QED  BY <2>1, VpinAssumption
<1>2. Distance(b, s) \in Nat /\ Distance(b, s) <= v /\ (s = 0 => Distance(b, s) = b)
  BY DEF Distance
<1>3. ASSUME NEW k \in 1 .. n
      PROVE  /\ v - (k - 1) * BucketVolume \in Nat \ {0}
             /\ k = 1 => v - (k - 1) * BucketVolume = v
  <2>1. k * BucketVolume <= n * BucketVolume
    BY <1>1
  <2>2. (k - 1) * BucketVolume = k * BucketVolume - BucketVolume
    BY <1>1
  <2>3. k * BucketVolume \in Nat /\ n * BucketVolume \in Nat
    BY <1>1
  <2>4. QED  BY <1>1, <2>1, <2>2, <2>3
<1>4. \A k \in 1 .. n : e(k) \in Ratio /\ e(k)[1] <= e(k)[2]
  BY <1>2, <1>3 DEF Ratio
<1>5. Filled(v, b, s) = [k \in 1 .. n |-> e(k)]
  BY DEF Filled
<1>6. Filled(v, b, s) \in Seq(Ratio) /\ Len(Filled(v, b, s)) = n
  <2> HIDE DEF e
  <2>1. Filled(v, b, s) \in Seq(Ratio)
    BY <1>1, <1>4, <1>5
  <2>2. QED  BY <1>1, <1>5, <2>1
<1>7. ASSUME s = 0, b = v, v <= BucketVolume, NEW k \in 1 .. n
      PROVE  e(k)[1] = e(k)[2]
  <2>1. v < BucketVolume => n = 0
    BY BucketArithmetic
  <2>2. v = BucketVolume => n = 1
    BY BucketArithmetic
  <2>3. n \in {0, 1}
    BY <1>1, <1>7, <2>1, <2>2
  <2>4. k = 1
    BY <2>3
  <2>5. QED  BY <1>2, <1>3, <1>7, <2>4
<1>8. DOMAIN Filled(v, b, s) = 1 .. n
  BY <1>5
<1>9. QED  BY <1>4, <1>5, <1>6, <1>7, <1>8

-----------------------------------------------------------------------------
(* The inductive invariant: besides the properties, the sides of the       *)
(* bucket being filled account for its volume unless excess was carried.   *)
SidesAccounted ==
    /\ ~selling => current_bucket_sell = 0
    /\ ~overflowed => current_bucket_buy + current_bucket_sell = current_bucket_vol

VpinIInv ==
    /\ VpinTypeOK
    /\ VolumeBucketed
    /\ RatiosInRange
    /\ OneSidedFlowToxic
    /\ SidesAccounted

LEMMA VpinInitInv == VpinInit => VpinIInv
<1> SUFFICES ASSUME VpinInit PROVE VpinIInv
  OBVIOUS
<1>1. Len(vpin_history) = 0 /\ DOMAIN vpin_history = {} /\ vpin_history \in Seq(Ratio)
  <2>1. vpin_history = <<>>
    BY DEF VpinInit
  <2>2. QED  BY <2>1
<1>2. BucketVolume \in Nat \ {0} /\ Window \in Nat
  BY VpinAssumption
<1>3. VpinTypeOK
  <2>1. selling \in BOOLEAN /\ overflowed \in BOOLEAN
    BY DEF VpinInit
  <2>2. {current_bucket_buy, current_bucket_sell, current_bucket_vol,
         fed, finalized} \subseteq Nat
    BY DEF VpinInit
  <2>3. QED  BY <1>1, <2>1, <2>2 DEF VpinTypeOK
<1>4. VolumeBucketed
  BY <1>1, <1>2 DEF VpinInit, VolumeBucketed
<1>5. RatiosInRange /\ OneSidedFlowToxic /\ SidesAccounted
  BY <1>1 DEF VpinInit, RatiosInRange, OneSidedFlowToxic, SidesAccounted
<1>6. QED  BY <1>3, <1>4, <1>5 DEF VpinIInv

LEMMA ResetInv == Reset => VpinIInv'
<1> SUFFICES ASSUME Reset PROVE VpinIInv'
  OBVIOUS
<1>1. Len(vpin_history') = 0 /\ DOMAIN vpin_history' = {} /\ vpin_history' \in Seq(Ratio)
  <2>1. vpin_history' = <<>>
    BY DEF Reset
  <2>2. QED  BY <2>1
<1>2. BucketVolume \in Nat \ {0} /\ Window \in Nat
  BY VpinAssumption
<1>3. VpinTypeOK'
  <2>1. selling' \in BOOLEAN /\ overflowed' \in BOOLEAN
    BY DEF Reset
  <2>2. {current_bucket_buy', current_bucket_sell', current_bucket_vol',
         fed', finalized'} \subseteq Nat
    BY DEF Reset
  <2>3. QED  BY <1>1, <2>1, <2>2 DEF VpinTypeOK
<1>4. VolumeBucketed'
  BY <1>1, <1>2 DEF Reset, VolumeBucketed
<1>5. RatiosInRange' /\ OneSidedFlowToxic' /\ SidesAccounted'
  BY <1>1 DEF Reset, RatiosInRange, OneSidedFlowToxic, SidesAccounted
<1>6. QED  BY <1>3, <1>4, <1>5 DEF VpinIInv

LEMMA FeedTradeInv ==
    ASSUME VpinIInv, NEW q \in TradeQty, NEW price \in Int, NEW mid \in Int,
           FeedTrade(q, price, mid)
    PROVE  VpinIInv'
<1> DEFINE b == current_bucket_buy + (IF BuyInitiated(price, mid) THEN q ELSE 0)
           s == current_bucket_sell + (IF BuyInitiated(price, mid) THEN 0 ELSE q)
           v == current_bucket_vol + q
           n == v \div BucketVolume
           h == vpin_history \o Filled(v, b, s)
<1>1. q \in Nat /\ BucketVolume \in Nat \ {0} /\ Window \in Nat
  BY VpinAssumption
<1>2. /\ vpin_history \in Seq(Ratio)
      /\ current_bucket_buy \in Nat /\ current_bucket_sell \in Nat /\ current_bucket_vol \in Nat
      /\ fed \in Nat /\ finalized \in Nat
      /\ selling \in BOOLEAN /\ overflowed \in BOOLEAN
  BY DEF VpinIInv, VpinTypeOK
<1>3. b \in Nat /\ s \in Nat /\ v \in Nat /\ b + s <= v
  BY <1>1, <1>2 DEF VpinIInv, RatiosInRange
<1>4. /\ n \in Nat
      /\ Carried(v) \in 0 .. (BucketVolume - 1)
      /\ v = n * BucketVolume + Carried(v)
      /\ v < BucketVolume <=> n = 0
  BY <1>3, BucketArithmetic
<1>5. /\ Filled(v, b, s) \in Seq(Ratio)
      /\ Len(Filled(v, b, s)) = n
      /\ \A k \in DOMAIN Filled(v, b, s) : Filled(v, b, s)[k][1] <= Filled(v, b, s)[k][2]
      /\ s = 0 /\ b = v /\ v <= BucketVolume =>
            \A k \in DOMAIN Filled(v, b, s) : Filled(v, b, s)[k][1] = Filled(v, b, s)[k][2]
  BY <1>3, FilledFacts
<1>6. /\ vpin_history' = Newest(h, Window)
      /\ current_bucket_buy' = IF v >= BucketVolume THEN 0 ELSE b
      /\ current_bucket_sell' = IF v >= BucketVolume THEN 0 ELSE s
      /\ current_bucket_vol' = Carried(v)
      /\ fed' = fed + q
      /\ finalized' = finalized + n
      /\ selling' = (selling \/ price < mid)
      /\ overflowed' = (overflowed \/ v > BucketVolume)
  BY DEF FeedTrade
<1> HIDE DEF b, s, v, n
<1>7. /\ h \in Seq(Ratio)
      /\ Len(h) = Len(vpin_history) + n
      /\ \A j \in DOMAIN h : \/ \E i \in DOMAIN vpin_history : h[j] = vpin_history[i]
                             \/ \E i \in DOMAIN Filled(v, b, s) : h[j] = Filled(v, b, s)[i]
  <2>1. /\ h \in Seq(Ratio)
        /\ Len(h) = Len(vpin_history) + Len(Filled(v, b, s))
        /\ \A j \in 1 .. Len(h) : h[j] = IF j <= Len(vpin_history) THEN vpin_history[j]
                                         ELSE Filled(v, b, s)[j - Len(vpin_history)]
    BY <1>2, <1>5, ConcatProperties, ZenonT(40)
  <2>2. /\ DOMAIN h = 1 .. Len(h) /\ DOMAIN vpin_history = 1 .. Len(vpin_history)
        /\ DOMAIN Filled(v, b, s) = 1 .. Len(Filled(v, b, s))
        /\ Len(vpin_history) \in Nat
    BY <1>2, <1>5, <2>1, LenProperties
  <2>3. QED  BY <1>4, <1>5, <2>1, <2>2
<1>8. /\ vpin_history' \in Seq(Ratio)
      /\ Len(vpin_history') = IF Len(h) < Window THEN Len(h) ELSE Window
      /\ \A k \in DOMAIN vpin_history' : \E j \in DOMAIN h : vpin_history'[k] = h[j]
  <2> HIDE DEF h
  <2>1. Window \in Nat /\ h \in Seq(Ratio)
    BY <1>1, <1>7
  <2>2. QED  BY <1>6, <2>1, NewestFacts
<1> HIDE DEF h
<1>9. VpinTypeOK'
  BY <1>1, <1>2, <1>3, <1>4, <1>6, <1>8 DEF VpinTypeOK
<1>10. VolumeBucketed'
  <2>1. fed' = finalized' * BucketVolume + current_bucket_vol'
    <3>1. fed + q = finalized * BucketVolume + v
      BY <1>1, <1>2 DEF VpinIInv, VolumeBucketed, v
    <3>2. (finalized + n) * BucketVolume = finalized * BucketVolume + n * BucketVolume
      BY <1>1, <1>2, <1>4
    <3>3. finalized * BucketVolume \in Nat /\ n * BucketVolume \in Nat
      BY <1>1, <1>2, <1>4
    <3>4. QED  BY <1>3, <1>4, <1>6, <3>1, <3>2, <3>3
  <2>2. current_bucket_vol' < BucketVolume
    BY <1>1, <1>4, <1>6
  <2>3. Len(vpin_history') = IF finalized' < Window THEN finalized' ELSE Window
    BY <1>1, <1>2, <1>4, <1>6, <1>7, <1>8 DEF VpinIInv, VolumeBucketed
  <2>4. QED  BY <2>1, <2>2, <2>3 DEF VolumeBucketed
<1>11. RatiosInRange'
  <2>1. current_bucket_buy' + current_bucket_sell' <= current_bucket_vol'
    <3>1. CASE v < BucketVolume
      BY <1>1, <1>3, <1>4, <1>6, <3>1
    <3>2. CASE v >= BucketVolume
      BY <1>1, <1>4, <1>6, <3>2
    <3>3. QED  BY <1>1, <1>3, <3>1, <3>2
  <2>2. ASSUME NEW k \in DOMAIN vpin_history' PROVE vpin_history'[k][1] <= vpin_history'[k][2]
    <3>1. PICK j \in DOMAIN h : vpin_history'[k] = h[j]
      BY <1>8
    <3>2. CASE \E i \in DOMAIN vpin_history : h[j] = vpin_history[i]
      BY <3>1, <3>2 DEF VpinIInv, RatiosInRange
    <3>3. CASE \E i \in DOMAIN Filled(v, b, s) : h[j] = Filled(v, b, s)[i]
      BY <1>5, <3>1, <3>3
    <3>4. QED  BY <1>7, <3>2, <3>3
  <2>3. QED  BY <2>1, <2>2 DEF RatiosInRange
<1>12. ASSUME ~selling' PROVE s = 0
  <2>1. ~selling /\ ~(price < mid)
    BY <1>6, <1>12
  <2>2. price >= mid /\ current_bucket_sell = 0
    BY <2>1 DEF VpinIInv, SidesAccounted
  <2>3. QED  BY <2>2 DEF s, BuyInitiated
<1>13. ASSUME ~overflowed' PROVE v <= BucketVolume /\ b + s = v
  <2>1. ~overflowed /\ ~(v > BucketVolume)
    BY <1>6, <1>13
  <2>2. current_bucket_buy + current_bucket_sell = current_bucket_vol
    BY <2>1 DEF VpinIInv, SidesAccounted
  <2>3. QED  BY <1>1, <1>2, <1>3, <2>1, <2>2 DEF b, s, v
<1>14. OneSidedFlowToxic'
  <2> SUFFICES ASSUME ~selling', ~overflowed', NEW k \in DOMAIN vpin_history'
               PROVE  vpin_history'[k][1] = vpin_history'[k][2]
    BY DEF OneSidedFlowToxic
  <2>1. ~selling /\ ~overflowed
    BY <1>6
  <2>2. b = v
    BY <1>3, <1>12, <1>13
  <2>3. \A i \in DOMAIN Filled(v, b, s) : Filled(v, b, s)[i][1] = Filled(v, b, s)[i][2]
    BY <1>5, <1>12, <1>13, <2>2
  <2>4. \A i \in DOMAIN vpin_history : vpin_history[i][1] = vpin_history[i][2]
    BY <2>1 DEF VpinIInv, OneSidedFlowToxic
  <2>5. PICK j \in DOMAIN h : vpin_history'[k] = h[j]
    BY <1>8
  <2>6. CASE \E i \in DOMAIN vpin_history : h[j] = vpin_history[i]
    BY <2>4, <2>5, <2>6
  <2>7. CASE \E i \in DOMAIN Filled(v, b, s) : h[j] = Filled(v, b, s)[i]
    BY <2>3, <2>5, <2>7
  <2>8. QED  BY <1>7, <2>6, <2>7
<1>15. SidesAccounted'
  <2>1. ~selling' => current_bucket_sell' = 0
    BY <1>6, <1>12
  <2>2. ASSUME ~overflowed' PROVE current_bucket_buy' + current_bucket_sell' = current_bucket_vol'
    <3>1. CASE v < BucketVolume
      BY <1>1, <1>3, <1>4, <1>6, <1>13, <2>2, <3>1
    <3>2. CASE v = BucketVolume
      <4>1. Carried(v) = 0
        BY <1>1, <3>2, BucketArithmetic DEF Carried
      <4>2. QED  BY <1>1, <1>6, <3>2, <4>1
    <3>3. QED  BY <1>1, <1>3, <1>13, <2>2, <3>1, <3>2
  <2>3. QED  BY <2>1, <2>2 DEF SidesAccounted
<1>16. QED  BY <1>9, <1>10, <1>11, <1>14, <1>15 DEF VpinIInv

LEMMA VpinNextInv == VpinIInv /\ [VpinNext]_vpinVars => VpinIInv'
<1> SUFFICES ASSUME VpinIInv, [VpinNext]_vpinVars PROVE VpinIInv'
  OBVIOUS
<1>1. ASSUME NEW q \in TradeQty, NEW price \in Int, NEW mid \in Int, FeedTrade(q, price, mid)
      PROVE  VpinIInv'
  BY <1>1, FeedTradeInv
<1>2. CASE Reset
  BY <1>2, ResetInv
<1>3. CASE UNCHANGED vpinVars
  BY <1>3 DEF vpinVars, bucket, VpinIInv, VpinTypeOK, VolumeBucketed, RatiosInRange,
              OneSidedFlowToxic, SidesAccounted
<1>4. QED  BY <1>1, <1>2, <1>3 DEF VpinNext

-----------------------------------------------------------------------------
THEOREM VpinInvariance == VpinSpec => []VpinIInv
BY VpinInitInv, VpinNextInv, PTL DEF VpinSpec

(* Trades of any size leave no volume behind between buckets, and the      *)
(* window holds exactly the newest Window of them.                         *)
THEOREM NoVolumeLost == VpinSpec => []VolumeBucketed
<1>1. VpinIInv => VolumeBucketed
  BY DEF VpinIInv
<1>2. QED  BY <1>1, VpinInvariance, PTL

(* No bucket reports a ratio above 1, whatever excess was carried into it, *)
(* and one-sided flow reads as fully toxic while no trade overflows a      *)
(* bucket.                                                                 *)
THEOREM RatiosTrue == VpinSpec => []RatiosTruthful
<1>1. VpinIInv => RatiosTruthful
  BY DEF VpinIInv, RatiosTruthful
<1>2. QED  BY <1>1, VpinInvariance, PTL

-----------------------------------------------------------------------------
(* The two beside one market                                               *)

LEMMA PerpetualStepIs == [Next]_vars => [PerpNext]_perpVars
BY DEF Next, PerpetualStep, Traded, Cleared, vars, perpVars

LEMMA VpinStepIs == PerpTypeOK /\ [Next]_vars => [VpinNext]_vpinVars
<1> SUFFICES ASSUME PerpTypeOK, [Next]_vars PROVE [VpinNext]_vpinVars
  OBVIOUS
<1>1. CASE Traded
  <2>1. PICK q \in TradeQty, p \in TradePrice : fed + q <= MaxFed /\ FeedTrade(q, p, Mid(book_))
    BY <1>1 DEF Traded
  <2>2. Mid(book_) \in Int /\ p \in Int
    BY MidIsInteger, PerpetualAssumption DEF PerpTypeOK
  <2> QED
    BY <2>1, <2>2 DEF VpinNext
<1>2. CASE PerpetualStep \/ UNCHANGED vars
  BY <1>2 DEF PerpetualStep, vars
<1>3. CASE Cleared
  BY <1>3 DEF Cleared, VpinNext
<1> QED
  BY <1>1, <1>2, <1>3 DEF Next

(* The market drives each calculator as its own specification says, so     *)
(* that what is proved of them above holds when they share a book: also    *)
(* with the mid price of a book that just lost a side.                     *)
THEOREM MarketDrivesBoth == Spec => PerpSpec /\ VpinSpec
<1>1. Init => PerpInit /\ VpinInit
  BY DEF Init
<1> QED
  BY <1>1, PerpetualStepIs, VpinStepIs, PerpInitType, PerpNextType, PTL DEF Spec, PerpSpec, VpinSpec

(* Prices and volumes stay integers and no fraction is over zero, for any  *)
(* market, configuration, bucket and trades.                               *)
THEOREM AnalyticsTypes == Spec => []TypeOK
<1>1. PerpTypeOK /\ VpinIInv => TypeOK
  BY DEF TypeOK, VpinIInv
<1> QED
  BY <1>1, MarketDrivesBoth, PerpetualTypes, VpinInvariance, PTL
=============================================================================
