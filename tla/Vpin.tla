-------------------------------- MODULE Vpin --------------------------------
(***************************************************************************)
(* VPINCalculator: trades are poured into buckets of BucketVolume units;   *)
(* a full bucket leaves the ratio |buy - sell| / volume in a rolling       *)
(* window.  Ratios are pairs <<num, den>>.                                 *)
(***************************************************************************)
EXTENDS Integers, Sequences, SequencesExt

CONSTANTS
    BucketVolume,   \* bucket_volume
    Window,         \* window_buckets
    TradeQty,       \* trade quantities (bound)
    MaxFed          \* bound: volume fed between two resets

(* With a bucket volume of zero feedTrade's loop would never end *)
ASSUME VpinAssumption ==
    /\ BucketVolume \in Nat \ {0}
    /\ Window \in Nat
    /\ TradeQty \subseteq Nat
    /\ MaxFed \in Nat

VARIABLES
    vpin_history,          \* Seq(Ratio), the newest Window buckets
    current_bucket_buy,
    current_bucket_sell,
    current_bucket_vol,
    fed,                   \* history: volume fed since the last reset
    finalized,             \* history: buckets finalized since then
    selling,               \* history: some trade was below the mid price
    overflowed             \* history: some trade did not fit in its bucket

bucket == <<current_bucket_buy, current_bucket_sell, current_bucket_vol>>
vpinVars == <<vpin_history, bucket, fed, finalized, selling, overflowed>>

VpinInit ==
    /\ vpin_history = <<>>
    /\ current_bucket_buy = 0 /\ current_bucket_sell = 0 /\ current_bucket_vol = 0
    /\ fed = 0 /\ finalized = 0 /\ selling = FALSE /\ overflowed = FALSE

-----------------------------------------------------------------------------
Distance(x, y) == IF x >= y THEN x - y ELSE y - x

BuyInitiatedAbove(price, mid) == price > mid             \* fault
BuyInitiated(price, mid) == price >= mid

NewestAndOne(s, n) ==                                    \* fault: >= for >, off by one
    IF Len(s) <= n + 1 THEN s ELSE SubSeq(s, Len(s) - n, Len(s))
Newest(s, n) == IF Len(s) <= n THEN s ELSE SubSeq(s, Len(s) - n + 1, Len(s))

(* What the loop pushes for volume v, of which b was bought and s sold:    *)
(* the first bucket takes all of b and s, and divides by ALL the volume;   *)
(* the excess goes on to the next buckets without a side.                  *)
Filled(v, b, s) ==
    [k \in 1 .. v \div BucketVolume |->
        <<IF k = 1 THEN Distance(b, s) ELSE 0, v - (k - 1) * BucketVolume>>]

Carried(v) == v - (v \div BucketVolume) * BucketVolume

FeedTrade(q, price, mid) ==
    LET b == current_bucket_buy + (IF BuyInitiated(price, mid) THEN q ELSE 0)
        s == current_bucket_sell + (IF BuyInitiated(price, mid) THEN 0 ELSE q)
        v == current_bucket_vol + q
        full == v >= BucketVolume
    IN  /\ vpin_history' = Newest(vpin_history \o Filled(v, b, s), Window)
        /\ current_bucket_buy' = IF full THEN 0 ELSE b
        /\ current_bucket_sell' = IF full THEN 0 ELSE s
        /\ current_bucket_vol' = Carried(v)
        /\ fed' = fed + q
        /\ finalized' = finalized + v \div BucketVolume
        /\ selling' = (selling \/ price < mid)
        /\ overflowed' = (overflowed \/ v > BucketVolume)

Reset ==
    /\ vpin_history' = <<>>
    /\ current_bucket_buy' = 0 /\ current_bucket_sell' = 0 /\ current_bucket_vol' = 0
    /\ fed' = 0 /\ finalized' = 0 /\ selling' = FALSE /\ overflowed' = FALSE

VpinNext ==
    \/ \E q \in TradeQty, price, mid \in Int : fed + q <= MaxFed /\ FeedTrade(q, price, mid)
    \/ Reset

VpinSpec == VpinInit /\ [][VpinNext]_vpinVars

-----------------------------------------------------------------------------
(* Reading the calculator *)

Plus(x, y) == <<x[1] * y[2] + y[1] * x[2], x[2] * y[2]>>

(* currentVPIN: the average over the window *)
CurrentVPIN(h) ==
    LET sum == FoldLeft(Plus, <<0, 1>>, h) IN
    IF h = <<>> THEN <<0, 1>> ELSE <<sum[1], sum[2] * Len(h)>>

(* toxicity: (v - 0.1) / 0.8, between 0 and 1 *)
Toxicity(h) ==
    LET v == CurrentVPIN(h)
        t == 10 * v[1] - v[2]
    IN  <<IF t < 0 THEN 0 ELSE IF t > 8 * v[2] THEN 8 * v[2] ELSE t, 8 * v[2]>>

-----------------------------------------------------------------------------
Ratio == Nat \X (Nat \ {0})

VpinTypeOK ==
    /\ vpin_history \in Seq(Ratio)
    /\ {current_bucket_buy, current_bucket_sell, current_bucket_vol, fed, finalized} \subseteq Nat
    /\ selling \in BOOLEAN /\ overflowed \in BOOLEAN

(* No volume is lost between buckets, however large the trades: what was   *)
(* fed is what the finalized buckets hold plus the bucket being filled,    *)
(* and the window holds as many of them as it should.                      *)
VolumeBucketed ==
    /\ fed = finalized * BucketVolume + current_bucket_vol
    /\ current_bucket_vol < BucketVolume
    /\ Len(vpin_history) = IF finalized < Window THEN finalized ELSE Window

(* Every bucket's ratio is one: never above 1, also when excess volume     *)
(* without a side was carried into it.                                     *)
RatiosInRange ==
    /\ current_bucket_buy + current_bucket_sell <= current_bucket_vol
    /\ \A k \in DOMAIN vpin_history : vpin_history[k][1] <= vpin_history[k][2]

(* "All buy, so imbalance = 1.0 and VPIN = 1.0" (test_vpin.cpp:26): flow   *)
(* of one side only is fully toxic, as long as no trade overflows a        *)
(* bucket.  One that does leaves the buckets after its first with ratio 0. *)
OneSidedFlowToxic ==
    ~selling /\ ~overflowed =>
        \A k \in DOMAIN vpin_history : vpin_history[k][1] = vpin_history[k][2]

(* What currentVPIN averages: proper ratios, 1 for one-sided flow. *)
RatiosTruthful == RatiosInRange /\ OneSidedFlowToxic
=============================================================================
