----------------------------- MODULE Analytics -----------------------------
(***************************************************************************)
(* The two calculators beside one market, as the tests drive them: the     *)
(* book moves, ticks come, trades are reported to PerpetualEngine and fed  *)
(* to VPINCalculator with the mid price of the book of that moment, which  *)
(* is 0 when a side is empty (simulator.cpp:125).                          *)
(***************************************************************************)
EXTENDS Perpetual, Vpin

vars == <<perpVars, vpinVars>>

Init == PerpInit /\ VpinInit

PerpetualStep == PerpNext /\ UNCHANGED vpinVars

Traded ==
    \E q \in TradeQty, p \in TradePrice :
        /\ fed + q <= MaxFed
        /\ FeedTrade(q, p, Mid(book_))
        /\ UNCHANGED perpVars

Cleared == Reset /\ UNCHANGED perpVars

Next == PerpetualStep \/ Traded \/ Cleared

Spec == Init /\ [][Next]_vars

-----------------------------------------------------------------------------
(* Prices and volumes stay integers, and every fraction has a positive     *)
(* denominator: nothing is divided by an empty book or an empty bucket.    *)
TypeOK == PerpTypeOK /\ VpinTypeOK
=============================================================================
