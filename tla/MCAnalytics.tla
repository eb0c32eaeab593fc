----------------------------- MODULE MCAnalytics -----------------------------
(* An instance of Analytics for TLC. *)
EXTENDS Analytics

MCConfig == {[num |-> 1, den |-> 4, sensitivity |-> 3, max_rate |-> 2],
             [num |-> 0, den |-> 1, sensitivity |-> 1, max_rate |-> 5]}
MCPrice == {-1, 1, 7}
MCTradePrice == {-6, 4}
=============================================================================
