----------------------------- MODULE MCSimulator -----------------------------
(* An instance of Simulator for TLC: one simulator with a maker and VPIN,  *)
(* one with an adaptive maker and no VPIN, each beside a random bot.       *)
EXTENDS Simulator

MCPerpConfig == [num |-> 1, den |-> 100, sensitivity |-> 1000, max_rate |-> 1]
MCSetups == {[bots |-> <<"random", "maker">>, vpin |-> TRUE],
             [bots |-> <<"random", "adaptive">>, vpin |-> FALSE]}
MCSeedOrders == {Limit("Bid", 5, 2), Limit("Ask", 6, 2)}
=============================================================================
