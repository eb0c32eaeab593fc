---------------------------- MODULE MCMarketData ----------------------------
(* An instance of MarketData for TLC: sensitivity and maximum as in the    *)
(* default PerpetualConfig, 1.0 and 0.001.                                 *)
EXTENDS MarketData

MCPerpConfig == [num |-> 1, den |-> 100, sensitivity |-> 1000, max_rate |-> 1]
MCOrders ==
    {[side |-> "Bid", type |-> "Limit", price |-> 1, total_qty |-> 2, visible_qty |-> 0],
     [side |-> "Bid", type |-> "Limit", price |-> 2, total_qty |-> 1, visible_qty |-> 0],
     [side |-> "Ask", type |-> "Limit", price |-> 2, total_qty |-> 1, visible_qty |-> 0],
     [side |-> "Ask", type |-> "Limit", price |-> 1, total_qty |-> 1, visible_qty |-> 0]}
=============================================================================
