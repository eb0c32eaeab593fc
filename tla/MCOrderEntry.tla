---------------------------- MODULE MCOrderEntry ----------------------------
(* An instance of OrderEntry for TLC. *)
EXTENDS OrderEntry

MCOrder(side, type, qty) ==
    [side |-> side, type |-> type, price |-> 1, total_qty |-> qty, visible_qty |-> 0]
MCOrders == {MCOrder("Bid", "Limit", 1), MCOrder("Ask", "IOC", 2)}
=============================================================================
