-------------------------------- MODULE Fifo --------------------------------
(***************************************************************************)
(* What a bounded queue promises the two threads at its ends.              *)
(***************************************************************************)
EXTENDS Naturals, Sequences

CONSTANTS Value, Capacity

VARIABLES
    items,    \* the queue
    out,      \* the value handed out last
    alive     \* not yet destroyed

vars == <<items, out, alive>>

Init ==
    /\ items = <<>>
    /\ out \notin Value
    /\ alive = TRUE

Put(v) ==
    /\ alive
    /\ Len(items) < Capacity
    /\ items' = Append(items, v)
    /\ UNCHANGED <<out, alive>>

Get ==
    /\ alive
    /\ items # <<>>
    /\ out' = Head(items)
    /\ items' = Tail(items)
    /\ UNCHANGED alive

Dispose ==
    /\ alive
    /\ alive' = FALSE
    /\ items' = <<>>
    /\ UNCHANGED out

Next == Get \/ Dispose \/ \E v \in Value : Put(v)

Spec == Init /\ [][Next]_vars
=============================================================================
