-------------------------------- MODULE Fifo --------------------------------
(* What a pipe promises: bytes come out in the order they went in, and at   *)
(* most Capacity of them are inside.                                        *)
EXTENDS Naturals, Sequences

CONSTANTS Byte, Capacity

VARIABLE q

Init == q = <<>>

Put(b) == Len(q) < Capacity /\ q' = Append(q, b)

Get == q # <<>> /\ q' = Tail(q)

Next == Get \/ \E b \in Byte : Put(b)

Spec == Init /\ [][Next]_q

=============================================================================
