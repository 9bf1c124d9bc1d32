---------------------------- MODULE BoundedFifo ----------------------------
(* A buffer of bounded capacity between writers and readers: what comes    *)
(* out is what went in, in that order, once.                               *)
EXTENDS Naturals, Sequences

CONSTANTS Data, Capacity
VARIABLES queue, last    \* last: what was taken last

vars == <<queue, last>>

Init == queue = << >> /\ last \notin Data

Put(d) ==
    /\ Len(queue) < Capacity
    /\ queue' = Append(queue, d)
    /\ UNCHANGED last

Get ==
    /\ queue # << >>
    /\ last' = Head(queue)
    /\ queue' = Tail(queue)

Next == Get \/ \E d \in Data : Put(d)

Spec == Init /\ [][Next]_vars
=============================================================================
