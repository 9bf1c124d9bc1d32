------------------------------ MODULE FifoLock ------------------------------
(* A lock as its users see it: a line of threads whose first one has the   *)
(* lock.  A thread joins at the end and only the first one leaves.         *)
EXTENDS Sequences

CONSTANTS Threads, Locks
VARIABLE line

Enter(t, m) ==
    /\ \A i \in DOMAIN line[m] : line[m][i] # t
    /\ line' = [line EXCEPT ![m] = Append(@, t)]

Leave(m) ==
    /\ line[m] # << >>
    /\ line' = [line EXCEPT ![m] = Tail(@)]

Init == line = [m \in Locks |-> << >>]

Next == \E m \in Locks : Leave(m) \/ \E t \in Threads : Enter(t, m)

Spec == Init /\ [][Next]_line
=============================================================================
