------------------------------ MODULE NameTree ------------------------------
(***************************************************************************)
(* What the directory operations promise: a tree of named nodes, in which  *)
(* leaves come and go and a node can be moved, never below itself.         *)
(***************************************************************************)
EXTENDS Naturals, FiniteSets

CONSTANTS Nodes, Root, Names

VARIABLE tree   \* records of the nodes: node, kind, parent and name

Directories == {Root} \cup {t.node : t \in {u \in tree : u.kind = "dir"}}
Taken(d, name) == \E t \in tree : t.parent = d /\ t.name = name
Children(n) == {t \in tree : t.parent = n}

(* The nodes at or above n: the smallest set with n that is closed upwards. *)
Above(n) ==
    LET Closed(S) == n \in S /\ \A t \in tree : t.node \in S => t.parent \in S
        AllAbove == {S \in SUBSET (Nodes \cup {Root}) : Closed(S)}
    IN  {m \in Nodes \cup {Root} : \A S \in AllAbove : m \in S}

Init == tree = {}

Create(n, kind, d, name) ==
    /\ \A t \in tree : t.node # n
    /\ ~Taken(d, name)
    /\ tree' = tree \cup {[node |-> n, kind |-> kind, parent |-> d, name |-> name]}

Remove(t) == Children(t.node) = {} /\ tree' = tree \ {t}

Move(t, d, name) ==
    /\ ~Taken(d, name) /\ t.node \notin Above(d)
    /\ tree' = (tree \ {t}) \cup {[t EXCEPT !.parent = d, !.name = name]}

Next ==
    \/ \E n \in Nodes, kind \in {"file", "dir"}, d \in Directories, name \in Names :
          Create(n, kind, d, name)
    \/ \E t \in tree : \/ Remove(t)
                       \/ \E d \in Directories, name \in Names : Move(t, d, name)

Spec == Init /\ [][Next]_tree
=============================================================================
