--------------------------- MODULE PrivateMemory ---------------------------
(***************************************************************************)
(* What processes may rely on: every address space has contents of its     *)
(* own.  Only the owner changes a page, only where its mapping permits it, *)
(* fork gives the child a copy, and a new mapping reads as zero.           *)
(***************************************************************************)
CONSTANTS Spaces, Pages, Values, Zero, Unmapped

VARIABLES contents,   \* contents[s][p]: a value, or Unmapped
          perm        \* perm[s][p]: "none", "ro", "rw", or "kernel" (not the user's)

vars == <<contents, perm>>

NoPages == [p \in Pages |-> Unmapped]
NoPerm == [p \in Pages |-> "none"]

OnlyChanges(s) ==
    \A u \in Spaces \ {s} : contents'[u] = contents[u] /\ perm'[u] = perm[u]

SamePage(s, p) == contents'[s][p] = contents[s][p] /\ perm'[s][p] = perm[s][p]

(* A new program: pages that read as zero, with any permissions. *)
Load(s) ==
    contents'[s] = [p \in Pages |-> IF perm'[s][p] = "none" THEN Unmapped ELSE Zero]

(* The child starts with what the parent has. *)
Fork(s, c) == perm[c] = NoPerm /\ perm'[c] = perm[s] /\ contents'[c] = contents[s]

Write(s, p) ==
    /\ perm[s][p] = "rw" /\ perm'[s] = perm[s]
    /\ \E v \in Values : contents'[s] = [contents[s] EXCEPT ![p] = v]

Map(s, m) == \A p \in Pages :
    \/ SamePage(s, p)
    \/ perm[s][p] = "none" /\ perm'[s][p] = m /\ contents'[s][p] = Zero

Unmap(s) == \A p \in Pages :
    \/ SamePage(s, p)
    \/ perm[s][p] \in {"ro", "rw"} /\ perm'[s][p] = "none" /\ contents'[s][p] = Unmapped

Drop(s) == contents'[s] = NoPages /\ perm'[s] = NoPerm

Init == \E s \in Spaces, m \in [Pages -> {"none", "ro", "rw", "kernel"}] :
    /\ perm = [u \in Spaces |-> IF u = s THEN m ELSE NoPerm]
    /\ contents = [u \in Spaces |-> [p \in Pages |-> IF perm[u][p] = "none" THEN Unmapped ELSE Zero]]

Next == \E s \in Spaces :
    /\ OnlyChanges(s)
    /\ \/ Unmap(s) \/ Load(s) \/ Drop(s)
       \/ \E p \in Pages : Write(s, p)
       \/ \E parent \in Spaces : Fork(parent, s)
       \/ \E m \in {"ro", "rw"} : Map(s, m)

Spec == Init /\ [][Next]_vars
=============================================================================
