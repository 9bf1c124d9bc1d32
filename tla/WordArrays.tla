---------------------------- MODULE WordArrays ----------------------------
(***************************************************************************)
(* What easy-fs promises about contents: a file or directory is a sequence *)
(* of words.  A store replaces words and may lengthen the sequence, with   *)
(* zeros in a gap; removing drops one word; clearing drops all.            *)
(***************************************************************************)
EXTENDS Naturals, Sequences

CONSTANTS Files, Dirs, Names, MaxSize

VARIABLES contents, offset

vars == <<contents, offset>>

Word(f, o) == f + o

(* The sequence s with the words w from position start on. *)
Overwrite(s, start, w) ==
    [k \in 1 .. (IF Len(s) > start + Len(w) THEN Len(s) ELSE start + Len(w)) |->
        IF k > start /\ k <= start + Len(w) THEN w[k - start]
        ELSE IF k <= Len(s) THEN s[k] ELSE 0]

Init == contents = [f \in Files \cup Dirs |-> <<>>] /\ offset = [f \in Files |-> 0]

Write(f, len) ==
    /\ contents' = [contents EXCEPT ![f] =
            Overwrite(@, offset[f], [k \in 1 .. len |-> Word(f, offset[f] + k - 1)])]
    /\ offset' = [offset EXCEPT ![f] = @ + len]

Seek(f) == \E o \in 0 .. MaxSize : offset' = [offset EXCEPT ![f] = o] /\ UNCHANGED contents

Clear(f) == contents' = [contents EXCEPT ![f] = <<>>] /\ UNCHANGED offset

Add(d, name) == contents' = [contents EXCEPT ![d] = Append(@, name)] /\ UNCHANGED offset

Remove(d, name) ==
    /\ contents' = [contents EXCEPT ![d] = SelectSeq(@, LAMBDA n : n # name)]
    /\ UNCHANGED offset

Next ==
    \/ \E f \in Files : \/ Clear(f) \/ Seek(f)
                        \/ \E len \in 1 .. MaxSize : Write(f, len)
    \/ \E d \in Dirs, name \in Names : Add(d, name) \/ Remove(d, name)

Spec == Init /\ [][Next]_vars
=============================================================================
