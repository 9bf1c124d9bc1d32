-------------------------- MODULE RecycleAllocator --------------------------
(***************************************************************************)
(* RecycleAllocator of os/src/task/id.rs, which numbers processes, threads *)
(* and kernel stacks: a counter and a stack of identifiers given back.     *)
(***************************************************************************)
EXTENDS Naturals, Sequences

new_start(n) == [current |-> n, recycled |-> << >>]

(* The identifier alloc returns, and the allocator after it. *)
alloc(a) == IF a.recycled = << >> THEN a.current ELSE a.recycled[Len(a.recycled)]

allocated(a) ==
    IF a.recycled = << >> THEN [a EXCEPT !.current = @ + 1]
    ELSE [a EXCEPT !.recycled = SubSeq(@, 1, Len(@) - 1)]

Recycled(a) == {a.recycled[i] : i \in DOMAIN a.recycled}

(* The assertions of dealloc. *)
CanDealloc(a, id) == id < a.current /\ id \notin Recycled(a)

dealloc(a, id) == [a EXCEPT !.recycled = Append(@, id)]

(* The identifiers in use of an allocator that started at n. *)
InUse(a, n) == (n .. a.current - 1) \ Recycled(a)
=============================================================================
