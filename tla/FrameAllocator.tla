--------------------------- MODULE FrameAllocator ---------------------------
(***************************************************************************)
(* StackFrameAllocator (os/src/mm/frame_allocator.rs): never used frames   *)
(* start at current, freed ones are on a stack, and a frame is freed when  *)
(* the last FrameTracker on it is dropped.  A tracker is cloned or dropped *)
(* only by someone who has it, so add_ref and dealloc are called on frames *)
(* that have a count.                                                      *)
(***************************************************************************)
EXTENDS Integers, Sequences

CONSTANTS FIRST, END,    \* the frames after the kernel image
          MaxRefs,       \* bound: trackers on one frame
          MaxPages       \* bound: pages of one DMA request

ASSUME FrameAssumption ==
    /\ FIRST \in Nat /\ END \in Nat /\ FIRST <= END
    /\ MaxRefs \in Nat \ {0} /\ MaxPages \in Nat

PPNs == FIRST .. END - 1

VARIABLES current, recycled, ref_counts    \* ref_counts: 0 stands for no entry

allocVars == <<current, recycled, ref_counts>>

InRecycled(f) == \E i \in DOMAIN recycled : recycled[i] = f

AllocInit ==
    /\ current = FIRST
    /\ recycled = << >>
    /\ ref_counts = [f \in PPNs |-> 0]

(* alloc takes the frame freed last ... *)
AllocRecycled ==
    /\ recycled # << >>
    /\ recycled' = SubSeq(recycled, 1, Len(recycled) - 1)
    /\ ref_counts' = [ref_counts EXCEPT ![recycled[Len(recycled)]] = 1]
    /\ UNCHANGED current

(* Slip: counted by alloc and once more by the tracker. *)
AllocCurrent_CountsTwice ==
    /\ recycled = << >> /\ current # END
    /\ current' = current + 1
    /\ ref_counts' = [ref_counts EXCEPT ![current] = 2]
    /\ UNCHANGED recycled

(* ... or else the next one never used; at END it returns None. *)
AllocCurrent ==
    /\ recycled = << >> /\ current # END
    /\ current' = current + 1
    /\ ref_counts' = [ref_counts EXCEPT ![current] = 1]
    /\ UNCHANGED recycled

(* Consecutive frames for DMA, never recycled ones.  A request that would  *)
(* use the very last frame is refused.                                     *)
alloc_more(pages) ==
    /\ current + pages < END
    /\ current' = current + pages
    /\ ref_counts' = [f \in PPNs |-> IF f \in current .. current + pages - 1
                                       THEN 1 ELSE ref_counts[f]]
    /\ UNCHANGED recycled

add_ref(f) ==
    /\ ref_counts[f] \in 1 .. MaxRefs - 1
    /\ ref_counts' = [ref_counts EXCEPT ![f] = @ + 1]
    /\ UNCHANGED <<current, recycled>>

(* Slip: freed although other trackers remain. *)
dealloc_Always(f) ==
    /\ ref_counts[f] > 0
    /\ ref_counts' = [ref_counts EXCEPT ![f] = @ - 1]
    /\ recycled' = Append(recycled, f)
    /\ UNCHANGED current

dealloc(f) ==
    /\ ref_counts[f] > 0
    /\ ref_counts' = [ref_counts EXCEPT ![f] = @ - 1]
    /\ recycled' = IF ref_counts[f] = 1 THEN Append(recycled, f) ELSE recycled
    /\ UNCHANGED current

AllocNext ==
    \/ AllocRecycled \/ AllocCurrent
    \/ \E pages \in 1 .. MaxPages : alloc_more(pages)
    \/ \E f \in PPNs : add_ref(f) \/ dealloc(f)

AllocSpec == AllocInit /\ [][AllocNext]_allocVars
-----------------------------------------------------------------------------
(* Every variable has the type its field has in the code, and current      *)
(* stays within the memory.                                                *)
AllocTypeOK ==
    /\ current \in FIRST .. END
    /\ recycled \in Seq(PPNs)
    /\ ref_counts \in [PPNs -> 0 .. MaxRefs]

(* Every frame is in exactly one state: never used, on the free stack      *)
(* once, or owned.  So alloc never finds a count (its assert holds), a     *)
(* frame is never handed out twice, and alloc fails only when all frames   *)
(* are owned.                                                              *)
EveryFrameAccounted ==
    /\ \A f \in PPNs : ref_counts[f] = 0 <=> (f >= current \/ InRecycled(f))
    /\ \A f \in PPNs : ~(f >= current /\ InRecycled(f))
    /\ \A i, j \in DOMAIN recycled : recycled[i] = recycled[j] => i = j

(* The same, with the types of the allocator: what the memory run checks.  *)
FramesExact == AllocTypeOK /\ EveryFrameAccounted

(* The stack and the bump pointer implement a pool of counted frames. *)
Pool == INSTANCE FramePool WITH Frames <- PPNs, owners <- ref_counts

ImplementsPool == Pool!Spec
=============================================================================
