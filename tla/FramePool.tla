----------------------------- MODULE FramePool -----------------------------
(* A pool of frames as its users see it: an allocation hands out frames    *)
(* nobody has, a frame can be shared, and it is free again when its last   *)
(* owner drops it.                                                         *)
EXTENDS Naturals

CONSTANT Frames
VARIABLE owners    \* the number of owners of each frame

Init == owners = [f \in Frames |-> 0]

Take(F) ==
    /\ \A f \in F : owners[f] = 0
    /\ owners' = [f \in Frames |-> IF f \in F THEN 1 ELSE owners[f]]

Share(f) == owners[f] > 0 /\ owners' = [owners EXCEPT ![f] = @ + 1]

Release(f) == owners[f] > 0 /\ owners' = [owners EXCEPT ![f] = @ - 1]

Next == (\E F \in SUBSET Frames : Take(F)) \/ \E f \in Frames : Share(f) \/ Release(f)

Spec == Init /\ [][Next]_owners
=============================================================================
