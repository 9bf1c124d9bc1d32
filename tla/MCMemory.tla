----------------------------- MODULE MCMemory -----------------------------
(***************************************************************************)
(* Small instances of CowMemory and FrameAllocator for TLC.  A behaviour   *)
(* is one of: processes that fork without mapping memory, fewer processes  *)
(* that also map and unmap it, or calls of the frame allocator alone.      *)
(***************************************************************************)
EXTENDS CowMemory, FrameAllocator, TLC

VARIABLE workload

(* Page 0: data and stack of the program.  Page LastPage: trap context. *)
Data == [start |-> 0, end |-> 1, w |-> TRUE, u |-> TRUE]
TrapContext == [start |-> LastPage, end |-> LastPage + 1, w |-> TRUE, u |-> FALSE]

MCElfAreas == {Data, TrapContext}
MCUserRes == {TrapContext}

Symmetry == Permutations(Spaces \ {InitSpace})

MCInit == Init /\ AllocInit /\ workload \in {"fork", "mmap", "frames"}

(* Two processes that use four frames at most. *)
TwoProcesses ==
    /\ Cardinality({s \in Spaces : state[s] # "none"}) <= 2
    /\ Cardinality({f \in Frames : owners[f] > 0}) <= 4

MCNext ==
    /\ \/ /\ workload = "fork" /\ Next
          /\ \A s \in Spaces : areas'[s] \subseteq ElfAreas
          /\ UNCHANGED allocVars
       \/ /\ workload = "mmap" /\ Next
          /\ TwoProcesses'
          /\ UNCHANGED allocVars
       \/ /\ workload = "frames" /\ AllocNext
          /\ UNCHANGED vars
    /\ UNCHANGED workload

MCSpec == MCInit /\ [][MCNext]_<<vars, allocVars, workload>>

(* Two processes that may also call sys_list_apps. *)
ListAppsSpec ==
    /\ MCInit /\ workload = "mmap"
    /\ [][/\ ListAppsNext /\ TwoProcesses'
          /\ UNCHANGED <<allocVars, workload>>]_<<vars, allocVars, workload>>
=============================================================================
