---------------------------- MODULE ProcessTree ----------------------------
(***************************************************************************)
(* The life of processes: fork, exit with the hand-over of the children to *)
(* INITPROC, and waitpid, with the pid allocator and the map from pids to  *)
(* processes (os/src/task/process.rs, mod.rs, manager.rs, id.rs and        *)
(* os/src/syscall/process.rs).                                             *)
(*                                                                         *)
(* A process control block is freed when its last reference goes.  Its     *)
(* references are the entry of pid2pcb, the entry of its parent's children *)
(* and the one that sys_read or sys_write keeps on the kernel stack while  *)
(* it waits for data.  halt says why the kernel stopped.                   *)
(***************************************************************************)
EXTENDS Naturals, Sequences, FiniteSets, Functions, RecycleAllocator

CONSTANTS Pcbs, INITPROC, NoPcb,
          Readers,       \* the processes with a second thread, which reads
          MaxPid         \* bound: process identifiers

IDLE_PID == 1
AnyPid == 0              \* the argument -1 of waitpid

ASSUME ProcessTreeAssumption ==
    /\ INITPROC \in Pcbs /\ NoPcb \notin Pcbs
    /\ Readers \subseteq Pcbs /\ MaxPid \in Nat \ {0}

VARIABLES PID_ALLOCATOR,
          pid2pcb,    \* PID2PCB
          pid,        \* pid[b]: its pid; 0 before it is created
          parent, children,
          state,      \* "unborn", "live", "zombie" or "freed"
          reading,    \* the processes whose second thread waits in sys_read
          halt

treeVars == <<PID_ALLOCATOR, pid2pcb, pid, parent, children, state, reading, halt>>

TreeInit ==
    /\ PID_ALLOCATOR = allocated(new_start(IDLE_PID))
    /\ pid2pcb = [i \in {IDLE_PID} |-> INITPROC]
    /\ pid = [b \in Pcbs |-> IF b = INITPROC THEN IDLE_PID ELSE 0]
    /\ parent = [b \in Pcbs |-> NoPcb]
    /\ children = [b \in Pcbs |-> << >>]
    /\ state = [b \in Pcbs |-> IF b = INITPROC THEN "live" ELSE "unborn"]
    /\ reading = {} /\ halt = "none"

Runs(b) == halt = "none" /\ state[b] = "live"

(* fork asserts that the process has one thread. *)
fork(b, child) ==
    LET id == alloc(PID_ALLOCATOR) IN
    /\ Runs(b) /\ b \notin Readers /\ state[child] = "unborn" /\ id <= MaxPid
    /\ PID_ALLOCATOR' = allocated(PID_ALLOCATOR)
    /\ pid' = [pid EXCEPT ![child] = id]
    /\ pid2pcb' = [i \in DOMAIN pid2pcb \cup {id} |->
                      IF i = id THEN child ELSE pid2pcb[i]]
    /\ parent' = [parent EXCEPT ![child] = b]
    /\ children' = [children EXCEPT ![b] = Append(@, child)]
    /\ state' = [state EXCEPT ![child] = "live"]
    /\ UNCHANGED <<reading, halt>>

(* The second thread waits for data with its reference, and gets some. *)
ReadWaits(b) ==
    /\ Runs(b) /\ b \in Readers \ reading
    /\ reading' = reading \cup {b}
    /\ UNCHANGED <<PID_ALLOCATOR, pid2pcb, pid, parent, children, state, halt>>

ReadReturns(b) ==
    /\ Runs(b) /\ b \in reading
    /\ reading' = reading \ {b}
    /\ UNCHANGED <<PID_ALLOCATOR, pid2pcb, pid, parent, children, state, halt>>

(* The exit of the idle process shuts the machine down. *)
ExitIdle(b) ==
    /\ Runs(b) /\ pid[b] = IDLE_PID
    /\ halt' = "shutdown"
    /\ UNCHANGED <<PID_ALLOCATOR, pid2pcb, pid, parent, children, state, reading>>

(* Slip: the children of the exiting process get a new parent but are not  *)
(* put on its list.                                                        *)
HandedOver_Lost(b) == [children EXCEPT ![b] = << >>]

(* The lists after the children of b went to INITPROC. *)
HandedOver(b) ==
    [children EXCEPT ![INITPROC] = @ \o children[b], ![b] = << >>]

(* exit_current_and_run_next of the main thread of another process. *)
Exit(b) ==
    /\ Runs(b) /\ pid[b] # IDLE_PID
    /\ pid2pcb' = [i \in DOMAIN pid2pcb \ {pid[b]} |-> pid2pcb[i]]
    /\ state' = [state EXCEPT ![b] = "zombie"]
    /\ parent' = [c \in Pcbs |-> IF c \in Range(children[b]) THEN INITPROC ELSE parent[c]]
    /\ children' = HandedOver(b)
    /\ halt' = IF pid[b] \in DOMAIN pid2pcb THEN halt ELSE "cannot find pid"
    /\ UNCHANGED <<PID_ALLOCATOR, pid, reading>>

(* Slip: -1 is not taken for any child. *)
Reapable_Exact(b, who) ==
    {i \in DOMAIN children[b] : state[children[b][i]] = "zombie" /\ who = pid[children[b][i]]}

(* The children in state zombie that a waitpid for who matches. *)
Reapable(b, who) ==
    {i \in DOMAIN children[b] : /\ state[children[b][i]] = "zombie"
                                /\ who \in {AnyPid, pid[children[b][i]]}}

(* Other references to a child that was taken off b's list. *)
OtherReferences(b, i) ==
    LET child == children[b][i] IN
    \/ child \in reading
    \/ \E n \in DOMAIN pid2pcb : pid2pcb[n] = child
    \/ \E o \in Pcbs : \E j \in DOMAIN children[o] :
          <<o, j>> # <<b, i>> /\ children[o][j] = child

(* Vec::remove. *)
removed(v, i) == SubSeq(v, 1, i - 1) \o SubSeq(v, i + 1, Len(v))

(* A call that finds a zombie takes the first one; the drop of its control *)
(* block gives the pid back.  One that finds none changes nothing.         *)
sys_waitpid(b, who) ==
    \E i \in Reapable(b, who) :
       LET child == children[b][i] IN
       /\ Runs(b) /\ \A j \in Reapable(b, who) : i <= j
       /\ children' = [children EXCEPT ![b] = removed(@, i)]
       /\ IF OtherReferences(b, i)
          THEN halt' = "strong_count" /\ UNCHANGED <<state, PID_ALLOCATOR>>
          ELSE /\ state' = [state EXCEPT ![child] = "freed"]
               /\ PID_ALLOCATOR' = dealloc(PID_ALLOCATOR, pid[child])
               /\ halt' = IF CanDealloc(PID_ALLOCATOR, pid[child]) THEN halt
                          ELSE "deallocated twice"
       /\ UNCHANGED <<pid2pcb, pid, parent, reading>>

TreeNext ==
    \E b \in Pcbs :
       \/ \E child \in Pcbs : fork(b, child)
       \/ ReadWaits(b) \/ ReadReturns(b)
       \/ ExitIdle(b) \/ Exit(b)
       \/ \E who \in 0 .. MaxPid : sys_waitpid(b, who)

TreeSpec == TreeInit /\ [][TreeNext]_treeVars

(* initproc calls wait, that is waitpid(-1), for ever. *)
FairSpec == TreeSpec /\ WF_treeVars(sys_waitpid(INITPROC, AnyPid))
-----------------------------------------------------------------------------
(* Type invariant of the process table. *)
TreeTypeOK ==
    /\ PID_ALLOCATOR \in [current : Nat, recycled : Seq(1 .. MaxPid)]
    /\ DOMAIN pid2pcb \subseteq 1 .. MaxPid /\ Range(pid2pcb) \subseteq Pcbs
    /\ pid \in [Pcbs -> 0 .. MaxPid] /\ parent \in [Pcbs -> Pcbs \cup {NoPcb}]
    /\ children \in [Pcbs -> Seq(Pcbs)]
    /\ state \in [Pcbs -> {"unborn", "live", "zombie", "freed"}]
    /\ reading \subseteq Readers
    /\ halt \in {"none", "shutdown", "cannot find pid", "strong_count", "deallocated twice"}

Existing == {b \in Pcbs : state[b] \in {"live", "zombie"}}

(* A pid is never given to a new process while a zombie with that pid has  *)
(* not been reaped, and a lookup finds the running process of that pid.    *)
PidsExact ==
    /\ \A b, c \in Existing : pid[b] = pid[c] => b = c
    /\ halt = "none" => InUse(PID_ALLOCATOR, IDLE_PID) = {pid[b] : b \in Existing}
    /\ \A b \in Pcbs : state[b] = "live" <=>
          \E i \in DOMAIN pid2pcb : pid2pcb[i] = b /\ pid[b] = i
    /\ halt \notin {"cannot find pid", "deallocated twice"}

(* Whatever order parents and children exit in, the children lists are a   *)
(* forest under INITPROC that agrees with the parent pointers: every       *)
(* process that exists is on the list of its parent, which is running, and *)
(* on no other list, once.  So each can be waited for by exactly one       *)
(* process, and waitpid finds the process its pid names.                   *)
TreeExact ==
    /\ TreeTypeOK /\ PidsExact
    /\ halt = "none" =>
          /\ \A b \in Existing \ {INITPROC} :
                state[parent[b]] = "live" /\ b \in Range(children[parent[b]])
          /\ \A b \in Pcbs : \A i, j \in DOMAIN children[b] :
                /\ children[b][i] \in Existing \ {INITPROC}
                /\ parent[children[b][i]] = b
                /\ children[b][i] = children[b][j] => i = j

(* Orphans do not pile up: a process that ends as a child of INITPROC is   *)
(* reaped, unless the machine is shut down.                                *)
NotWaiting(b) == ~(state[b] = "zombie" /\ parent[b] = INITPROC) \/ halt # "none"
OrphansReaped == \A b \in Pcbs : []<>NotWaiting(b)
=============================================================================
