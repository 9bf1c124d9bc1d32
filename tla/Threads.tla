------------------------------ MODULE Threads ------------------------------
(***************************************************************************)
(* The threads of one process: sys_thread_create, sys_waittid, the exit of *)
(* a thread and of the whole process (os/src/syscall/thread.rs,            *)
(* os/src/task/id.rs, exit_current_and_run_next of os/src/task/mod.rs).    *)
(*                                                                         *)
(* A system call runs to its end before another thread does, so it is one  *)
(* step.  Where the kernel unwraps, indexes or asserts and fails, panic    *)
(* says where, and nothing happens any more.                               *)
(***************************************************************************)
EXTENDS Naturals, Sequences, FiniteSets, RecycleAllocator

CONSTANTS Tcbs, Main,     \* task control blocks; Main is the first thread's
          NoTcb, NoTid,
          MaxTid          \* bound: thread identifiers

ASSUME ThreadsAssumption ==
    /\ Main \in Tcbs /\ NoTcb \notin Tcbs
    /\ MaxTid \in Nat /\ NoTid \notin Nat

VARIABLES task_res_allocator,
          tasks,      \* the slots of the process; slot i + 1 is tid i
          res,        \* res[t]: the tid in the user resources, or NoTid
          areas,      \* the tids whose stack and trap context are mapped
          status,     \* see ThreadsTypeOK
          zombie,     \* is_zombie of the process
          panic

threadVars == <<task_res_allocator, tasks, res, areas, status, zombie, panic>>

ThreadsInit ==
    /\ task_res_allocator = allocated(new_start(0))
    /\ tasks = <<Main>>
    /\ res = [t \in Tcbs |-> IF t = Main THEN 0 ELSE NoTid]
    /\ areas = {0}
    /\ status = [t \in Tcbs |-> IF t = Main THEN "Ready" ELSE "unborn"]
    /\ zombie = FALSE /\ panic = "none"

Slot(tid) == tid + 1

(* A thread that executes user code; a Ready thread may be the one. *)
InUser(t) == panic = "none" /\ status[t] = "Ready" /\ res[t] # NoTid

(* The slots after tid got t: the vector grows with None. *)
Placed(tid, t) ==
    [i \in 1 .. (IF Len(tasks) < Slot(tid) THEN Slot(tid) ELSE Len(tasks)) |->
        IF i = Slot(tid) THEN t ELSE IF i <= Len(tasks) THEN tasks[i] ELSE NoTcb]

(* A task control block that leaves its slot after its exit is dropped,    *)
(* and its kernel stack with it.                                           *)
Dropped(st, old) ==
    IF old # NoTcb /\ st[old] = "Exited" THEN [st EXCEPT ![old] = "dropped"] ELSE st

Old(tid) == IF Slot(tid) <= Len(tasks) THEN tasks[Slot(tid)] ELSE NoTcb

sys_thread_create(t, new) ==
    LET tid == alloc(task_res_allocator) IN
    /\ InUser(t) /\ status[new] = "unborn" /\ tid <= MaxTid
    /\ task_res_allocator' = allocated(task_res_allocator)
    /\ res' = [res EXCEPT ![new] = tid]
    /\ tasks' = Placed(tid, new)
    /\ status' = [Dropped(status, Old(tid)) EXCEPT ![new] = "Ready"]
    /\ areas' = areas \cup {tid}
    /\ panic' = IF tid \in areas THEN "mapped before mapping" ELSE panic
    /\ UNCHANGED zombie

Block(t) ==
    /\ InUser(t)
    /\ status' = [status EXCEPT ![t] = "Blocked"]
    /\ UNCHANGED <<task_res_allocator, tasks, res, areas, zombie, panic>>

(* A timer or another thread, of this or another process, wakes it. *)
Wake(t) ==
    /\ panic = "none" /\ status[t] = "Blocked"
    /\ status' = [status EXCEPT ![t] = "Ready"]
    /\ UNCHANGED <<task_res_allocator, tasks, res, areas, zombie, panic>>

Unmapped(tids) == areas \ tids

(* exit_current_and_run_next of a thread other than the main one. *)
ExitThread(t) ==
    /\ InUser(t) /\ res[t] # 0
    /\ status' = [status EXCEPT ![t] = "Exited"]
    /\ task_res_allocator' = dealloc(task_res_allocator, res[t])
    /\ areas' = Unmapped({res[t]})
    /\ res' = [res EXCEPT ![t] = NoTid]
    /\ panic' = IF CanDealloc(task_res_allocator, res[t]) THEN panic ELSE "deallocated twice"
    /\ UNCHANGED <<tasks, zombie>>

(* Slip: only the exiting thread gives its resources back. *)
ToRecycle_Own == << >>

(* The slots of the other threads that have user resources. *)
Held == {i \in DOMAIN tasks \ {1} : tasks[i] # NoTcb /\ res[tasks[i]] # NoTid}

(* recycle_res: their identifiers, in the order of the slots. *)
ToRecycle ==
    [n \in 1 .. Cardinality(Held) |->
        res[tasks[CHOOSE i \in Held : Cardinality({j \in Held : j <= i}) = n]]]

(* The same of the main thread: the user resources of all threads go and   *)
(* the other threads leave their slots, but no queue.                      *)
ExitProcess(t) ==
    LET freed == <<0>> \o ToRecycle
        Freed == {freed[i] : i \in DOMAIN freed} IN
    /\ InUser(t) /\ res[t] = 0
    /\ status' = [u \in Tcbs |->
          IF u = t THEN "Exited"
          ELSE IF status[u] = "Exited" THEN "dropped" ELSE status[u]]
    /\ res' = [u \in Tcbs |-> IF res[u] \in Freed THEN NoTid ELSE res[u]]
    /\ task_res_allocator' = [task_res_allocator EXCEPT !.recycled = @ \o freed]
    /\ areas' = Unmapped(Freed)
    /\ tasks' = SubSeq(tasks, 1, 1)
    /\ zombie' = TRUE
    /\ panic' = IF \A id \in Freed : CanDealloc(task_res_allocator, id) THEN panic
                ELSE "deallocated twice"

(* What dispatching a thread comes to after the main thread's exit:        *)
(* trap_return asks for the user resources it no longer has.               *)
DispatchWithoutRes(t) ==
    /\ panic = "none" /\ status[t] = "Ready" /\ res[t] = NoTid
    /\ panic' = "no user resources"
    /\ UNCHANGED <<task_res_allocator, tasks, res, areas, status, zombie>>

sys_waittid(t, tid) ==
    LET waited == Old(tid) IN
    /\ InUser(t) /\ res[t] # tid
    /\ IF waited # NoTcb /\ status[waited] = "Exited"
       THEN /\ tasks' = [tasks EXCEPT ![Slot(tid)] = NoTcb]
            /\ status' = Dropped(status, waited)
       ELSE UNCHANGED <<tasks, status>>
    /\ panic' = IF Slot(tid) > Len(tasks) THEN "index out of bounds" ELSE panic
    /\ UNCHANGED <<task_res_allocator, res, areas, zombie>>

(* The assertion of fork and exec; what they do is another module's. *)
sys_fork(t) ==
    /\ InUser(t) /\ Len(tasks) # 1
    /\ panic' = "thread_count"
    /\ UNCHANGED <<task_res_allocator, tasks, res, areas, status, zombie>>

ThreadsNext ==
    \E t \in Tcbs :
       \/ \E new \in Tcbs : sys_thread_create(t, new)
       \/ Block(t) \/ Wake(t)
       \/ ExitThread(t) \/ ExitProcess(t) \/ DispatchWithoutRes(t)
       \/ \E tid \in 0 .. MaxTid : sys_waittid(t, tid)
       \/ sys_fork(t)

ThreadsSpec == ThreadsInit /\ [][ThreadsNext]_threadVars
-----------------------------------------------------------------------------
(* Type invariant of the thread table. *)
ThreadsTypeOK ==
    /\ task_res_allocator \in [current : Nat, recycled : Seq(0 .. MaxTid)]
    /\ tasks \in Seq(Tcbs \cup {NoTcb})
    /\ res \in [Tcbs -> (0 .. MaxTid) \cup {NoTid}]
    /\ areas \subseteq 0 .. MaxTid
    /\ status \in [Tcbs -> {"unborn", "Ready", "Blocked", "Exited", "dropped"}]
    /\ zombie \in BOOLEAN
    /\ panic \in {"none", "mapped before mapping", "deallocated twice",
                  "no user resources", "index out of bounds", "thread_count"}

Living == {t \in Tcbs : res[t] # NoTid}

(* Reusing thread identifiers never confuses two living threads: each has  *)
(* an identifier, a stack and a slot of its own, and these agree with the  *)
(* task_res_allocator, so that nothing is mapped or given back twice;      *)
(* after the process ended all of it is back.                              *)
TidsExact ==
    /\ ThreadsTypeOK
    /\ \A t, u \in Living : res[t] = res[u] => t = u
    /\ areas = {res[t] : t \in Living}
    /\ \A t \in Living : ~zombie /\ Old(res[t]) = t
    /\ InUse(task_res_allocator, 0) = areas
    /\ panic \notin {"mapped before mapping", "deallocated twice"}
=============================================================================
