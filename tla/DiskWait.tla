------------------------------ MODULE DiskWait ------------------------------
(***************************************************************************)
(* Waiting for the disk: VirtIOBlock (drivers/block/virtio_blk.rs), which  *)
(* polls or puts the task to sleep as DEV_NON_BLOCKING_ACCESS says, under  *)
(* the two spin locks of easy-fs: the file system's and the one of the     *)
(* block cache, held across the disk access.  exec polls                   *)
(* (SyncBlockReadGuard), other calls sleep.                                *)
(*                                                                         *)
(* There is one processor.  A task gives it up in user mode, where the     *)
(* timer preempts it, or by blocking; in the kernel, spinning on a lock    *)
(* included, it keeps it (trap_from_kernel: "do not schedule now").  A     *)
(* session on the device masks interrupts and is one step.  initproc and   *)
(* the shell yield for ever, so the processor does take interrupts when    *)
(* none of these tasks runs.                                               *)
(***************************************************************************)
EXTENDS Naturals, Sequences, FiniteSets, Functions

CONSTANTS
    Tasks,
    Nobody,         \* no task
    Execers,        \* tasks that call exec
    Readers,        \* tasks that make other file system calls
    Tokens,         \* descriptors of the virtio queue
    MaxAccesses     \* bound on the cache lookups and disk accesses of a call

DiskWaitConstants == /\ Nobody \notin Tasks /\ MaxAccesses \in Nat
                     /\ Execers \subseteq Tasks /\ Readers \subseteq Tasks

ASSUME DiskWaitAssumption == DiskWaitConstants

VARIABLES
    cpu,        \* the task whose code the processor executes
    status,     \* task_status
    pc,         \* where a task is
    call,       \* the call it is in
    left,       \* lookups and accesses the call may still make
    fs_lock,    \* holder of Mutex<EasyFileSystem>
    manager,    \* holder of BLOCK_CACHE_MANAGER
    nb,         \* DEV_NON_BLOCKING_ACCESS
    requests,   \* tokens the device works on
    used_ring,  \* tokens it has finished, not popped yet
    condvars    \* the queue of waiting tasks of each token

diskVars == <<cpu, status, pc, call, left, fs_lock, manager, nb, requests, used_ring, condvars>>
locks == <<fs_lock, manager>>
device == <<requests, used_ring, condvars>>

DiskInit ==
    /\ cpu = Nobody
    /\ status = [t \in Tasks |-> "ready"] /\ pc = [t \in Tasks |-> "user"]
    /\ call = [t \in Tasks |-> "read"] /\ left = [t \in Tasks |-> 0]
    /\ fs_lock = Nobody /\ manager = Nobody /\ nb = TRUE
    /\ requests = {} /\ used_ring = <<>> /\ condvars = [k \in Tokens |-> <<>>]

Goto(t, l) == pc' = [pc EXCEPT ![t] = l]
-----------------------------------------------------------------------------
(* run_tasks *)
Dispatch(t) ==
    /\ cpu = Nobody /\ status[t] = "ready"
    /\ cpu' = t /\ status' = [status EXCEPT ![t] = "running"]
    /\ UNCHANGED <<pc, call, left, locks, nb, device>>

(* The timer, or yield. *)
Preempt(t) ==
    /\ cpu = t /\ pc[t] = "user"
    /\ cpu' = Nobody /\ status' = [status EXCEPT ![t] = "ready"]
    /\ UNCHANGED <<pc, call, left, locks, nb, device>>

(* A file system call; exec first switches the device to polling.  Most    *)
(* operations begin with self.fs.lock(); is_dir, size and parent do not.   *)
Enter(t, c, l) ==
    /\ cpu = t /\ pc[t] = "user"
    /\ t \in IF c = "exec" THEN Execers ELSE Readers
    /\ call' = [call EXCEPT ![t] = c]
    /\ nb' = (nb /\ c # "exec")
    /\ left' = [left EXCEPT ![t] = MaxAccesses]
    /\ Goto(t, l)
    /\ UNCHANGED <<cpu, status, locks, device>>

(* Both locks are spin locks: a task that finds one taken does not get on. *)
LockFs(t) ==
    /\ cpu = t /\ pc[t] = "wants_fs"
    /\ fs_lock = Nobody /\ fs_lock' = t
    /\ Goto(t, "in_fs")
    /\ UNCHANGED <<cpu, status, call, left, manager, nb, device>>

(* BLOCK_CACHE_MANAGER.lock() of get_block_cache and of                    *)
(* block_cache_sync_all.                                                   *)
LockManager(t) ==
    /\ cpu = t /\ pc[t] = "in_fs" /\ left[t] > 0
    /\ manager = Nobody /\ manager' = t
    /\ left' = [left EXCEPT ![t] = @ - 1]
    /\ Goto(t, "in_cache")
    /\ UNCHANGED <<cpu, status, call, fs_lock, nb, device>>

(* Slip: interrupts stay on between the request and wait_no_sched. *)
SubmitUnmasked(t, token) ==
    /\ condvars' = [condvars EXCEPT ![token] = Append(@, t)]
    /\ status' = [status EXCEPT ![t] = "blocked"]
    /\ UNCHANGED used_ring
    /\ requests' = requests \cup {token} \/ UNCHANGED requests

(* The session of read_block and write_block: submit, wait_no_sched. *)
Submit(t, token) ==
    /\ requests' = requests \cup {token}
    /\ condvars' = [condvars EXCEPT ![token] = Append(@, t)]
    /\ status' = [status EXCEPT ![t] = "blocked"]
    /\ UNCHANGED used_ring

(* read_block or write_block of a block that is not in the cache or is to  *)
(* be written back.  Polling pops its own answer; nobody else runs.        *)
Access(t) ==
    /\ cpu = t /\ pc[t] = "in_cache" /\ left[t] > 0
    /\ left' = [left EXCEPT ![t] = @ - 1]
    /\ \/ ~nb /\ UNCHANGED <<pc, status, device>>
       \/ /\ nb /\ Goto(t, "submitted")
          /\ LET free == Tokens \ (requests \cup Range(used_ring))
             IN  \E token \in free : Submit(t, token)
    /\ UNCHANGED <<cpu, call, locks, nb>>

(* schedule(task_cx_ptr), after interrupts are on again. *)
Schedule(t) ==
    /\ cpu = t /\ pc[t] = "submitted"
    /\ cpu' = Nobody
    /\ Goto(t, "in_cache")
    /\ UNCHANGED <<status, call, left, locks, nb, device>>

UnlockManager(t) ==
    /\ cpu = t /\ pc[t] = "in_cache"
    /\ manager' = Nobody
    /\ Goto(t, "in_fs")
    /\ UNCHANGED <<cpu, status, call, left, fs_lock, nb, device>>

(* The call returns: the guards are dropped. *)
Return(t) ==
    /\ cpu = t /\ pc[t] = "in_fs"
    /\ fs_lock' = IF fs_lock = t THEN Nobody ELSE fs_lock
    /\ nb' = (nb \/ call[t] = "exec")
    /\ Goto(t, "user")
    /\ UNCHANGED <<cpu, status, call, left, manager, device>>

(* The disk finishes a request, in any order. *)
Complete(token) ==
    /\ token \in requests
    /\ requests' = requests \ {token}
    /\ used_ring' = Append(used_ring, token)
    /\ UNCHANGED <<cpu, status, pc, call, left, locks, nb, condvars>>

(* VirtIOBlock::handle_irq, from user mode, from the kernel or from the    *)
(* idle loop: signal the condvar of every token in the used ring.          *)
handle_irq ==
    /\ used_ring # <<>>
    /\ LET Woken == {Head(condvars[k]) : k \in {j \in Range(used_ring) : condvars[j] # <<>>}}
       IN  status' = [t \in Tasks |-> IF t \in Woken THEN "ready" ELSE status[t]]
    /\ condvars' = [k \in Tokens |-> IF k \in Range(used_ring) /\ condvars[k] # <<>>
                                       THEN Tail(condvars[k]) ELSE condvars[k]]
    /\ used_ring' = <<>>
    /\ UNCHANGED <<cpu, pc, call, left, locks, nb, requests>>

InKernel(t) ==
    LockFs(t) \/ LockManager(t) \/ Access(t) \/ Schedule(t) \/ UnlockManager(t) \/ Return(t)

DiskNext ==
    \/ \E t \in Tasks : \/ Dispatch(t) \/ Preempt(t) \/ InKernel(t)
                        \/ \E c \in {"exec", "read"}, l \in {"wants_fs", "in_fs"} : Enter(t, c, l)
    \/ \E token \in Tokens : Complete(token)
    \/ handle_irq

DiskSpec == DiskInit /\ [][DiskNext]_diskVars

(* The processor does not stop, the device answers and its interrupt is    *)
(* taken; a task that is in user mode again and again is preempted there,  *)
(* and one that is ready again and again gets the processor.               *)
DiskFairness ==
    /\ \A t \in Tasks : /\ WF_diskVars(InKernel(t))
                         /\ SF_diskVars(Preempt(t)) /\ SF_diskVars(Dispatch(t))
    /\ \A token \in Tokens : WF_diskVars(Complete(token))
    /\ WF_diskVars(handle_irq)

LiveSpec == DiskSpec /\ DiskFairness
-----------------------------------------------------------------------------
(* Type invariant. *)
DiskWaitTypeOK ==
    /\ cpu \in Tasks \cup {Nobody}
    /\ status \in [Tasks -> {"ready", "running", "blocked"}]
    /\ pc \in [Tasks -> {"user", "wants_fs", "in_fs", "in_cache", "submitted"}]
    /\ call \in [Tasks -> {"exec", "read"}] /\ left \in [Tasks -> 0 .. MaxAccesses]
    /\ {fs_lock, manager} \subseteq Tasks \cup {Nobody} /\ nb \in BOOLEAN
    /\ requests \subseteq Tokens /\ Range(used_ring) \subseteq Tokens
    /\ \A token \in Tokens : Range(condvars[token]) \subseteq Tasks

(* No wakeup from the disk is lost and none goes to the wrong task: a task *)
(* is blocked exactly while it waits for one token, alone, and that token  *)
(* is at the device or its answer not yet taken.                           *)
NoLostDiskWakeup ==
    /\ \A t \in Tasks :
          status[t] = "blocked" <=>
              \E token \in requests \cup Range(used_ring) : condvars[token] = <<t>>
    /\ \A token \in Tokens \ (requests \cup Range(used_ring)) : condvars[token] = <<>>

(* Polling and sleeping do not mix: the mode is "poll" only while the task *)
(* on the processor is in exec, and it polls with no request of another    *)
(* task outstanding, whose answer it could pop.                            *)
PollsAlone ==
    /\ ~nb => cpu # Nobody /\ call[cpu] = "exec" /\ pc[cpu] # "user"
    /\ ~nb /\ pc[cpu] = "in_cache" => requests = {} /\ used_ring = <<>>

(* No wakeup from the disk is lost and none goes to the wrong task, and a  *)
(* task that polls does so with no request of another task outstanding,    *)
(* whose answer it could pop.                                              *)
DiskWaitSafe == DiskWaitTypeOK /\ NoLostDiskWakeup /\ PollsAlone

(* Every file system call returns. *)
CallsReturn == \A t \in Tasks : []<>(pc[t] = "user")
=============================================================================
