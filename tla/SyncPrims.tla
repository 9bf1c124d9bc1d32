----------------------------- MODULE SyncPrims -----------------------------
(***************************************************************************)
(* The synchronisation objects of a process (os/src/sync) behind the       *)
(* system calls of os/src/syscall/sync.rs: MutexSpin, MutexBlocking,       *)
(* Semaphore and Condvar.                                                  *)
(*                                                                         *)
(* No interrupt touches these objects and a system call switches threads   *)
(* only where it blocks or yields, so a call is one step up to that point. *)
(* A thread that is Ready may be the next to run; a woken one continues    *)
(* inside its call with Return or Relock.                                  *)
(***************************************************************************)
EXTENDS Integers, Sequences, FiniteSets

CONSTANTS Threads,
          Mutexes, Blocking,   \* of the mutexes, the MutexBlocking ones
          Semaphores, res_count,
          Condvars,
          NoObject,
          MaxCount             \* bound: the counter of a semaphore

ASSUME SyncAssumption ==
    /\ IsFiniteSet(Threads)
    /\ Blocking \subseteq Mutexes
    /\ NoObject \notin Mutexes \cup Semaphores
    /\ Mutexes \cap Semaphores = {}
    /\ res_count \in [Semaphores -> Nat]
    /\ MaxCount \in Nat

VARIABLES mutex,    \* mutex[m]: locked, wait_queue (empty in a MutexSpin)
          sem,      \* sem[s]: count, wait_queue
          cond,     \* cond[c]: the wait_queue
          status,   \* task_status: "Ready" stands for Ready and Running
          call,     \* the call a thread is in: "user" is none
          arg,      \* the mutex it locks or relocks, the semaphore it downs
          holds,    \* history: the mutexes whose lock returned to the thread
          passed    \* history: downs that returned less ups

syncVars == <<mutex, sem, cond, status, call, arg, holds, passed>>

SyncInit ==
    /\ mutex = [m \in Mutexes |-> [locked |-> FALSE, wait_queue |-> << >>]]
    /\ sem = [s \in Semaphores |-> [count |-> res_count[s], wait_queue |-> << >>]]
    /\ cond = [c \in Condvars |-> << >>]
    /\ status = [t \in Threads |-> "Ready"]
    /\ call = [t \in Threads |-> "user"]
    /\ arg = [t \in Threads |-> NoObject]
    /\ holds = [t \in Threads |-> {}]
    /\ passed = [s \in Semaphores |-> 0]

InUser(t) == status[t] = "Ready" /\ call[t] = "user"

(* Slip: the woken task stays in the queue. *)
Rest_Keeps(q) == q

Rest(q) == IF q = << >> THEN q ELSE Tail(q)

(* wakeup_task on the first of a wait queue, if there is one. *)
Woken(st, q) == IF q = << >> THEN st ELSE [st EXCEPT ![Head(q)] = "Ready"]

(* Slip: a waiter goes to the front. *)
Queued_Front(m, t) == [mutex EXCEPT ![m].wait_queue = <<t>> \o @]

Queued(m, t) == [mutex EXCEPT ![m].wait_queue = Append(@, t)]

(* Mutex::lock: take it, or wait in the queue (MutexBlocking) or yield and *)
(* try again (MutexSpin).                                                  *)
lock(t, m) ==
    \/ /\ ~mutex[m].locked
       /\ mutex' = [mutex EXCEPT ![m].locked = TRUE]
       /\ holds' = [holds EXCEPT ![t] = @ \cup {m}]
       /\ call' = [call EXCEPT ![t] = "user"]
       /\ arg' = [arg EXCEPT ![t] = NoObject]
       /\ UNCHANGED status
    \/ /\ mutex[m].locked
       /\ mutex' = IF m \in Blocking THEN Queued(m, t) ELSE mutex
       /\ status' = IF m \in Blocking THEN [status EXCEPT ![t] = "Blocked"] ELSE status
       /\ call' = [call EXCEPT ![t] = IF m \in Blocking THEN "lock" ELSE "spin"]
       /\ arg' = [arg EXCEPT ![t] = m]
       /\ UNCHANGED holds

(* Slip: the lock is freed although it is handed on. *)
unlocked_Frees(m) == [mutex EXCEPT ![m] =
    [locked |-> FALSE, wait_queue |-> Rest(mutex[m].wait_queue)]]

(* The mutex after unlock: it stays locked for the waiter it is handed to. *)
unlocked(m) == [mutex EXCEPT ![m] =
    [locked |-> mutex[m].wait_queue # << >>, wait_queue |-> Rest(mutex[m].wait_queue)]]

sys_mutex_lock(t, m) ==
    /\ InUser(t)
    /\ lock(t, m)
    /\ UNCHANGED <<sem, cond, passed>>

(* Programs unlock what they hold: MutexBlocking asserts that it is locked. *)
sys_mutex_unlock(t, m) ==
    /\ InUser(t) /\ m \in holds[t]
    /\ mutex' = unlocked(m)
    /\ status' = Woken(status, mutex[m].wait_queue)
    /\ holds' = [holds EXCEPT ![t] = @ \ {m}]
    /\ UNCHANGED <<sem, cond, call, arg, passed>>

Wakes(s) == sem[s].count + 1 <= 0

sys_semaphore_up(t, s) ==
    /\ InUser(t) /\ sem[s].count < MaxCount
    /\ sem' = [sem EXCEPT ![s] = [count |-> sem[s].count + 1,
          wait_queue |-> IF Wakes(s) THEN Rest(sem[s].wait_queue) ELSE sem[s].wait_queue]]
    /\ status' = IF Wakes(s) THEN Woken(status, sem[s].wait_queue) ELSE status
    /\ passed' = [passed EXCEPT ![s] = @ - 1]
    /\ UNCHANGED <<mutex, cond, call, arg, holds>>

sys_semaphore_down(t, s) ==
    LET blocks == sem[s].count - 1 < 0 IN
    /\ InUser(t)
    /\ sem' = [sem EXCEPT ![s] = [count |-> sem[s].count - 1,
          wait_queue |-> IF blocks THEN Append(sem[s].wait_queue, t) ELSE sem[s].wait_queue]]
    /\ \/ /\ blocks
          /\ status' = [status EXCEPT ![t] = "Blocked"]
          /\ call' = [call EXCEPT ![t] = "down"]
          /\ arg' = [arg EXCEPT ![t] = s]
          /\ UNCHANGED passed
       \/ /\ ~blocks
          /\ passed' = [passed EXCEPT ![s] = @ + 1]
          /\ UNCHANGED <<status, call, arg>>
    /\ UNCHANGED <<mutex, cond, holds>>

sys_condvar_signal(t, c) ==
    /\ InUser(t)
    /\ cond' = [cond EXCEPT ![c] = Rest(@)]
    /\ status' = Woken(status, cond[c])
    /\ UNCHANGED <<mutex, sem, call, arg, holds, passed>>

(* wait_with_mutex up to the block; nothing runs between the unlock and    *)
(* the entry into the wait queue.                                          *)
sys_condvar_wait(t, c, m) ==
    /\ InUser(t) /\ m \in holds[t]
    /\ mutex' = unlocked(m)
    /\ cond' = [cond EXCEPT ![c] = Append(@, t)]
    /\ status' = [Woken(status, mutex[m].wait_queue) EXCEPT ![t] = "Blocked"]
    /\ call' = [call EXCEPT ![t] = "wait"]
    /\ arg' = [arg EXCEPT ![t] = m]
    /\ holds' = [holds EXCEPT ![t] = @ \ {m}]
    /\ UNCHANGED <<sem, passed>>

(* A thread woken from a mutex or a semaphore returns: the waker has       *)
(* passed the lock or the count on to it.                                  *)
Return(t) ==
    /\ status[t] = "Ready" /\ call[t] \in {"lock", "down"}
    /\ holds' = IF call[t] = "lock" THEN [holds EXCEPT ![t] = @ \cup {arg[t]}] ELSE holds
    /\ passed' = IF call[t] = "down" THEN [passed EXCEPT ![arg[t]] = @ + 1] ELSE passed
    /\ call' = [call EXCEPT ![t] = "user"]
    /\ arg' = [arg EXCEPT ![t] = NoObject]
    /\ UNCHANGED <<mutex, sem, cond, status>>

(* The lock at the end of wait_with_mutex. *)
Relock(t) ==
    /\ status[t] = "Ready" /\ call[t] = "wait"
    /\ lock(t, arg[t])
    /\ UNCHANGED <<sem, cond, passed>>

(* MutexSpin finds the lock free after a yield. *)
Spin(t) ==
    /\ call[t] = "spin" /\ ~mutex[arg[t]].locked
    /\ lock(t, arg[t])
    /\ UNCHANGED <<sem, cond, passed>>

Continue(t) == Return(t) \/ Relock(t) \/ Spin(t)
-----------------------------------------------------------------------------
(* Any program over the given objects that does not lock a mutex it has. *)
Call(t, M, S, C) ==
    \/ \E m \in M \ holds[t] : sys_mutex_lock(t, m)
    \/ \E m \in M : sys_mutex_unlock(t, m)
    \/ \E s \in S : sys_semaphore_up(t, s) \/ sys_semaphore_down(t, s)
    \/ \E c \in C : \/ sys_condvar_signal(t, c)
                    \/ \E m \in M : sys_condvar_wait(t, c, m)
-----------------------------------------------------------------------------
(* Type invariant: queues hold threads, and between two steps a thread is  *)
(* Ready or Blocked, with the object of its call.                          *)
SyncTypeOK ==
    /\ mutex \in [Mutexes -> [locked : BOOLEAN, wait_queue : Seq(Threads)]]
    /\ sem \in [Semaphores -> [count : Int, wait_queue : Seq(Threads)]]
    /\ cond \in [Condvars -> Seq(Threads)]
    /\ status \in [Threads -> {"Ready", "Blocked"}]
    /\ call \in [Threads -> {"user", "lock", "spin", "down", "wait"}]
    /\ arg \in [Threads -> Mutexes \cup Semaphores \cup {NoObject}]
    /\ holds \in [Threads -> SUBSET Mutexes]
    /\ passed \in [Semaphores -> Int]

In(q, t) == \E i \in DOMAIN q : q[i] = t

Once(q, t) == \E i \in DOMAIN q : q[i] = t /\ \A j \in DOMAIN q : q[j] = t => j = i

(* Whether t waits for the object o of the call it is in. *)
Waits(t, c, o) == status[t] = "Blocked" /\ call[t] = c /\ arg[t] = o

(* No lost and no double wakeup: a thread is blocked exactly when it is    *)
(* once in the one wait queue its call put it into.                        *)
BlockedIffQueued ==
    /\ \A t \in Threads, m \in Mutexes :
          IF Waits(t, "lock", m) THEN Once(mutex[m].wait_queue, t) ELSE ~In(mutex[m].wait_queue, t)
    /\ \A t \in Threads, s \in Semaphores :
          IF Waits(t, "down", s) THEN Once(sem[s].wait_queue, t) ELSE ~In(sem[s].wait_queue, t)
    /\ \A t \in Threads :
          IF status[t] = "Blocked" /\ call[t] = "wait"
          THEN \E c \in Condvars : /\ Once(cond[c], t)
                                   /\ \A d \in Condvars \ {c} : ~In(cond[d], t)
          ELSE \A c \in Condvars : ~In(cond[c], t)
    /\ \A t \in Threads : status[t] = "Blocked" => call[t] \in {"lock", "down", "wait"}

(* The threads that have m, or to whom it was handed and who have not run. *)
Owners(m) == {t \in Threads : \/ m \in holds[t]
                              \/ status[t] = "Ready" /\ call[t] = "lock" /\ arg[t] = m}

(* Mutual exclusion across the hand-off: a locked mutex has exactly one    *)
(* owner, a free one none and nobody waiting.                              *)
LockedMeansOneOwner ==
    \A m \in Mutexes : IF mutex[m].locked THEN \E t \in Threads : Owners(m) = {t}
                       ELSE Owners(m) = {} /\ mutex[m].wait_queue = << >>

Granted(s) == {t \in Threads : status[t] = "Ready" /\ call[t] = "down" /\ arg[t] = s}

Positive(n) == IF n > 0 THEN n ELSE 0

(* A semaphore lets through as many threads as it has resources, no more   *)
(* and, when someone waits, no fewer; its negative count is the number of  *)
(* waiters.                                                                *)
SemaphoreExact ==
    \A s \in Semaphores :
       /\ Len(sem[s].wait_queue) = Positive(-sem[s].count)
       /\ passed[s] + Cardinality(Granted(s)) + Positive(sem[s].count) = res_count[s]

(* Mutual exclusion across the hand-off, and semaphores that count right. *)
LocksExact == SyncTypeOK /\ LockedMeansOneOwner /\ SemaphoreExact

(* A MutexBlocking serves its callers in the order of their calls. *)
Fifo == INSTANCE FifoLock WITH Locks <- Blocking,
            line <- [m \in Blocking |->
                       IF mutex[m].locked
                       THEN <<CHOOSE t \in Owners(m) : TRUE>> \o mutex[m].wait_queue
                       ELSE << >>]

ImplementsFifoLock == Fifo!Spec
=============================================================================
