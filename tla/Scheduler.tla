----------------------------- MODULE Scheduler -----------------------------
(***************************************************************************)
(* The scheduler of the kernel: SchedInfo (os/src/task/task.rs), the       *)
(* PriorityScheduler policy, TaskManager, the idle loop run_tasks and the  *)
(* places where the trap handler and the system calls give up the          *)
(* processor.  There is one hart, kernel code is never preempted by other  *)
(* tasks, and interrupts are taken in user mode, or in kernel mode while   *)
(* sstatus.SIE is set.                                                     *)
(*                                                                         *)
(* Time: the code keeps ready_since and reads the clock (`now').  Only     *)
(* now - ready_since is ever used, and only up to the wait that lifts a    *)
(* task to MAX_PRIORITY, so the model keeps that difference, `waited',     *)
(* saturated at WaitCap, and 0 while the task is not queued (the code      *)
(* reads ready_since of queued tasks only).  slice_ticks is only compared  *)
(* with TIME_SLICE_TICKS and saturates there.                              *)
(***************************************************************************)
EXTENDS ReadyQueues

CONSTANTS InitTask,              \* the main thread of initproc
          NoTask,                \* processor.current = None
          ProcessOf,             \* the process each task belongs to
          SettablePriorities,    \* arguments of sys_set_priority in this model
          TIME_SLICE_TICKS,
          AGING_INTERVAL_TICKS,
          DEFAULT_PRIORITY

ASSUME SchedulerAssumption ==
    /\ InitTask \in Tasks
    /\ NoTask \notin Tasks
    /\ SettablePriorities \subseteq Priorities
    /\ TIME_SLICE_TICKS \in Nat \ {0}
    /\ AGING_INTERVAL_TICKS \in Nat \ {0}
    /\ DEFAULT_PRIORITY \in Priorities

VARIABLES ready_queues,   \* PriorityScheduler.ready_queues
          ready_tasks,    \* PriorityScheduler.ready_tasks
          sched_info,     \* TaskControlBlockInner.sched_info of every task
          task_status,    \* TaskControlBlockInner.task_status
          current,        \* PROCESSOR.current
          pc,             \* where a task is: "user" code, a "syscall", the "tail"
                          \* of trap_handler (signal checks, trap_return), or
                          \* "continued": in the tail, past the stop check
          sie,            \* sstatus.SIE of the hart
          timer_pending   \* a supervisor timer interrupt is pending

vars == <<ready_queues, ready_tasks, sched_info, task_status, current, pc,
          sie, timer_pending>>

WaitCap == MAX_PRIORITY * AGING_INTERVAL_TICKS

Min2(a, b) == IF a <= b THEN a ELSE b

(***************************************************************************)
(* SchedInfo                                                               *)
(***************************************************************************)
SchedInfo == [base_priority : Priorities, effective_priority : Priorities,
              waited : 0 .. WaitCap, slice_ticks : 0 .. TIME_SLICE_TICKS,
              in_ready_queue : BOOLEAN]

NewSchedInfo(priority) ==
    [base_priority |-> priority, effective_priority |-> priority, waited |-> 0,
     slice_ticks |-> 0, in_ready_queue |-> FALSE]

on_enqueue(s) == [s EXCEPT !.waited = 0, !.slice_ticks = 0, !.in_ready_queue = TRUE]

(* Slip: the flag survives the dispatch. *)
on_dispatch_KeepsFlag(s) ==
    [s EXCEPT !.waited = 0, !.slice_ticks = 0, !.effective_priority = s.base_priority]

on_dispatch(s) == [s EXCEPT !.waited = 0, !.slice_ticks = 0, !.in_ready_queue = FALSE,
                            !.effective_priority = s.base_priority]

on_timer_tick(s) == [s EXCEPT !.slice_ticks = Min2(@ + 1, TIME_SLICE_TICKS)]

(* Slip: waiting does not count. *)
AgedPriority_Flat(s) == s.base_priority

AgedPriority(s) ==
    Min2(s.base_priority + s.waited \div AGING_INTERVAL_TICKS, MAX_PRIORITY)

refresh_effective_priority(s) ==
    [s EXCEPT !.effective_priority =
        IF s.in_ready_queue THEN AgedPriority(s) ELSE s.base_priority]

on_block(s) == [s EXCEPT !.slice_ticks = 0, !.in_ready_queue = FALSE,
                         !.effective_priority = s.base_priority]

set_base_priority(s, priority) ==
    refresh_effective_priority([s EXCEPT !.base_priority = priority])

(***************************************************************************)
(* PriorityScheduler and TaskManager.  info is the sched_info the call     *)
(* starts from, q the queues.                                              *)
(***************************************************************************)
RefreshedInfo(info) ==
    [t \in Tasks |-> IF t \in QueuedTasks(ready_queues)
                     THEN refresh_effective_priority(info[t]) ELSE info[t]]

RefreshedQueues(info) ==
    LET refreshed == RefreshedInfo(info)
    IN refresh_aging(ready_queues, [t \in Tasks |-> refreshed[t].effective_priority])

(* Slip: one tick more than the slice. *)
should_preempt_Late(q, info, t) ==
    /\ ready_tasks # 0
    /\ \/ info[t].slice_ticks > TIME_SLICE_TICKS
       \/ highest_ready_priority(q) > info[t].effective_priority

(* q is what the refresh at the start of the check leaves. *)
should_preempt(q, info, t) ==
    /\ ready_tasks # 0
    /\ \/ info[t].slice_ticks >= TIME_SLICE_TICKS
       \/ highest_ready_priority(q) > info[t].effective_priority

(* Slip: the task goes to the front of its queue. *)
add_task_Front(q, info, t) ==
    IF info[t].in_ready_queue
    THEN /\ ready_queues' = q
         /\ sched_info' = info
         /\ UNCHANGED ready_tasks
    ELSE /\ ready_queues' =
                [q EXCEPT ![Min2(info[t].effective_priority, MAX_PRIORITY)] = <<t>> \o @]
         /\ sched_info' = [info EXCEPT ![t] = on_enqueue(@)]
         /\ ready_tasks' = ready_tasks + 1

(* TaskManager::add; status is already Ready.  The queue is the one of the *)
(* effective priority the task has now; on_enqueue does not change it.     *)
add_task(q, info, t) ==
    IF info[t].in_ready_queue
    THEN /\ ready_queues' = q
         /\ sched_info' = info
         /\ UNCHANGED ready_tasks
    ELSE /\ ready_queues' =
                push_back(q, Min2(info[t].effective_priority, MAX_PRIORITY), t)
         /\ sched_info' = [info EXCEPT ![t] = on_enqueue(@)]
         /\ ready_tasks' = ready_tasks + 1

(* Slip: the status of the woken task is not set. *)
wakeup_task_StatusKept(t) ==
    /\ UNCHANGED task_status
    /\ add_task(ready_queues, sched_info, t)

wakeup_task(t) ==
    /\ task_status' = [task_status EXCEPT ![t] = "Ready"]
    /\ add_task(ready_queues, sched_info, t)

(* suspend_current_and_run_next, with the queues and accounts that the     *)
(* preemption check before it left.                                        *)
suspend_current(q, info, t) ==
    /\ current' = NoTask
    /\ task_status' = [task_status EXCEPT ![t] = "Ready"]
    /\ add_task(q, info, t)

(* The task goes on after the check: only the refresh remains of it. *)
keep_current(q, info) ==
    /\ ready_queues' = q
    /\ sched_info' = info
    /\ UNCHANGED <<ready_tasks, task_status, current>>

CheckPreemption(info, t) ==
    \E q \in {RefreshedQueues(info)} :
        IF should_preempt(q, info, t)
        THEN suspend_current(q, RefreshedInfo(info), t)
        ELSE keep_current(q, RefreshedInfo(info))
-----------------------------------------------------------------------------
Init ==
    /\ ready_queues = push_back(EmptyQueues, DEFAULT_PRIORITY, InitTask)
    /\ ready_tasks = 1
    /\ sched_info = [t \in Tasks |->
                        IF t = InitTask THEN on_enqueue(NewSchedInfo(DEFAULT_PRIORITY))
                                        ELSE NewSchedInfo(DEFAULT_PRIORITY)]
    /\ task_status = [t \in Tasks |-> IF t = InitTask THEN "Ready" ELSE "Unborn"]
    /\ current = NoTask
    /\ pc = [t \in Tasks |-> "user"]
    /\ sie = FALSE
    /\ timer_pending = FALSE

(***************************************************************************)
(* Time and the processor                                                  *)
(***************************************************************************)

(* One tick of the clock; the timer interrupt becomes pending. *)
Tick ==
    /\ sched_info' = [t \in Tasks |->
            IF sched_info[t].in_ready_queue
            THEN [sched_info[t] EXCEPT !.waited = Min2(@ + 1, WaitCap)]
            ELSE sched_info[t]]
    /\ timer_pending' = TRUE
    /\ UNCHANGED <<ready_queues, ready_tasks, task_status, current, pc, sie>>

(* Slip: dequeue does not refresh the priorities first. *)
Fetch_NoRefresh ==
    /\ current = NoTask
    /\ ready_tasks # 0
    /\ \E p \in {highest_ready_priority(ready_queues)} :
       \E t \in {Head(ready_queues[p])} :
          /\ ready_queues' = pop_front(ready_queues, p)
          /\ ready_tasks' = ready_tasks - 1
          /\ sched_info' = [sched_info EXCEPT ![t] = on_dispatch(@)]
          /\ task_status' = [task_status EXCEPT ![t] = "Running"]
          /\ current' = t
    /\ UNCHANGED <<pc, sie, timer_pending>>

(* run_tasks: fetch_task, mark Running, switch.  SIE stays as it is. *)
Fetch ==
    /\ current = NoTask
    /\ ready_tasks # 0
    /\ \E q \in {RefreshedQueues(sched_info)} :
       \E p \in {highest_ready_priority(q)} :
       \E t \in {Head(q[p])} :
          /\ ready_queues' = pop_front(q, p)
          /\ ready_tasks' = ready_tasks - 1
          /\ sched_info' = [RefreshedInfo(sched_info) EXCEPT ![t] = on_dispatch(@)]
          /\ task_status' = [task_status EXCEPT ![t] = "Running"]
          /\ current' = t
    /\ UNCHANGED <<pc, sie, timer_pending>>

(***************************************************************************)
(* Interrupts                                                              *)
(***************************************************************************)

(* trap_handler, timer interrupt from user mode.  Exceptions and           *)
(* interrupts taken from user mode run with SIE clear.                     *)
TimerFromUser(t) ==
    /\ current = t /\ pc[t] = "user" /\ timer_pending
    /\ timer_pending' = FALSE
    /\ CheckPreemption([sched_info EXCEPT ![t] = on_timer_tick(@)], t)
    /\ pc' = [pc EXCEPT ![t] = "tail"]
    /\ sie' = FALSE

(* trap_from_kernel: the tick is charged, the decision is dropped. *)
TimerFromKernel(t) ==
    /\ current = t /\ pc[t] # "user" /\ sie /\ timer_pending
    /\ timer_pending' = FALSE
    /\ LET info == [sched_info EXCEPT ![t] = on_timer_tick(@)]
       IN keep_current(RefreshedQueues(info), RefreshedInfo(info))
    /\ UNCHANGED <<pc, sie>>

(* trap_from_kernel while no task is current: nobody is charged. *)
TimerFromIdle ==
    /\ current = NoTask /\ sie /\ timer_pending
    /\ timer_pending' = FALSE
    /\ UNCHANGED <<ready_queues, ready_tasks, sched_info, task_status, current, pc, sie>>

(* A device interrupt completes what a blocked task waits for.  From user  *)
(* mode the handler goes to the end of trap_handler, with no preemption    *)
(* check.                                                                  *)
DeviceWakeup(t) ==
    /\ task_status[t] = "Blocked"
    /\ \/ /\ current # NoTask /\ pc[current] = "user"
          /\ pc' = [pc EXCEPT ![current] = "tail"]
          /\ sie' = FALSE
       \/ /\ sie /\ (current # NoTask => pc[current] # "user")
          /\ UNCHANGED <<pc, sie>>
    /\ wakeup_task(t)
    /\ UNCHANGED <<current, timer_pending>>

(***************************************************************************)
(* Traps of the current task                                               *)
(***************************************************************************)

(* A pending interrupt is taken before the next user instruction. *)
Syscall(t) ==
    /\ current = t /\ pc[t] = "user" /\ ~timer_pending
    /\ pc' = [pc EXCEPT ![t] = "syscall"]
    /\ sie' = TRUE
    /\ UNCHANGED <<ready_queues, ready_tasks, sched_info, task_status, current, timer_pending>>

UserException(t) ==
    /\ current = t /\ pc[t] = "user" /\ ~timer_pending
    /\ pc' = [pc EXCEPT ![t] = "tail"]
    /\ sie' = FALSE
    /\ UNCHANGED <<ready_queues, ready_tasks, sched_info, task_status, current, timer_pending>>

(* sys_yield, and every loop in the kernel that waits by suspending. *)
Yield(t) ==
    /\ current = t /\ pc[t] = "syscall"
    /\ suspend_current(ready_queues, sched_info, t)
    /\ UNCHANGED <<pc, sie, timer_pending>>

(* block_current_task and the schedule that follows it. *)
Block(t) ==
    /\ current = t /\ pc[t] = "syscall"
    /\ current' = NoTask
    /\ task_status' = [task_status EXCEPT ![t] = "Blocked"]
    /\ sched_info' = [sched_info EXCEPT ![t] = on_block(@)]
    /\ UNCHANGED <<ready_queues, ready_tasks, pc, sie, timer_pending>>

(* The current task's system call wakes a blocked task: a semaphore,       *)
(* mutex or condition variable.                                            *)
SyscallWakeup(t, u) ==
    /\ current = t /\ pc[t] = "syscall"
    /\ task_status[u] = "Blocked"
    /\ wakeup_task(u)
    /\ UNCHANGED <<current, pc, sie, timer_pending>>

(* sys_fork and sys_thread_create: a new task with the creator's base      *)
(* priority, added to the ready queues.                                    *)
CreateTask(t, u) ==
    /\ current = t /\ pc[t] = "syscall"
    /\ task_status[u] = "Unborn"
    /\ task_status' = [task_status EXCEPT ![u] = "Ready"]
    /\ add_task(ready_queues,
                [sched_info EXCEPT ![u] = NewSchedInfo(sched_info[t].base_priority)], u)
    /\ UNCHANGED <<current, pc, sie, timer_pending>>

(* ProcessControlBlock::set_priority on every task of process pid.  The    *)
(* tasks stay in the queues they are in.  (The base priority of a thread   *)
(* that has exited is never read again.)                                   *)
SetPriority(t, pid, priority) ==
    /\ current = t /\ pc[t] = "syscall"
    /\ sched_info' = [u \in Tasks |->
            IF ProcessOf[u] = pid /\ task_status[u] \notin {"Unborn", "Exited"}
            THEN set_base_priority(sched_info[u], priority) ELSE sched_info[u]]
    /\ UNCHANGED <<ready_queues, ready_tasks, task_status, current, pc, sie, timer_pending>>

(* ProcessControlBlock::sched_stats refreshes the effective priorities. *)
GetSchedStats(t, pid) ==
    /\ current = t /\ pc[t] = "syscall"
    /\ sched_info' = [u \in Tasks |->
            IF ProcessOf[u] = pid THEN refresh_effective_priority(sched_info[u])
                                  ELSE sched_info[u]]
    /\ UNCHANGED <<ready_queues, ready_tasks, task_status, current, pc, sie, timer_pending>>

(* Slip: SIGCONT wakes a task that is not stopped. *)
Continue_Always(t, u) ==
    /\ current = t /\ pc[t] = "syscall"
    /\ task_status[u] # "Unborn"
    /\ wakeup_task(u)
    /\ UNCHANGED <<current, pc, sie, timer_pending>>

(* continue_process on a stopped task (SIGCONT sent with sys_kill). *)
Continue(t, u) ==
    /\ current = t /\ pc[t] = "syscall"
    /\ task_status[u] = "Stopped"
    /\ wakeup_task(u)
    /\ UNCHANGED <<current, pc, sie, timer_pending>>

(* The end of a system call: preempt if a tick or a wakeup asks for it. *)
SyscallReturn(t) ==
    /\ current = t /\ pc[t] = "syscall"
    /\ CheckPreemption(sched_info, t)
    /\ pc' = [pc EXCEPT ![t] = "tail"]
    /\ UNCHANGED <<sie, timer_pending>>

(* stop_current_and_run_next, on a pending SIGTSTP.  No on_block here.     *)
(* When it is continued the task goes on with the fatal signals.           *)
Stop(t) ==
    /\ current = t /\ pc[t] = "tail"
    /\ current' = NoTask
    /\ task_status' = [task_status EXCEPT ![t] = "Stopped"]
    /\ pc' = [pc EXCEPT ![t] = "continued"]
    /\ UNCHANGED <<ready_queues, ready_tasks, sched_info, sie, timer_pending>>

(* exit_current_and_run_next, from sys_exit or on a fatal signal.  The     *)
(* code leaves task_status as it is; "Exited" stands for exit_code = Some. *)
Exit(t) ==
    /\ current = t /\ pc[t] # "user" /\ t # InitTask
    /\ current' = NoTask
    /\ task_status' = [task_status EXCEPT ![t] = "Exited"]
    /\ sched_info' = [sched_info EXCEPT ![t] = on_block(@)]
    /\ UNCHANGED <<ready_queues, ready_tasks, pc, sie, timer_pending>>

TrapReturn(t) ==
    /\ current = t /\ pc[t] \in {"tail", "continued"}
    /\ pc' = [pc EXCEPT ![t] = "user"]
    /\ sie' = FALSE
    /\ UNCHANGED <<ready_queues, ready_tasks, sched_info, task_status, current, timer_pending>>
-----------------------------------------------------------------------------
Processes == {ProcessOf[t] : t \in Tasks}

KernelStep(t) ==
    \/ Syscall(t) \/ UserException(t) \/ Yield(t) \/ Block(t)
    \/ SyscallReturn(t) \/ Stop(t) \/ Exit(t) \/ TrapReturn(t)
    \/ \E u \in Tasks : SyscallWakeup(t, u) \/ CreateTask(t, u) \/ Continue(t, u)
    \/ \E pid \in Processes :
          \/ GetSchedStats(t, pid)
          \/ \E p \in SettablePriorities : SetPriority(t, pid, p)

TimerInterrupt ==
    TimerFromIdle \/ \E t \in Tasks : TimerFromUser(t) \/ TimerFromKernel(t)

Next ==
    \/ Tick
    \/ Fetch
    \/ TimerInterrupt
    \/ \E t \in Tasks : DeviceWakeup(t) \/ KernelStep(t)

Spec == Init /\ [][Next]_vars

(* The clock runs, a pending timer interrupt is taken, and kernel code     *)
(* (the idle loop, a system call, the end of a trap) reaches its end or a  *)
(* scheduling point.  Nothing forces a task to make a system call, to be   *)
(* woken or to be continued.                                               *)
KernelProgress == Fetch \/ \E t \in Tasks : SyscallReturn(t) \/ TrapReturn(t)

Fairness == WF_vars(Tick) /\ WF_vars(TimerInterrupt) /\ WF_vars(KernelProgress)

FairSpec == Spec /\ Fairness
-----------------------------------------------------------------------------
(* Every variable has the type its field has in the code. *)
TypeOK ==
    /\ ready_queues \in [Priorities -> Seq(Tasks)]
    /\ ready_tasks \in Nat
    /\ sched_info \in [Tasks -> SchedInfo]
    /\ task_status \in [Tasks -> {"Unborn", "Ready", "Running", "Blocked", "Stopped", "Exited"}]
    /\ current \in Tasks \cup {NoTask}
    /\ pc \in [Tasks -> {"user", "syscall", "tail", "continued"}]
    /\ sie \in BOOLEAN
    /\ timer_pending \in BOOLEAN

(* A ready task is in exactly one place of the ready queues and nothing    *)
(* else is in them: whatever mix of yields, wakeups, stops, priority       *)
(* changes and refreshes happened, no task is queued twice (it would run   *)
(* twice) and none is lost (it would never run again).                     *)
ReadyIffQueuedOnce ==
    /\ \A t \in Tasks : task_status[t] = "Ready" <=> t \in QueuedTasks(ready_queues)
    /\ \A s, r \in Slots(ready_queues) :
          TaskAt(ready_queues, s) = TaskAt(ready_queues, r) => s = r

(* The flag that guards TaskManager::add and the counter that guards       *)
(* dequeue and should_preempt agree with the queues, so the three          *)
(* `expect' and `debug_assert' of priority.rs and task.rs hold.            *)
BooksAgree ==
    /\ \A t \in Tasks : sched_info[t].in_ready_queue <=> t \in QueuedTasks(ready_queues)
    /\ ready_tasks = Cardinality(QueuedTasks(ready_queues))

(* The processor runs a task iff that task is the only Running one. *)
CurrentIsRunning ==
    \A t \in Tasks : current = t <=> task_status[t] = "Running"

(* Among tasks that have one base priority since they were made, the       *)
(* processor goes to one that has waited longest, whatever moves between   *)
(* the queues aging causes.  (set_priority leaves a queued task in the     *)
(* queue of its old level, so it can put a task behind later arrivals.)    *)
DispatchesLongestWaiter ==
    \A t, u \in Tasks :
        /\ current = NoTask /\ current' = u /\ t # u
        /\ sched_info[t].in_ready_queue
        /\ sched_info[t].base_priority = sched_info[u].base_priority
        /\ sched_info[t].base_priority \notin SettablePriorities
        => sched_info[t].waited <= sched_info[u].waited

LongestWaiterFirst == [][DispatchesLongestWaiter]_vars

(* When a task goes back to user code from a timer interrupt or a system   *)
(* call, no ready task has a higher aged priority than it had when the     *)
(* decision was taken, and its slice is not used up unless nobody waits.   *)
KeepsProcessorByRight ==
    \A t \in Tasks :
        /\ current = t /\ current' = t
        /\ \/ pc[t] = "user" /\ pc'[t] = "tail" /\ timer_pending /\ ~timer_pending'
           \/ pc[t] = "syscall" /\ pc'[t] = "tail"
        => \A u \in Tasks : task_status[u] = "Ready" =>
              /\ AgedPriority(sched_info[u]) <= sched_info[t].base_priority
              /\ sched_info'[t].slice_ticks < TIME_SLICE_TICKS

NoInversionAfterCheck == [][KeepsProcessorByRight]_vars

(* The queues, the flag, the counter and the lazily refreshed effective    *)
(* priorities implement the policy: dispatch takes a ready task of highest *)
(* aged priority even when set_priority has left tasks in queues of        *)
(* another level.                                                          *)
Policy == INSTANCE SchedulingPolicy
            WITH base <- [t \in Tasks |-> sched_info[t].base_priority],
                 waited <- [t \in Tasks |-> sched_info[t].waited],
                 ready <- {t \in Tasks : task_status[t] = "Ready"},
                 running <- current

ImplementsPolicy == Policy!Spec

(* Aging starves nobody: every ready task is eventually dispatched,        *)
(* whatever the priorities and however they are changed.                   *)
Served(t) == task_status[t] = "Ready" => current = t
StarvationFree == \A t \in Tasks : []<>Served(t)
=============================================================================
