---------------------------- MODULE SleepTimers ----------------------------
(***************************************************************************)
(* sys_sleep (os/src/syscall/sync.rs) and the timer heap                   *)
(* (os/src/timer.rs) on top of the scheduler.  sys_sleep first puts the    *)
(* task into TIMERS and then blocks it; between the two the critical       *)
(* section of TIMERS has been left, so a timer interrupt can be taken      *)
(* there and find the timer already expired.                               *)
(*                                                                         *)
(* The heap is a function from the tasks in it to the ticks until they     *)
(* expire (0: expired).  The interrupt handler runs check_timer, which     *)
(* wakes the expired tasks one by one, and then the accounting of          *)
(* Scheduler; in_irq keeps everything else out between those steps, as     *)
(* the cleared SIE bit does.  The order in which timers that expire        *)
(* together are woken is left open.                                        *)
(***************************************************************************)
EXTENDS Scheduler

CONSTANT SleepTicks      \* how long a task may ask to sleep

SleepConstants == SleepTicks \subseteq Nat

VARIABLES timers,        \* TIMERS
          arming,        \* the task between add_timer and block_current_task
          in_irq         \* a timer interrupt is inside check_timer

svars == <<vars, timers, arming, in_irq>>

Expired == {t \in DOMAIN timers : timers[t] = 0}

SleepInit == Init /\ timers = [t \in {} |-> 0] /\ arming = NoTask /\ in_irq = FALSE

SleepTick ==
    /\ Tick
    /\ timers' = [t \in DOMAIN timers |-> IF timers[t] = 0 THEN 0 ELSE timers[t] - 1]
    /\ UNCHANGED <<arming, in_irq>>

(* sys_sleep up to add_timer. *)
AddTimer(t, d) ==
    /\ current = t /\ pc[t] = "syscall" /\ arming = NoTask
    /\ timers' = [u \in DOMAIN timers \cup {t} |-> IF u = t THEN d ELSE timers[u]]
    /\ arming' = t
    /\ UNCHANGED <<vars, in_irq>>

(* sys_sleep from block_current_and_run_next on. *)
SleepBlock(t) ==
    /\ arming = t
    /\ Block(t)
    /\ arming' = NoTask
    /\ UNCHANGED <<timers, in_irq>>

(* The timer interrupt can be taken: in user mode, or with SIE set. *)
InterruptEnabled == sie \/ (current # NoTask /\ pc[current] = "user")

(* Slip: all expired timers are dropped, one task is woken. *)
CheckTimer_DropsTies(t) ==
    /\ timer_pending /\ InterruptEnabled
    /\ t \in Expired
    /\ wakeup_task(t)
    /\ timers' = [u \in DOMAIN timers \ Expired |-> timers[u]]
    /\ in_irq' = TRUE
    /\ UNCHANGED <<current, pc, sie, timer_pending, arming>>

(* One iteration of check_timer: wakeup_task sets the status, whatever it  *)
(* was, and adds the task; then the timer is popped.                       *)
CheckTimer(t) ==
    /\ timer_pending /\ InterruptEnabled
    /\ t \in Expired
    /\ wakeup_task(t)
    /\ timers' = [u \in DOMAIN timers \ {t} |-> timers[u]]
    /\ in_irq' = TRUE
    /\ UNCHANGED <<current, pc, sie, timer_pending, arming>>

(* The rest of the handler, once the heap has no expired timer. *)
TimerTick ==
    /\ Expired = {}
    /\ TimerInterrupt
    /\ in_irq' = FALSE
    /\ UNCHANGED <<timers, arming>>

(* Everything else; the task that arms a timer does nothing else. *)
OtherStep ==
    /\ \/ Fetch
       \/ /\ arming = NoTask
          /\ \E t \in Tasks :
                \/ Syscall(t) \/ Yield(t) \/ SyscallReturn(t) \/ TrapReturn(t)
                \/ \E u \in Tasks : CreateTask(t, u)
                \/ \E pid \in Processes, p \in SettablePriorities : SetPriority(t, pid, p)
    /\ UNCHANGED <<timers, arming, in_irq>>

SleepNext ==
    \/ SleepTick
    \/ \E t \in Tasks : CheckTimer(t)
    \/ TimerTick
    \/ /\ ~in_irq
       /\ \/ OtherStep
          \/ \E t \in Tasks : SleepBlock(t) \/ \E d \in SleepTicks : AddTimer(t, d)

SleepSpec == SleepInit /\ [][SleepNext]_svars

TimerHandler == TimerTick \/ \E t \in Tasks : CheckTimer(t)

(* What the kernel does on its own outside the handler. *)
SleepProgress ==
    /\ ~in_irq
    /\ \/ \E t \in Tasks : SleepBlock(t)
       \/ arming = NoTask /\ KernelProgress /\ UNCHANGED <<timers, arming, in_irq>>

FairSleepSpec ==
    SleepSpec /\ WF_svars(SleepTick) /\ WF_svars(TimerHandler) /\ WF_svars(SleepProgress)
-----------------------------------------------------------------------------
(* A sleeping task is never forgotten: as long as it is blocked it has a   *)
(* timer in the heap or is already queued, even when the interrupt comes   *)
(* between add_timer and block_current_task.                               *)
NoLostSleeper ==
    \A t \in Tasks : task_status[t] = "Blocked" =>
        t \in DOMAIN timers \/ t \in QueuedTasks(ready_queues)

(* No task is in the queues twice, and none is queued while it has a timer *)
(* that would queue it again.                                              *)
SleeperQueuedOnce ==
    /\ \A s, r \in Slots(ready_queues) :
          TaskAt(ready_queues, s) = TaskAt(ready_queues, r) => s = r
    /\ DOMAIN timers \cap QueuedTasks(ready_queues) = {}

(* Every queued task is eventually dispatched, whatever the priorities. *)
QueuedEventuallyRuns ==
    \A t \in Tasks : (t \in QueuedTasks(ready_queues)) ~> (current = t)
=============================================================================
