---------------------------- MODULE MCScheduler ----------------------------
(***************************************************************************)
(* The scheduler for TLC.  A behaviour is about one of: three tasks under  *)
(* every operation of the scheduler; three tasks that also sleep, with     *)
(* fewer priorities; and the loop of refresh_aging.                        *)
(***************************************************************************)
EXTENDS Scheduler, RefreshAging, TLC

CONSTANTS t1, t2, t3

VARIABLES component,
          s_queues, s_ready, s_info, s_status, s_current, s_pc, s_sie, s_pending,
          timers, arming, in_irq

(* t1 is initproc; t2 and t3 are threads of one process. *)
MCProcessOf == (t1 :> 1) @@ (t2 :> 2) @@ (t3 :> 2)

Symmetry == Permutations({t2, t3})

sleepVars == <<s_queues, s_ready, s_info, s_status, s_current, s_pc, s_sie, s_pending,
               timers, arming, in_irq>>

(* Here every task is a process of its own. *)
S == INSTANCE SleepTimers WITH
        ProcessOf <- (t1 :> 1) @@ (t2 :> 2) @@ (t3 :> 3),
        MAX_PRIORITY <- 1, TIME_SLICE_TICKS <- 1, SleepTicks <- {0, 1},
        ready_queues <- s_queues, ready_tasks <- s_ready, sched_info <- s_info,
        task_status <- s_status, current <- s_current, pc <- s_pc, sie <- s_sie,
        timer_pending <- s_pending

ASSUME S!SleepConstants

(* The loop when the behaviour is not about it. *)
NoLoop ==
    /\ start = EmptyQueues /\ queues = start /\ new_priority = [t \in Tasks |-> 0]
    /\ levels_left = 0 /\ left = 0

MCInit ==
    /\ Init /\ S!SleepInit
    /\ \/ component \in {"scheduler", "sleep"} /\ NoLoop
       \/ component = "refresh" /\ LoopInit

MCNext ==
    /\ \/ component = "scheduler" /\ Next /\ UNCHANGED <<sleepVars, loop_vars>>
       \/ component = "sleep" /\ S!SleepNext /\ UNCHANGED <<vars, loop_vars>>
       \/ component = "refresh" /\ LoopNext /\ UNCHANGED <<vars, sleepVars>>
       \/ component = "refresh" /\ LoopDone /\ UNCHANGED <<vars, sleepVars, loop_vars>>
    /\ UNCHANGED component

MCSpec == MCInit /\ [][MCNext]_<<component, vars, sleepVars, loop_vars>>

(* The sleeping tasks alone, with fairness. *)
FairSleepSpec ==
    /\ MCInit /\ component = "sleep"
    /\ [][S!SleepNext /\ UNCHANGED <<component, vars, loop_vars>>]_<<component, vars, sleepVars, loop_vars>>
    /\ WF_sleepVars(S!SleepTick) /\ WF_sleepVars(S!TimerHandler) /\ WF_sleepVars(S!SleepProgress)
-----------------------------------------------------------------------------
(* A sleeping task is never forgotten, even when the timer interrupt comes *)
(* between add_timer and block_current_task, and never queued twice or     *)
(* queued beside a timer that would queue it again.                        *)
SleepersKept == component = "sleep" => S!NoLostSleeper /\ S!SleeperQueuedOnce

(* Every queued task is eventually dispatched, whatever the priorities. *)
QueuedEventuallyRuns == S!QueuedEventuallyRuns
=============================================================================
