--------------------------- MODULE RefreshAging ---------------------------
(***************************************************************************)
(* PriorityScheduler::refresh_aging (priority.rs) step by step: for each   *)
(* level from the highest down, as many times as its queue was long when   *)
(* the level was reached, pop a task, refresh its priority and push it to  *)
(* the queue of that priority.  The whole loop runs inside one critical    *)
(* section, so Scheduler uses its result in one step, by the operator      *)
(* refresh_aging of ReadyQueues; this module is where that operator is     *)
(* compared with the loop.                                                 *)
(***************************************************************************)
EXTENDS ReadyQueues

VARIABLES start,          \* ready_queues before the call
          new_priority,   \* what refresh_effective_priority returns per task
          queues,         \* ready_queues
          levels_left,    \* levels not yet finished; the last one is current
          left            \* iterations left of the inner loop

loop_vars == <<start, new_priority, queues, levels_left, left>>

old_priority == levels_left - 1

(* Every way to queue some of the tasks, each once, over the levels. *)
Placements ==
    {q \in [Priorities -> UNION {[1 .. n -> Tasks] : n \in 0 .. Cardinality(Tasks)}] :
        \A s, r \in Slots(q) : TaskAt(q, s) = TaskAt(q, r) => s = r}

LoopInit ==
    /\ start \in Placements
    /\ new_priority \in [Tasks -> Priorities]
    /\ queues = start
    /\ levels_left = MAX_PRIORITY + 1
    /\ left = Len(start[MAX_PRIORITY])

(* Slip: the task is filed under its old level. *)
RefileOne_Stays ==
    /\ levels_left > 0 /\ left > 0
    /\ LET t == Head(queues[old_priority])
       IN  queues' = push_back(pop_front(queues, old_priority), old_priority, t)
    /\ left' = left - 1
    /\ UNCHANGED <<start, new_priority, levels_left>>

RefileOne ==
    /\ levels_left > 0 /\ left > 0
    /\ LET t == Head(queues[old_priority])
       IN  queues' = push_back(pop_front(queues, old_priority), new_priority[t], t)
    /\ left' = left - 1
    /\ UNCHANGED <<start, new_priority, levels_left>>

NextLevel ==
    /\ levels_left > 0 /\ left = 0
    /\ levels_left' = levels_left - 1
    /\ left' = IF levels_left > 1 THEN Len(queues[old_priority - 1]) ELSE 0
    /\ UNCHANGED <<start, new_priority, queues>>

LoopNext == RefileOne \/ NextLevel

LoopSpec == LoopInit /\ [][LoopNext]_loop_vars

LoopDone == levels_left = 0
-----------------------------------------------------------------------------
(* The queues the loop of refresh_aging leaves are those the operator of   *)
(* ReadyQueues describes: every task is in the queue of its refreshed      *)
(* priority, once, and in the order FiledBefore says.                      *)
LoopComputesRefresh == LoopDone => queues = refresh_aging(start, new_priority)
=============================================================================
