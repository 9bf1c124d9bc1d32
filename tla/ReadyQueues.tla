---------------------------- MODULE ReadyQueues ----------------------------
(***************************************************************************)
(* The data structure of os/src/task/scheduler/priority.rs: one FIFO queue *)
(* of tasks per priority level, and the operations PriorityScheduler does  *)
(* on it.  No variables: the operators take the queues as an argument.     *)
(*                                                                         *)
(* refresh_aging is written in closed form, by where each queued slot ends *)
(* up, because that is the form proofs can use.  RefreshAging is the       *)
(* pop/push loop of the source, which computes it.                         *)
(***************************************************************************)
EXTENDS Naturals, Sequences, FiniteSets

CONSTANTS Tasks,          \* task control blocks that may ever exist
          MAX_PRIORITY

ASSUME TasksAssumption == IsFiniteSet(Tasks)

ASSUME MaxPriorityAssumption == MAX_PRIORITY \in Nat

Priorities == 0 .. MAX_PRIORITY

EmptyQueues == [p \in Priorities |-> << >>]

(* The positions in use: <<p, i>> is the i-th place of level p. *)
Slots(q) == UNION {{p} \X DOMAIN q[p] : p \in Priorities}

TaskAt(q, s) == q[s[1]][s[2]]

QueuedTasks(q) == {TaskAt(q, s) : s \in Slots(q)}

push_back(q, p, t) == [q EXCEPT ![p] = Append(@, t)]

pop_front(q, p) == [q EXCEPT ![p] = Tail(@)]

(* The level the scheduler serves next; q is not empty. *)
highest_ready_priority(q) ==
    CHOOSE p \in Priorities :
        /\ q[p] # << >>
        /\ \A r \in Priorities : r > p => q[r] = << >>

(* refresh_aging walks the levels from high to low and sends each task of  *)
(* a level to the back of the queue of its refreshed priority.  So in the  *)
(* queue of level p come first the tasks that were there and stay, in      *)
(* order, and then the newcomers, those of higher levels first.            *)
FiledBefore(p, s, r) ==
    IF s[1] = r[1] THEN s[2] < r[2]
                   ELSE s[1] = p \/ (r[1] # p /\ s[1] > r[1])

(* The slots of q whose task has priority p after the refresh, and the     *)
(* place that slot s of them gets in the queue of level p.                 *)
FiledAt(q, prio, p) == {s \in Slots(q) : prio[TaskAt(q, s)] = p}

PlaceOf(filed, p, s) == Cardinality({r \in filed : r = s \/ FiledBefore(p, r, s)})

refresh_aging(q, prio) ==
    [p \in Priorities |->
        LET filed == FiledAt(q, prio, p)
        IN [k \in 1 .. Cardinality(filed) |->
               TaskAt(q, CHOOSE s \in filed : PlaceOf(filed, p, s) = k)]]
=============================================================================
