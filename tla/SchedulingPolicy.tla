------------------------- MODULE SchedulingPolicy -------------------------
(***************************************************************************)
(* What the scheduler promises, without queues, flags or counters: there   *)
(* is a set of ready tasks, each with a base priority and the time it has  *)
(* waited; the processor goes to a ready task of highest aged priority;    *)
(* a task leaves the ready set only by getting the processor, and the      *)
(* running task keeps the processor until it gives it up.                  *)
(***************************************************************************)
EXTENDS Naturals

CONSTANTS Tasks, InitTask, NoTask, MAX_PRIORITY, DEFAULT_PRIORITY,
          AGING_INTERVAL_TICKS

VARIABLES base, waited, ready, running

vars == <<base, waited, ready, running>>

Min2(a, b) == IF a <= b THEN a ELSE b

Aged(t) == Min2(base[t] + waited[t] \div AGING_INTERVAL_TICKS, MAX_PRIORITY)

Init ==
    /\ base = [t \in Tasks |-> DEFAULT_PRIORITY]
    /\ waited = [t \in Tasks |-> 0]
    /\ ready = {InitTask}
    /\ running = NoTask

(* Waits beyond the one that lifts any task to MAX_PRIORITY are the same. *)
Age ==
    /\ waited' = [t \in Tasks |->
            IF t \in ready
            THEN Min2(waited[t] + 1, MAX_PRIORITY * AGING_INTERVAL_TICKS)
            ELSE waited[t]]
    /\ UNCHANGED <<base, ready, running>>

Dispatch(t) ==
    /\ running = NoTask /\ t \in ready
    /\ \A u \in ready : Aged(u) <= Aged(t)
    /\ running' = t
    /\ ready' = ready \ {t}
    /\ waited' = [waited EXCEPT ![t] = 0]
    /\ UNCHANGED base

(* The running task yields or is preempted (S = {t}), or blocks, stops or  *)
(* exits (S = {}).                                                         *)
Release(t) ==
    /\ running = t
    /\ running' = NoTask
    /\ \E S \in SUBSET {t} : ready' = ready \cup S
    /\ UNCHANGED <<base, waited>>

(* A task becomes ready: woken, continued, or created by the running task. *)
MakeReady(t) ==
    /\ t \notin ready /\ running # t
    /\ ready' = ready \cup {t}
    /\ \/ UNCHANGED base
       \/ running # NoTask /\ base' = [base EXCEPT ![t] = base[running]]
    /\ UNCHANGED <<waited, running>>

SetPriority(T, p) ==
    /\ base' = [t \in Tasks |-> IF t \in T THEN p ELSE base[t]]
    /\ UNCHANGED <<waited, ready, running>>

Next ==
    \/ Age
    \/ \E t \in Tasks : Dispatch(t) \/ Release(t) \/ MakeReady(t)
    \/ \E T \in SUBSET Tasks, p \in 0 .. MAX_PRIORITY : SetPriority(T, p)

Spec == Init /\ [][Next]_vars
=============================================================================
