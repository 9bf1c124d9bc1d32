--------------------------- MODULE BarrierCondvar ---------------------------
(***************************************************************************)
(* user/src/bin/barrier_condvar.rs: threads meet at the barriers AB and BC *)
(* one after the other.  A barrier has a MutexSpin, a Condvar and a count; *)
(* the last one to arrive wakes one waiter, who wakes the next.            *)
(***************************************************************************)
EXTENDS SyncPrims

CONSTANTS BarrierThreads,
          Barriers    \* how many there are; the program has two

VARIABLES line, at, count, tmp

barrierVars == <<line, at, count, tmp>>

THREAD_NUM == Cardinality(BarrierThreads)

mutex_id(b) == <<"mutex", b>>
condvar_id(b) == <<"condvar", b>>

ASSUME BarrierAssumption ==
    /\ IsFiniteSet(BarrierThreads) /\ BarrierThreads \subseteq Threads
    /\ Barriers \in Nat
    /\ \A b \in 1 .. Barriers : /\ mutex_id(b) \in Mutexes \ Blocking
                                /\ condvar_id(b) \in Condvars

BarrierInit ==
    /\ SyncInit
    /\ line = [t \in BarrierThreads |-> "lock"]
    /\ at = [t \in BarrierThreads |-> 1]            \* the barrier before the thread
    /\ count = [b \in 1 .. Barriers |-> 0]
    /\ tmp = [t \in BarrierThreads |-> 0]           \* count as read by the thread

BarrierStep(t, from, to) == line[t] = from /\ line' = [line EXCEPT ![t] = to]

Lock(t) ==
    /\ at[t] <= Barriers /\ BarrierStep(t, "lock", "load")
    /\ sys_mutex_lock(t, mutex_id(at[t]))
    /\ UNCHANGED <<at, count, tmp>>

Load(t) ==
    /\ InUser(t) /\ BarrierStep(t, "load", "store")
    /\ tmp' = [tmp EXCEPT ![t] = count[at[t]]]
    /\ UNCHANGED <<syncVars, at, count>>

Store(t) ==
    /\ InUser(t) /\ BarrierStep(t, "store", "test")
    /\ count' = [count EXCEPT ![at[t]] = tmp[t] + 1]
    /\ UNCHANGED <<syncVars, at, tmp>>

Test(t) ==
    /\ InUser(t)
    /\ BarrierStep(t, "test", IF count[at[t]] = THREAD_NUM THEN "signal" ELSE "wait")
    /\ UNCHANGED <<syncVars, at, count, tmp>>

Wait(t) ==
    /\ BarrierStep(t, "wait", "signal")
    /\ sys_condvar_wait(t, condvar_id(at[t]), mutex_id(at[t]))
    /\ UNCHANGED <<at, count, tmp>>

Signal(t) ==
    /\ BarrierStep(t, "signal", "unlock")
    /\ sys_condvar_signal(t, condvar_id(at[t]))
    /\ UNCHANGED <<at, count, tmp>>

Unlock(t) ==
    /\ BarrierStep(t, "unlock", "lock")
    /\ sys_mutex_unlock(t, mutex_id(at[t]))
    /\ at' = [at EXCEPT ![t] = @ + 1]
    /\ UNCHANGED <<count, tmp>>

thread_fn(t) ==
    \/ Lock(t) \/ Load(t) \/ Store(t) \/ Test(t) \/ Wait(t) \/ Signal(t) \/ Unlock(t)
    \/ Continue(t) /\ UNCHANGED barrierVars

AllPassed == \A t \in BarrierThreads : at[t] > Barriers
-----------------------------------------------------------------------------
(* Nobody is past a barrier before everyone has reached it: no "b" is      *)
(* printed before the last "a".                                            *)
NobodyPassesEarly ==
    \A t, u \in BarrierThreads : at[t] > at[u] =>
        at[t] = at[u] + 1 /\ line[u] \in {"wait", "signal", "unlock"}
=============================================================================
