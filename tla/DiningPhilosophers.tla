------------------------- MODULE DiningPhilosophers -------------------------
(***************************************************************************)
(* user/src/bin/phil_din_mutex.rs: N threads and N blocking mutexes, the   *)
(* forks; everyone takes the fork with the smaller number first.  Sleeping *)
(* is time that passes between two steps.                                  *)
(***************************************************************************)
EXTENDS SyncPrims

CONSTANTS N, ROUND

VARIABLES phase, round

philVars == <<phase, round>>

Ids == 0 .. N - 1

(* Philosophers and forks have numbers; the thread of id is id itself and  *)
(* its left fork is the mutex <<id>>.                                      *)
Forks == {<<i>> : i \in Ids}

ASSUME PhilAssumption ==
    /\ N \in Nat /\ N >= 2 /\ ROUND \in Nat
    /\ Ids \subseteq Threads /\ Forks \subseteq Blocking

left(id) == id
right(id) == IF id = N - 1 THEN 0 ELSE id + 1

(* Slip: the left fork first, for everyone. *)
min_Left(id) == left(id)

min(id) == IF left(id) < right(id) THEN left(id) ELSE right(id)

max(id) == left(id) + right(id) - min(id)

PhilInit ==
    /\ SyncInit
    /\ phase = [id \in Ids |-> "think"]
    /\ round = [id \in Ids |-> 0]

PhilStep(id, from, to) == phase[id] = from /\ phase' = [phase EXCEPT ![id] = to]

Think(id) ==
    /\ round[id] < ROUND /\ PhilStep(id, "think", "second")
    /\ sys_mutex_lock(id, <<min(id)>>)
    /\ UNCHANGED round

TakeSecond(id) ==
    /\ PhilStep(id, "second", "eat")
    /\ sys_mutex_lock(id, <<max(id)>>)
    /\ UNCHANGED round

Eat(id) ==
    /\ PhilStep(id, "eat", "put")
    /\ sys_mutex_unlock(id, <<max(id)>>)
    /\ UNCHANGED round

PutSecond(id) ==
    /\ PhilStep(id, "put", "think")
    /\ sys_mutex_unlock(id, <<min(id)>>)
    /\ round' = [round EXCEPT ![id] = @ + 1]

philosopher_dining_problem(id) ==
    \/ Think(id) \/ TakeSecond(id) \/ Eat(id) \/ PutSecond(id)
    \/ Continue(id) /\ UNCHANGED philVars

Finished == \A id \in Ids : round[id] = ROUND
=============================================================================
