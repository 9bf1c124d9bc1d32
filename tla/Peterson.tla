------------------------------ MODULE Peterson ------------------------------
(***************************************************************************)
(* user/src/bin/peterson.rs: Peterson's algorithm between the threads 0    *)
(* and 1, and the counter GUARD with which the program asserts that it     *)
(* excludes.  FLAG and TURN are only touched by vload! and vstore!, so     *)
(* each access is a step and the steps come in program order; the machine  *)
(* has one processor, so there is no other reordering.  (main has the      *)
(* creation of thread 1 commented out; the functions are written for both  *)
(* ids and are modelled for both.)                                         *)
(***************************************************************************)
EXTENDS Integers, TLAPS

VARIABLES FLAG, TURN, GUARD,
          pc     \* where a thread is; "panic" after a failed assertion

petersonVars == <<FLAG, TURN, GUARD, pc>>

Ids == {0, 1}
peer_id(id) == 1 - id

PetersonInit ==
    /\ FLAG = [id \in Ids |-> FALSE]
    /\ TURN = 0
    /\ GUARD = 0
    /\ pc = [id \in Ids |-> "out"]

Goto(id, from, to) == pc[id] = from /\ pc' = [pc EXCEPT ![id] = to]

RaiseFlag(id) ==
    /\ Goto(id, "raise", "turn")
    /\ FLAG' = [FLAG EXCEPT ![id] = TRUE]
    /\ UNCHANGED <<TURN, GUARD>>

OfferTurn(id) ==
    /\ Goto(id, "turn", "test_flag")
    /\ TURN' = peer_id(id)
    /\ UNCHANGED <<FLAG, GUARD>>

(* The loop condition reads the flag of the peer and then, if it is up,    *)
(* the turn; a failed attempt sleeps and starts again with the flag.       *)
TestFlag(id) ==
    /\ Goto(id, "test_flag", IF FLAG[peer_id(id)] THEN "test_turn" ELSE "enter")
    /\ UNCHANGED <<FLAG, TURN, GUARD>>

TestTurn(id) ==
    /\ Goto(id, "test_turn", IF TURN = peer_id(id) THEN "test_flag" ELSE "enter")
    /\ UNCHANGED <<FLAG, TURN, GUARD>>

peterson_enter_critical(id) ==
    RaiseFlag(id) \/ OfferTurn(id) \/ TestFlag(id) \/ TestTurn(id)

peterson_exit_critical(id) ==
    /\ Goto(id, "lower", "out")
    /\ FLAG' = [FLAG EXCEPT ![id] = FALSE]
    /\ UNCHANGED <<TURN, GUARD>>

critical_test_enter(id) ==
    /\ Goto(id, "enter", IF GUARD = 0 THEN "claim" ELSE "panic")
    /\ GUARD' = GUARD + 1
    /\ UNCHANGED <<FLAG, TURN>>

(* The three claims of an iteration, with a sleep after each. *)
critical_test_claim(id) ==
    /\ \/ Goto(id, "claim", IF GUARD = 1 THEN "claim" ELSE "panic")
       \/ Goto(id, "claim", IF GUARD = 1 THEN "leave" ELSE "panic")
    /\ UNCHANGED <<FLAG, TURN, GUARD>>

critical_test_exit(id) ==
    /\ Goto(id, "leave", IF GUARD = 1 THEN "lower" ELSE "panic")
    /\ GUARD' = GUARD - 1
    /\ UNCHANGED <<FLAG, TURN>>

(* Another iteration, or the last one is over. *)
Iterate(id) ==
    /\ Goto(id, "out", "raise") \/ Goto(id, "out", "exited")
    /\ UNCHANGED <<FLAG, TURN, GUARD>>

PetersonStep(id) ==
    \/ peterson_enter_critical(id) \/ critical_test_enter(id)
    \/ critical_test_claim(id) \/ critical_test_exit(id)
    \/ peterson_exit_critical(id) \/ Iterate(id)

PetersonSpec == PetersonInit /\ [][\E id \in Ids : PetersonStep(id)]_petersonVars
-----------------------------------------------------------------------------
(* No assertion of the program fails: whatever order the accesses of the   *)
(* two threads to FLAG and TURN come in, a thread that is past             *)
(* peterson_enter_critical is alone until peterson_exit_critical.          *)
PetersonExcludes ==
    /\ \A id \in Ids : pc[id] # "panic"
    /\ pc[0] \in {"enter", "claim", "leave", "lower"} => pc[1] \notin {"enter", "claim", "leave", "lower"}

Inside == {"enter", "claim", "leave", "lower"}

(* What makes it inductive: FLAG says who is between the first store of    *)
(* peterson_enter_critical and peterson_exit_critical, GUARD counts who is *)
(* between the two counter updates, and beside a thread that is inside the *)
(* peer has not yet offered the turn, or waits with the turn offered away. *)
PetersonIInv ==
    /\ FLAG \in [Ids -> BOOLEAN] /\ TURN \in Ids
    /\ pc \in [Ids -> {"out", "raise", "turn", "test_flag", "test_turn", "exited"} \cup Inside]
    /\ \A id \in Ids : FLAG[id] <=> pc[id] \notin {"out", "raise", "exited"}
    /\ GUARD = IF \E id \in Ids : pc[id] \in {"claim", "leave"} THEN 1 ELSE 0
    /\ \A id \in Ids : pc[id] \in Inside =>
          \/ pc[peer_id(id)] \in {"out", "raise", "exited", "turn"}
          \/ pc[peer_id(id)] \in {"test_flag", "test_turn"} /\ TURN = id

(* One step of one thread of peterson.rs keeps the inductive invariant. *)
LEMMA PetersonStepKeeps ==
    ASSUME PetersonIInv, NEW id \in Ids, PetersonStep(id)
    PROVE  PetersonIInv'
<1> DEFINE peer == peer_id(id)
<1>1. peer \in Ids /\ peer # id /\ peer_id(peer) = id /\ Ids = {id, peer}
  BY DEF Ids, peer_id
<1>2. CASE peterson_enter_critical(id)
  <2>1. CASE RaiseFlag(id)
    BY <1>1, <2>1 DEF RaiseFlag, Goto, PetersonIInv, Inside
  <2>2. CASE OfferTurn(id)
    BY <1>1, <2>2 DEF OfferTurn, Goto, PetersonIInv, Inside
  <2>3. CASE TestFlag(id)
    BY <1>1, <2>3 DEF TestFlag, Goto, PetersonIInv, Inside
  <2>4. CASE TestTurn(id)
    BY <1>1, <2>4 DEF TestTurn, Goto, PetersonIInv, Inside
  <2> QED
    BY <1>2, <2>1, <2>2, <2>3, <2>4 DEF peterson_enter_critical
<1>3. CASE critical_test_enter(id)
  BY <1>1, <1>3 DEF critical_test_enter, Goto, PetersonIInv, Inside
<1>4. CASE critical_test_claim(id)
  BY <1>1, <1>4 DEF critical_test_claim, Goto, PetersonIInv, Inside
<1>5. CASE critical_test_exit(id)
  BY <1>1, <1>5 DEF critical_test_exit, Goto, PetersonIInv, Inside
<1>6. CASE peterson_exit_critical(id)
  BY <1>1, <1>6 DEF peterson_exit_critical, Goto, PetersonIInv, Inside
<1>7. CASE Iterate(id)
  BY <1>1, <1>7 DEF Iterate, Goto, PetersonIInv, Inside
<1> QED
  BY <1>2, <1>3, <1>4, <1>5, <1>6, <1>7 DEF PetersonStep

(* No run of peterson.rs, of any length, fails one of its assertions. *)
THEOREM PetersonCorrect == PetersonSpec => []PetersonExcludes
<1>1. PetersonInit => PetersonIInv
  BY DEF PetersonInit, PetersonIInv, Ids, peer_id, Inside
<1>2. PetersonIInv /\ [\E id \in Ids : PetersonStep(id)]_petersonVars => PetersonIInv'
  <2>1. PetersonIInv /\ UNCHANGED petersonVars => PetersonIInv'
    BY DEF PetersonIInv, petersonVars
  <2> QED
    BY <2>1, PetersonStepKeeps
<1>3. PetersonIInv => PetersonExcludes
  BY DEF PetersonIInv, PetersonExcludes, Ids, peer_id, Inside
<1> QED
  BY <1>1, <1>2, <1>3, PTL DEF PetersonSpec
=============================================================================
