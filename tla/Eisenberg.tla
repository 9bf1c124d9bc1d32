----------------------------- MODULE Eisenberg -----------------------------
(***************************************************************************)
(* user/src/bin/eisenberg.rs: mutual exclusion of THREAD_NUM threads after *)
(* Eisenberg and McGuire, and the counter GUARD with which the program     *)
(* asserts it.  Each vload! and vstore! is a step; one processor.          *)
(***************************************************************************)
EXTENDS Integers

CONSTANTS THREAD_NUM,    \* threads, numbered from 0
          N              \* iterations of a thread

EisenbergConstants == THREAD_NUM \in Nat \ {0} /\ N \in Nat

VARIABLES FLAG, TURN, GUARD,
          pc,        \* where a thread is; "panic" after a failed assertion
          i,         \* its loop variable, modulo THREAD_NUM; next while it gives the turn
          conflict,  \* its local of that name
          iters      \* iterations it has finished

eisenbergVars == <<FLAG, TURN, GUARD, pc, i, conflict, iters>>

Ids == 0 .. THREAD_NUM - 1
After(k) == (k + 1) % THREAD_NUM

Init ==
    /\ FLAG = [id \in Ids |-> "Out"]
    /\ TURN = 0
    /\ GUARD = 0
    /\ pc = [id \in Ids |-> "out"]
    /\ i = [id \in Ids |-> 0]
    /\ conflict = [id \in Ids |-> FALSE]
    /\ iters = [id \in Ids |-> 0]

Goto(id, from, to) == pc[id] = from /\ pc' = [pc EXCEPT ![id] = to]

Want(id) ==
    /\ Goto(id, "want", "turn")
    /\ FLAG' = [FLAG EXCEPT ![id] = "Want"]
    /\ UNCHANGED <<TURN, GUARD, i, conflict, iters>>

LoadTurn(id) ==
    /\ Goto(id, "turn", IF TURN = id THEN "claim_in" ELSE "prior")
    /\ i' = [i EXCEPT ![id] = TURN]
    /\ UNCHANGED <<FLAG, TURN, GUARD, conflict, iters>>

(* One iteration of the search for a thread between the turn and this one; *)
(* when there is one the thread sleeps and reads the turn again.           *)
SearchPrior(id) ==
    /\ pc[id] = "prior"
    /\ \/ FLAG[i[id]] # "Out" /\ Goto(id, "prior", "turn") /\ i' = [i EXCEPT ![id] = 0]
       \/ /\ FLAG[i[id]] = "Out"
          /\ Goto(id, "prior", IF After(i[id]) = id THEN "claim_in" ELSE "prior")
          /\ i' = [i EXCEPT ![id] = After(i[id])]
    /\ UNCHANGED <<FLAG, TURN, GUARD, conflict, iters>>

ClaimIn(id) ==
    /\ Goto(id, "claim_in", "check")
    /\ FLAG' = [FLAG EXCEPT ![id] = "In"]
    /\ i' = [i EXCEPT ![id] = 0]
    /\ conflict' = [conflict EXCEPT ![id] = FALSE]
    /\ UNCHANGED <<TURN, GUARD, iters>>

(* Slip: the search for a conflict leaves out the last thread. *)
ChecksAllButOne(id) ==
    /\ pc[id] = "check"
    /\ LET c == conflict[id] \/ (i[id] # id /\ After(i[id]) # 0 /\ FLAG[i[id]] = "In") IN
       IF After(i[id]) # 0
       THEN conflict' = [conflict EXCEPT ![id] = c] /\ UNCHANGED pc
       ELSE /\ conflict' = [conflict EXCEPT ![id] = FALSE]
            /\ Goto(id, "check", IF c THEN "want" ELSE "take")
    /\ i' = [i EXCEPT ![id] = After(@)]
    /\ UNCHANGED <<FLAG, TURN, GUARD, iters>>

(* One iteration of the search for another thread that claims too; after   *)
(* the last one the thread goes in, or starts again from Want.             *)
CheckConflict(id) ==
    /\ pc[id] = "check"
    /\ LET c == conflict[id] \/ (i[id] # id /\ FLAG[i[id]] = "In") IN
       IF After(i[id]) # 0
       THEN conflict' = [conflict EXCEPT ![id] = c] /\ UNCHANGED pc
       ELSE /\ conflict' = [conflict EXCEPT ![id] = FALSE]
            /\ Goto(id, "check", IF c THEN "want" ELSE "take")
    /\ i' = [i EXCEPT ![id] = After(@)]
    /\ UNCHANGED <<FLAG, TURN, GUARD, iters>>

TakeTurn(id) ==
    /\ Goto(id, "take", "enter")
    /\ TURN' = id
    /\ UNCHANGED <<FLAG, GUARD, i, conflict, iters>>

eisenberg_enter_critical(id) ==
    Want(id) \/ LoadTurn(id) \/ SearchPrior(id) \/ ClaimIn(id) \/ CheckConflict(id) \/ TakeTurn(id)

(* GUARD.fetch_add; the three claims, of which the first two change        *)
(* nothing when they succeed and are no steps here; fetch_sub.             *)
Critical(id) ==
    /\ \/ Goto(id, "enter", IF GUARD = 0 THEN "claim" ELSE "panic") /\ GUARD' = GUARD + 1
       \/ Goto(id, "claim", IF GUARD = 1 THEN "leave" ELSE "panic") /\ UNCHANGED GUARD
       \/ Goto(id, "leave", IF GUARD = 1 THEN "exit" ELSE "panic") /\ GUARD' = GUARD - 1
    /\ i' = [i EXCEPT ![id] = IF pc[id] = "leave" THEN After(id) ELSE @]
    /\ UNCHANGED <<FLAG, TURN, conflict, iters>>

(* One iteration of the search for the next thread that wants in; without  *)
(* one the loop ends at this thread itself.                                *)
SearchAfter(id) ==
    /\ pc[id] = "exit"
    /\ IF i[id] = id \/ FLAG[i[id]] = "Want"
       THEN Goto(id, "exit", "give") /\ UNCHANGED i
       ELSE i' = [i EXCEPT ![id] = After(@)] /\ UNCHANGED pc
    /\ UNCHANGED <<FLAG, TURN, GUARD, conflict, iters>>

GiveTurn(id) ==
    /\ Goto(id, "give", "reset")
    /\ TURN' = i[id]
    /\ i' = [i EXCEPT ![id] = 0]
    /\ UNCHANGED <<FLAG, GUARD, conflict, iters>>

Reset(id) ==
    /\ Goto(id, "reset", "out")
    /\ FLAG' = [FLAG EXCEPT ![id] = "Out"]
    /\ iters' = [iters EXCEPT ![id] = @ + 1]
    /\ UNCHANGED <<TURN, GUARD, i, conflict>>

eisenberg_exit_critical(id) == SearchAfter(id) \/ GiveTurn(id) \/ Reset(id)

Iterate(id) ==
    /\ Goto(id, "out", IF iters[id] < N THEN "want" ELSE "exited")
    /\ UNCHANGED <<FLAG, TURN, GUARD, i, conflict, iters>>

thread_fn(id) ==
    eisenberg_enter_critical(id) \/ Critical(id) \/ eisenberg_exit_critical(id) \/ Iterate(id)

Spec == Init /\ [][\E id \in Ids : thread_fn(id)]_eisenbergVars

FairSpec == Spec /\ \A id \in Ids : WF_eisenbergVars(thread_fn(id))
-----------------------------------------------------------------------------
(* No assertion of the program fails: however the scans of FLAG interleave *)
(* with the threads that change it, a thread that saw no conflict is alone *)
(* until it gives the turn away.                                           *)
EisenbergExcludes ==
    /\ \A id \in Ids : pc[id] # "panic"
    /\ \A j, k \in Ids :
          pc[j] \in {"enter", "claim", "leave"} /\ pc[k] \in {"enter", "claim", "leave"} => j = k

(* The threads do not back off from each other for ever: every one gets    *)
(* through its iterations, so that main returns from every waittid.        *)
AllExited == \A id \in Ids : pc[id] = "exited"
AllExit == <>AllExited
=============================================================================
