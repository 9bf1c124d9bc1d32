------------------------------- MODULE MCSync -------------------------------
(***************************************************************************)
(* SyncPrims under four programs, one per behaviour: three threads that    *)
(* make any call at any time, and three programs of user/src/bin; and two  *)
(* programs that exclude each other with plain loads and stores.           *)
(***************************************************************************)
EXTENDS DiningPhilosophers, BarrierCondvar, MpscSem

CONSTANTS AnyThreads, AnyMutexes, AnyBlocking, AnySemaphore, AnyCondvar

VARIABLES program,
          flag, turn, guard, step,                        \* peterson
          FLAG, TURN, GUARD, pc, idx, conflict, iters       \* eisenberg

kernelVars == <<syncVars, philVars, barrierVars, mpscVars>>
petersonVars == <<flag, turn, guard, step>>
eisenbergVars == <<FLAG, TURN, GUARD, pc, idx, conflict, iters>>
storeVars == <<petersonVars, eisenbergVars>>
vars == <<kernelVars, storeVars, program>>

Pet == INSTANCE Peterson WITH FLAG <- flag, TURN <- turn, GUARD <- guard, pc <- step
Eis == INSTANCE Eisenberg WITH THREAD_NUM <- 3, N <- 2, i <- idx

ASSUME Eis!EisenbergConstants

MCForks == {<<i>> : i \in 0 .. N - 1}
MCMutexes == AnyMutexes \cup MCForks \cup {<<"mutex", b>> : b \in 1 .. Barriers}
MCBlocking == AnyBlocking \cup MCForks
MCCondvars == {AnyCondvar} \cup {<<"condvar", b>> : b \in 1 .. Barriers}
MCSemaphores == {AnySemaphore, SEM_MUTEX, SEM_EMPTY, SEM_AVAIL}
MCResCount == [s \in MCSemaphores |->
    CASE s = SEM_EMPTY -> BUFFER_SIZE [] s = SEM_AVAIL -> 0 [] OTHER -> 1]

Init ==
    /\ PhilInit /\ BarrierInit /\ MpscInit /\ Pet!PetersonInit /\ Eis!Init
    /\ program \in {"any", "phil_din_mutex", "barrier_condvar", "mpsc_sem", "peterson", "eisenberg"}

Anything(t) ==
    /\ program = "any"
    /\ Call(t, AnyMutexes, {AnySemaphore}, {AnyCondvar}) \/ Continue(t)
    /\ UNCHANGED <<philVars, barrierVars, mpscVars, storeVars, program>>

Philosopher(id) ==
    /\ program = "phil_din_mutex"
    /\ philosopher_dining_problem(id)
    /\ UNCHANGED <<barrierVars, mpscVars, storeVars, program>>

Barrier(t) ==
    /\ program = "barrier_condvar"
    /\ thread_fn(t)
    /\ UNCHANGED <<philVars, mpscVars, storeVars, program>>

Mpsc(t) ==
    /\ program = "mpsc_sem"
    /\ Program(t)
    /\ UNCHANGED <<philVars, barrierVars, storeVars, program>>

Peterson(id) ==
    /\ program = "peterson"
    /\ Pet!PetersonStep(id)
    /\ UNCHANGED <<kernelVars, eisenbergVars, program>>

Eisenberg(id) ==
    /\ program = "eisenberg"
    /\ Eis!thread_fn(id)
    /\ UNCHANGED <<kernelVars, petersonVars, program>>

UserProgram(t) ==
    \/ t \in Ids /\ Philosopher(t)
    \/ t \in BarrierThreads /\ Barrier(t)
    \/ t \in MpscThreads /\ Mpsc(t)
    \/ t \in Eis!Ids /\ Eisenberg(t)

Next ==
    \/ \E t \in AnyThreads : Anything(t)
    \/ \E t \in Threads : UserProgram(t)
    \/ \E id \in Pet!Ids : Peterson(id)

(* The scheduler starves no thread. *)
Spec == Init /\ [][Next]_vars /\ \A t \in Threads : WF_vars(UserProgram(t))
-----------------------------------------------------------------------------
(* The programs keep apart who must be apart, whatever the interleaving:   *)
(* nobody is past a barrier before everyone has reached it, and no         *)
(* assertion on GUARD fails in peterson and eisenberg.                     *)
ProgramsExclude == NobodyPassesEarly /\ Pet!PetersonExcludes /\ Eis!EisenbergExcludes

(* The ring of mpsc_sem delivers every number once and in order, and the   *)
(* programs finish: taking the smaller fork first no philosopher waits     *)
(* for ever, the chain of signals brings everyone past every barrier,      *)
(* producers and consumer never wait for each other, and the threads of    *)
(* eisenberg do not back off from each other for ever; so that main        *)
(* returns from every waittid.                                             *)
ProgramsFinish == ImplementsFifo /\
    []<>(/\ program = "phil_din_mutex" => Finished
         /\ program = "barrier_condvar" => AllPassed
         /\ program = "mpsc_sem" => AllPrinted
         /\ program = "eisenberg" => Eis!AllExited)
=============================================================================
