------------------------------ MODULE MpscSem ------------------------------
(***************************************************************************)
(* user/src/bin/mpsc_sem.rs: producers and one consumer share a ring       *)
(* buffer guarded by three semaphores.                                     *)
(***************************************************************************)
EXTENDS SyncPrims
LOCAL INSTANCE FiniteSetsExt

CONSTANTS Producers, Consumer,
          BUFFER_SIZE, NUMBER_PER_PRODUCER,
          SEM_MUTEX, SEM_EMPTY, SEM_AVAIL,
          NoId                 \* printed before anything is

MpscThreads == Producers \cup {Consumer}

ASSUME MpscAssumption ==
    /\ Consumer \notin Producers /\ MpscThreads \subseteq Threads
    /\ IsFiniteSet(Producers) /\ NoId \notin Producers
    /\ BUFFER_SIZE \in Nat \ {0} /\ NUMBER_PER_PRODUCER \in Nat
    /\ {SEM_MUTEX, SEM_EMPTY, SEM_AVAIL} \subseteq Semaphores
    /\ res_count[SEM_MUTEX] = 1 /\ res_count[SEM_EMPTY] = BUFFER_SIZE
    /\ res_count[SEM_AVAIL] = 0

VARIABLES BUFFER, FRONT, TAIL, place, done, printed

mpscVars == <<BUFFER, FRONT, TAIL, place, done, printed>>

Total == Cardinality(Producers) * NUMBER_PER_PRODUCER

MpscInit ==
    /\ SyncInit
    /\ BUFFER = [i \in 0 .. BUFFER_SIZE - 1 |-> NoId]
    /\ FRONT = 0 /\ TAIL = 0
    /\ place = [t \in MpscThreads |-> "first"]
    /\ done = [t \in MpscThreads |-> 0]
    /\ printed = NoId

MpscStep(t, from, to) == place[t] = from /\ place' = [place EXCEPT ![t] = to]

Limit(t) == IF t = Consumer THEN Total ELSE NUMBER_PER_PRODUCER

Waited(t) == IF t = Consumer THEN SEM_AVAIL ELSE SEM_EMPTY

Downs(t) == <<Waited(t), SEM_MUTEX>>

Raised(t) == IF t = Consumer THEN SEM_EMPTY ELSE SEM_AVAIL

DownFirst(t) ==
    /\ done[t] < Limit(t) /\ MpscStep(t, "first", "mutex")
    /\ sys_semaphore_down(t, Downs(t)[1])
    /\ UNCHANGED <<BUFFER, FRONT, TAIL, done, printed>>

DownMutex(t) ==
    /\ MpscStep(t, "mutex", "copy")
    /\ sys_semaphore_down(t, Downs(t)[2])
    /\ UNCHANGED <<BUFFER, FRONT, TAIL, done, printed>>

Slot(t) == IF t = Consumer THEN FRONT ELSE TAIL

(* The element is copied, then the index moves on. *)
Copy(t) ==
    /\ InUser(t) /\ MpscStep(t, "copy", "move")
    /\ IF t = Consumer
       THEN printed' = BUFFER[Slot(t)] /\ UNCHANGED BUFFER
       ELSE BUFFER' = [BUFFER EXCEPT ![Slot(t)] = t] /\ UNCHANGED printed
    /\ UNCHANGED <<syncVars, FRONT, TAIL, done>>

Move(t) ==
    /\ InUser(t) /\ MpscStep(t, "move", "up")
    /\ IF t = Consumer
       THEN FRONT' = (FRONT + 1) % BUFFER_SIZE /\ UNCHANGED TAIL
       ELSE TAIL' = (TAIL + 1) % BUFFER_SIZE /\ UNCHANGED FRONT
    /\ UNCHANGED <<syncVars, BUFFER, done, printed>>

UpMutex(t) ==
    /\ MpscStep(t, "up", "last")
    /\ sys_semaphore_up(t, SEM_MUTEX)
    /\ UNCHANGED <<BUFFER, FRONT, TAIL, done, printed>>

UpLast(t) ==
    /\ MpscStep(t, "last", "first")
    /\ sys_semaphore_up(t, Raised(t))
    /\ done' = [done EXCEPT ![t] = @ + 1]
    /\ UNCHANGED <<BUFFER, FRONT, TAIL, printed>>

Program(t) ==
    \/ DownFirst(t) \/ DownMutex(t) \/ Copy(t) \/ Move(t) \/ UpMutex(t) \/ UpLast(t)
    \/ Continue(t) /\ UNCHANGED mpscVars

AllPrinted == \A t \in MpscThreads : done[t] = Limit(t)
-----------------------------------------------------------------------------
(* The elements from FRONT to TAIL: those of finished copies that no       *)
(* finished copy of the consumer took.                                     *)
Stored ==
    LET copies(t) == done[t] + (IF place[t] \in {"move", "up", "last"} THEN 1 ELSE 0)
        held == MapThenSumSet(copies, Producers) - copies(Consumer)
        first == IF place[Consumer] = "move" THEN FRONT + 1 ELSE FRONT
    IN [i \in 1 .. held |-> BUFFER[(first + i - 1) % BUFFER_SIZE]]

(* The three semaphores make the ring a bounded FIFO: nothing is           *)
(* overwritten before it is printed, printed twice or out of order.        *)
Ring == INSTANCE BoundedFifo WITH Data <- Producers, Capacity <- BUFFER_SIZE,
                                  queue <- Stored, last <- printed

ImplementsFifo == Ring!Spec
=============================================================================
