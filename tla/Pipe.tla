-------------------------------- MODULE Pipe --------------------------------
(***************************************************************************)
(* An anonymous pipe (os/src/fs/pipe.rs) and the processes that share its  *)
(* two ends through fork.                                                  *)
(*                                                                         *)
(* A transfer takes the ring buffer's cell, moves bytes one at a time and  *)
(* gives the cell back when the call returns or the ring is exhausted; in  *)
(* between it gives up the processor and anything may happen.  A write in  *)
(* progress holds a clone of the write end, so another thread of the same  *)
(* process may close the descriptor under it.                              *)
(***************************************************************************)
EXTENDS Naturals, Sequences, FiniteSets

CONSTANTS Procs, Creator,     \* Creator called sys_pipe
          Bytes, NoByte, NoProc,
          RING_BUFFER_SIZE,
          Lens,               \* bound: the lengths of user buffers
          MaxWrites           \* bound: the number of sys_write calls

ASSUME PipeAssumption ==
    /\ Creator \in Procs /\ NoProc \notin Procs /\ NoByte \notin Bytes
    /\ RING_BUFFER_SIZE \in Nat \ {0} /\ Lens \subseteq Nat /\ MaxWrites \in Nat

VARIABLES arr, head, tail, status,    \* PipeRingBuffer
          cell,     \* who has exclusive access, and its bytes left in this turn
          state,    \* a process is "unborn", "live" or "dead"
          ends,     \* the ends a process has in its descriptor table
          call,     \* the transfer a process is in, and the bytes it still wants
          writes,   \* sys_write calls so far
          taken,    \* history: the byte read last
          eof       \* history: some read came back short

ring == <<arr, head, tail, status>>
vars == <<ring, cell, state, ends, call, writes, taken, eof>>

Unused == [proc |-> NoProc, left |-> 0]
NoCall == [op |-> "none", wants |-> 0]

(* make_pipe *)
Init ==
    /\ arr = [i \in 0 .. RING_BUFFER_SIZE - 1 |-> NoByte]
    /\ head = 0 /\ tail = 0 /\ status = "Empty"
    /\ cell = Unused
    /\ state = [p \in Procs |-> IF p = Creator THEN "live" ELSE "unborn"]
    /\ ends = [p \in Procs |-> IF p = Creator THEN {"read", "write"} ELSE {}]
    /\ call = [p \in Procs |-> NoCall]
    /\ writes = 0 /\ taken = NoByte /\ eof = FALSE
-----------------------------------------------------------------------------
write_byte(b) ==
    /\ arr' = [arr EXCEPT ![tail] = b]
    /\ tail' = (tail + 1) % RING_BUFFER_SIZE
    /\ status' = IF tail' = head THEN "Full" ELSE "Normal"
    /\ UNCHANGED head

read_byte ==
    /\ taken' = arr[head]
    /\ head' = (head + 1) % RING_BUFFER_SIZE
    /\ status' = IF head' = tail THEN "Empty" ELSE "Normal"
    /\ UNCHANGED <<arr, tail>>

available_read ==
    IF status = "Empty" THEN 0
    ELSE IF tail > head THEN tail - head
    ELSE tail + RING_BUFFER_SIZE - head

(* Slip: the full ring is told from the empty one by its indices. *)
available_write_ByIndex == IF head = tail THEN RING_BUFFER_SIZE
                           ELSE RING_BUFFER_SIZE - available_read

available_write ==
    IF status = "Full" THEN 0 ELSE RING_BUFFER_SIZE - available_read

(* Slip: the end of a write in progress is not counted. *)
all_write_ends_closed_ByTable == \A p \in Procs : "write" \notin ends[p]

(* The weak pointer has no strong one left: neither in a table nor in a    *)
(* write that is in progress.                                              *)
all_write_ends_closed ==
    \A p \in Procs : "write" \notin ends[p] /\ call[p].op # "write"
-----------------------------------------------------------------------------
Fork(p, q) ==
    /\ state[p] = "live" /\ state[q] = "unborn" /\ call[p] = NoCall /\ cell = Unused
    /\ state' = [state EXCEPT ![q] = "live"]
    /\ ends' = [ends EXCEPT ![q] = ends[p]]
    /\ UNCHANGED <<ring, cell, call, writes, taken, eof>>

sys_close(p, e) ==
    /\ e \in ends[p] /\ cell = Unused
    /\ ends' = [ends EXCEPT ![p] = @ \ {e}]
    /\ UNCHANGED <<ring, cell, state, call, writes, taken, eof>>

(* Slip: the descriptor table outlives the process. *)
Exit_KeepsEnds(p) ==
    /\ state[p] = "live" /\ call[p] = NoCall /\ cell = Unused
    /\ state' = [state EXCEPT ![p] = "dead"]
    /\ UNCHANGED <<ring, cell, ends, call, writes, taken, eof>>

Exit(p) ==
    /\ state[p] = "live" /\ call[p] = NoCall /\ cell = Unused
    /\ state' = [state EXCEPT ![p] = "dead"]
    /\ ends' = [ends EXCEPT ![p] = {}]
    /\ UNCHANGED <<ring, cell, call, writes, taken, eof>>

sys_read(p, len) ==
    /\ "read" \in ends[p] /\ call[p] = NoCall /\ cell = Unused
    /\ call' = [call EXCEPT ![p] = [op |-> "read", wants |-> len]]
    /\ UNCHANGED <<ring, cell, state, ends, writes, taken, eof>>

sys_write(p, len) ==
    /\ "write" \in ends[p] /\ call[p] = NoCall /\ cell = Unused /\ writes < MaxWrites
    /\ call' = [call EXCEPT ![p] = [op |-> "write", wants |-> len]]
    /\ writes' = writes + 1
    /\ UNCHANGED <<ring, cell, state, ends, taken, eof>>

(* A turn of the loop starts when there is something to move; otherwise    *)
(* the process yields and looks again.                                     *)
StartTurn(p) ==
    LET n == IF call[p].op = "read" THEN available_read ELSE available_write IN
    /\ call[p].op # "none" /\ cell = Unused /\ n > 0
    /\ cell' = [proc |-> p, left |-> n]
    /\ UNCHANGED <<ring, state, ends, call, writes, taken, eof>>

(* The read of an empty pipe that nobody can write to any more. *)
ReadEof(p) ==
    /\ call[p].op = "read" /\ cell = Unused /\ available_read = 0
    /\ all_write_ends_closed
    /\ call' = [call EXCEPT ![p] = NoCall]
    /\ eof' = (eof \/ call[p].wants > 0)
    /\ UNCHANGED <<ring, cell, state, ends, writes, taken>>

(* The user buffer had no room from the start. *)
EmptyBuffer(p) ==
    /\ cell.proc = p /\ call[p].wants = 0
    /\ call' = [call EXCEPT ![p] = NoCall]
    /\ cell' = Unused
    /\ UNCHANGED <<ring, state, ends, writes, taken, eof>>

(* One byte of the for loop; the call returns when it was the last one     *)
(* wanted, and the cell is dropped then or when the turn is over.          *)
MoveByte(p) ==
    /\ cell.proc = p /\ call[p].wants > 0
    /\ \/ call[p].op = "read" /\ read_byte
       \/ call[p].op = "write" /\ (\E b \in Bytes : write_byte(b)) /\ UNCHANGED taken
    /\ call' = [call EXCEPT ![p] = IF @.wants = 1 THEN NoCall
                                     ELSE [op |-> @.op, wants |-> @.wants - 1]]
    /\ cell' = IF call[p].wants = 1 \/ cell.left = 1
               THEN Unused ELSE [cell EXCEPT !.left = @ - 1]
    /\ UNCHANGED <<state, ends, writes, eof>>

Transfer(p) == StartTurn(p) \/ ReadEof(p) \/ EmptyBuffer(p) \/ MoveByte(p)

Next ==
    \E p \in Procs :
       \/ \E q \in Procs : Fork(p, q)
       \/ \E e \in {"read", "write"} : sys_close(p, e)
       \/ Exit(p)
       \/ \E len \in Lens : sys_read(p, len) \/ sys_write(p, len)
       \/ Transfer(p)

Spec == Init /\ [][Next]_vars

(* Nobody is starved inside a transfer, and programs end: each process     *)
(* that is not in a call for ever exits.                                   *)
FairSpec == Spec /\ \A p \in Procs : WF_vars(Transfer(p)) /\ SF_vars(Exit(p))
-----------------------------------------------------------------------------
(* Type invariant of the ring, its cell and the processes around it. *)
TypeOK ==
    /\ arr \in [0 .. RING_BUFFER_SIZE - 1 -> Bytes \cup {NoByte}]
    /\ head \in 0 .. RING_BUFFER_SIZE - 1 /\ tail \in 0 .. RING_BUFFER_SIZE - 1
    /\ status \in {"Empty", "Full", "Normal"}
    /\ cell \in [proc : Procs \cup {NoProc}, left : 0 .. RING_BUFFER_SIZE]
    /\ state \in [Procs -> {"unborn", "live", "dead"}]
    /\ ends \in [Procs -> SUBSET {"read", "write"}]
    /\ call \in [Procs -> [op : {"none", "read", "write"}, wants : Nat]]
    /\ writes \in 0 .. MaxWrites
    /\ taken \in Bytes \cup {NoByte}
    /\ eof \in BOOLEAN

(* The bytes from head to tail. *)
Contents == [i \in 1 .. available_read |-> arr[(head + i - 1) % RING_BUFFER_SIZE]]

Fifo == INSTANCE BoundedFifo WITH Data <- Bytes, Capacity <- RING_BUFFER_SIZE,
                                  queue <- Contents, last <- taken

(* Whatever the interleaving of partial reads and writes, the pipe is a    *)
(* bounded FIFO: every byte comes out once and in order.                   *)
ImplementsFifo == Fifo!Spec

(* End of file is final: once a read came back short every byte written    *)
(* has been read, nobody can write and nobody ever will.                   *)
EofIsFinal == TypeOK /\ (eof => available_read = 0 /\ all_write_ends_closed)

(* A reader that has closed its own write end gets its bytes or end of     *)
(* file, provided no other reader keeps one open.                          *)
ReaderServed(p) ==
    call[p].op # "read" \/ \E q \in Procs : call[q].op = "read" /\ "write" \in ends[q]
ReadersReturn == \A p \in Procs : []<>ReaderServed(p)
=============================================================================
