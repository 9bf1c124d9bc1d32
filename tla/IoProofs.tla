------------------------------ MODULE IoProofs ------------------------------
(***************************************************************************)
(* The pipe is a bounded FIFO and its end of file is final, for a ring of  *)
(* any size, any number of processes that share its ends and buffers of    *)
(* any length.                                                             *)
(*                                                                         *)
(* Sockets, their slots and their descriptors agree, connections go to the *)
(* accept in progress and messages stay in order, for any processes,       *)
(* ports, peers and bounds.                                                *)
(***************************************************************************)
EXTENDS Pipe, Net, Integers, FiniteSetTheorems, WellFoundedInduction, TLAPS

N == RING_BUFFER_SIZE

(* status tells the full ring from the empty one. *)
RingOK == status = "Normal" <=> head # tail

(* The process with the cell is in a transfer, and there is as much to     *)
(* read, or as much room to write, as the turn has left: nobody else moved *)
(* the indices since available_read or available_write was asked.          *)
CellOK == cell.proc # NoProc =>
    /\ cell.proc \in Procs /\ cell.left \in 1 .. N
    /\ call[cell.proc].op \in {"read", "write"}
    /\ call[cell.proc].op = "read" => cell.left <= available_read
    /\ call[cell.proc].op = "write" => cell.left <= available_write

(* What makes EofIsFinal inductive: a byte is written only by a process    *)
(* that is in a write, and read only while there is one.                   *)
IInv == TypeOK /\ RingOK /\ CellOK /\ EofIsFinal
-----------------------------------------------------------------------------
(* The size of the ring. *)
LEMMA RingSize == N \in Nat \ {0}
BY PipeAssumption DEF N

(* The index arithmetic of the ring. *)
Around(x) == x % N

(* It goes around at most once. *)
LEMMA AroundOnce ==
    ASSUME NEW x \in 0 .. 2 * N - 1
    PROVE  Around(x) = IF x < N THEN x ELSE x - N
<1>1. CASE x < N
  BY <1>1, RingSize DEF Around
<1>2. CASE x >= N
  BY <1>2, RingSize DEF Around
<1> QED
  BY <1>1, <1>2, RingSize

(* Sequences of the same length with the same elements. *)
LEMMA SameSequence ==
    ASSUME NEW S, NEW s \in Seq(S), NEW t \in Seq(S), Len(s) = Len(t),
           \A i \in 1 .. Len(s) : s[i] = t[i]
    PROVE  s = t
<1>1. s = [i \in 1 .. Len(s) |-> s[i]] /\ t = [i \in 1 .. Len(t) |-> t[i]]
  OBVIOUS
<1> QED
  BY <1>1, Zenon

(* A sequence that is another one and an element more. *)
LEMMA IsAppend ==
    ASSUME NEW S, NEW n \in Nat, NEW C \in [1 .. n -> S], NEW D \in [1 .. n + 1 -> S],
           \A i \in 1 .. n : D[i] = C[i]
    PROVE  D = Append(C, D[n + 1])
<1>1. C \in Seq(S) /\ Len(C) = n /\ D \in Seq(S) /\ Len(D) = n + 1 /\ D[n + 1] \in S
  OBVIOUS
<1>2. /\ Append(C, D[n + 1]) \in Seq(S) /\ Len(Append(C, D[n + 1])) = n + 1
      /\ \A i \in 1 .. n + 1 : Append(C, D[n + 1])[i] = IF i = n + 1 THEN D[n + 1] ELSE C[i]
  BY <1>1
<1>3. \A i \in 1 .. Len(D) : D[i] = Append(C, D[n + 1])[i]
  BY <1>1, <1>2
<1> QED
  BY <1>1, <1>2, <1>3, SameSequence

(* A sequence that is another one without its first element. *)
LEMMA IsTail ==
    ASSUME NEW S, NEW n \in Nat \ {0}, NEW C \in [1 .. n -> S], NEW D \in [1 .. n - 1 -> S],
           \A i \in 1 .. n - 1 : D[i] = C[i + 1]
    PROVE  C # << >> /\ Head(C) = C[1] /\ D = Tail(C)
<1>1. C \in Seq(S) /\ Len(C) = n /\ D \in Seq(S) /\ Len(D) = n - 1
  OBVIOUS
<1>2. C # << >> /\ Head(C) = C[1]
  BY <1>1
<1>3. /\ Tail(C) \in Seq(S) /\ Len(Tail(C)) = n - 1
      /\ \A i \in 1 .. n - 1 : Tail(C)[i] = C[i + 1]
  BY <1>1, <1>2
<1>4. \A i \in 1 .. Len(D) : D[i] = Tail(C)[i]
  BY <1>1, <1>3
<1> QED
  BY <1>1, <1>2, <1>3, <1>4, SameSequence

(* The number of bytes from head to tail. *)
LEMMA Available ==
    ASSUME IInv
    PROVE  /\ available_read \in 0 .. N
           /\ available_read = 0 <=> status = "Empty"
           /\ available_read = N <=> status = "Full"
           /\ available_write = N - available_read
           /\ tail = IF head + available_read < N THEN head + available_read
                     ELSE head + available_read - N
BY RingSize DEF IInv, TypeOK, RingOK, available_read, available_write, N

(* What is in the ring, as a sequence. *)
LEMMA ContentsType ==
    ASSUME IInv
    PROVE  available_read \in Nat /\ Contents \in [1 .. available_read -> Bytes \cup {NoByte}]
<1>1. /\ available_read \in 0 .. N /\ head \in 0 .. N - 1
      /\ arr \in [0 .. N - 1 -> Bytes \cup {NoByte}]
  BY Available DEF IInv, TypeOK, N
<1> SUFFICES ASSUME NEW i \in 1 .. available_read
             PROVE  arr[Around(head + i - 1)] \in Bytes \cup {NoByte}
  BY <1>1, RingSize DEF Contents, Around, N
<1>2. head + i - 1 \in 0 .. 2 * N - 1
  BY <1>1, RingSize
<1>3. Around(head + i - 1) \in 0 .. N - 1
  BY <1>1, <1>2, AroundOnce, RingSize
<1> QED
  BY <1>1, <1>3

(* write_byte puts the byte behind the others. *)
LEMMA WriteByte ==
    ASSUME IInv, NEW b \in Bytes, write_byte(b), available_write > 0
    PROVE  /\ arr' \in [0 .. N - 1 -> Bytes \cup {NoByte}]
           /\ head' \in 0 .. N - 1 /\ tail' \in 0 .. N - 1
           /\ status' \in {"Empty", "Full", "Normal"} /\ RingOK'
           /\ available_read' = available_read + 1
           /\ available_write' = available_write - 1
           /\ Contents' = Append(Contents, b)
<1>1. /\ available_read \in 0 .. N - 1 /\ available_write = N - available_read
      /\ tail = IF head + available_read < N THEN head + available_read
                ELSE head + available_read - N
  BY Available, RingSize
<1>2. /\ arr \in [0 .. N - 1 -> Bytes \cup {NoByte}] /\ head \in 0 .. N - 1 /\ tail \in 0 .. N - 1
      /\ status # "Full"
  BY Available, RingSize DEF IInv, TypeOK, N
<1>3. /\ arr' = [arr EXCEPT ![tail] = b] /\ head' = head
      /\ tail' = Around(tail + 1) /\ status' = IF tail' = head THEN "Full" ELSE "Normal"
  BY DEF write_byte, N, Around
<1>4. tail' = IF tail + 1 < N THEN tail + 1 ELSE tail + 1 - N
  <2>1. tail + 1 \in 0 .. 2 * N - 1
    BY <1>2, RingSize
  <2> QED
    BY <1>2, <1>3, <2>1, AroundOnce, RingSize
<1>5. tail' \in 0 .. N - 1 /\ RingOK' /\ status' \in {"Full", "Normal"}
  BY <1>2, <1>3, <1>4, RingSize DEF RingOK
<1>6. /\ available_read' = available_read + 1
      /\ available_write' = available_write - 1
  <2>1. available_read' = IF tail' > head THEN tail' - head ELSE tail' + N - head
    BY <1>3, <1>5 DEF available_read, N
  <2>2. available_read' = available_read + 1
    BY <1>1, <1>2, <1>4, <2>1, RingSize
  <2>3. available_write' = IF status' = "Full" THEN 0 ELSE N - available_read'
    BY DEF available_write, N
  <2>4. status' = "Full" => available_read' = N
    BY <1>2, <1>3, <2>1, RingSize
  <2> QED
    BY <1>1, <2>2, <2>3, <2>4, RingSize
<1>7. Contents' = Append(Contents, b)
  <2> DEFINE n == available_read
             D == [i \in 1 .. n + 1 |-> arr'[Around(head + i - 1)]]
  <2>1. Contents' = D
    BY <1>3, <1>6 DEF Contents, N, Around
  <2> HIDE DEF n
  <2>2. n \in Nat /\ n < N
    BY <1>1, RingSize DEF n
  <2>3. ASSUME NEW i \in 1 .. n PROVE D[i] = Contents[i]
    <3>1. head + i - 1 \in 0 .. 2 * N - 1 /\ i \in Int
      BY <1>2, <2>2, RingSize
    <3>2. Around(head + i - 1) = IF head + i - 1 < N THEN head + i - 1 ELSE head + i - 1 - N
      BY <1>2, <3>1, AroundOnce, RingSize
    <3>3. Around(head + i - 1) # tail /\ Around(head + i - 1) \in 0 .. N - 1
      BY <1>1, <1>2, <2>2, <3>1, <3>2, RingSize DEF n
    <3>4. Contents[i] = arr[Around(head + i - 1)]
      BY DEF Contents, Around, N, n
    <3> QED
      BY <1>2, <1>3, <2>2, <3>3, <3>4
  <2>4. D[n + 1] = b
    <3>1. head + (n + 1) - 1 \in 0 .. 2 * N - 1 /\ head + (n + 1) - 1 = head + n
      BY <1>2, <2>2, RingSize
    <3>2. Around(head + (n + 1) - 1) = tail
      BY <1>1, <1>2, <3>1, AroundOnce, RingSize DEF n
    <3> QED
      BY <1>2, <1>3, <2>2, <3>2
  <2>5. Contents \in [1 .. n -> Bytes \cup {NoByte}]
    BY ContentsType DEF n
  <2>6. D = [i \in 1 .. n + 1 |-> D[i]]
    OBVIOUS
  <2> HIDE DEF D
  <2>7. \A i \in 1 .. n + 1 : D[i] \in Bytes \cup {NoByte}
    BY <2>2, <2>3, <2>4, <2>5
  <2>8. D \in [1 .. n + 1 -> Bytes \cup {NoByte}]
    BY <2>6, <2>7
  <2>9. D = Append(Contents, D[n + 1])
    BY <2>2, <2>3, <2>5, <2>8, IsAppend
  <2> QED
    BY <2>1, <2>4, <2>9
<1> QED
  BY <1>2, <1>3, <1>5, <1>6, <1>7

(* read_byte takes the first byte. *)
LEMMA ReadByte ==
    ASSUME IInv, read_byte, available_read > 0
    PROVE  /\ taken' \in Bytes \cup {NoByte} /\ arr' = arr
           /\ head' \in 0 .. N - 1 /\ tail' \in 0 .. N - 1
           /\ status' \in {"Empty", "Full", "Normal"} /\ RingOK'
           /\ available_read' = available_read - 1
           /\ available_write' = available_write + 1
           /\ Contents # << >> /\ taken' = Head(Contents) /\ Contents' = Tail(Contents)
<1>1. /\ available_read \in 1 .. N /\ available_write = N - available_read
      /\ tail = IF head + available_read < N THEN head + available_read
                ELSE head + available_read - N
  BY Available, RingSize
<1>2. /\ arr \in [0 .. N - 1 -> Bytes \cup {NoByte}] /\ head \in 0 .. N - 1 /\ tail \in 0 .. N - 1
  BY DEF IInv, TypeOK, N
<1>3. /\ taken' = arr[head] /\ arr' = arr /\ tail' = tail
      /\ head' = Around(head + 1) /\ status' = IF head' = tail THEN "Empty" ELSE "Normal"
  BY DEF read_byte, N, Around
<1>4. head' = IF head + 1 < N THEN head + 1 ELSE head + 1 - N
  <2>1. head + 1 \in 0 .. 2 * N - 1
    BY <1>2, RingSize
  <2> QED
    BY <1>2, <1>3, <2>1, AroundOnce, RingSize
<1>5. head' \in 0 .. N - 1 /\ RingOK' /\ status' \in {"Empty", "Normal"}
  BY <1>2, <1>3, <1>4, RingSize DEF RingOK
<1>6. /\ available_read' = available_read - 1
      /\ available_write' = available_write + 1
  <2>1. available_read' = IF status' = "Empty" THEN 0
                          ELSE IF tail > head' THEN tail - head' ELSE tail + N - head'
    BY <1>3 DEF available_read, N
  <2>2. available_read' = available_read - 1
    BY <1>1, <1>2, <1>3, <1>4, <2>1, RingSize
  <2>3. available_write' = N - available_read'
    BY <1>5 DEF available_write, N
  <2> QED
    BY <1>1, <2>2, <2>3, RingSize
<1>7. Contents # << >> /\ taken' = Head(Contents) /\ Contents' = Tail(Contents)
  <2> DEFINE n == available_read
             h == head'
             D == [i \in 1 .. n - 1 |-> arr[Around(h + i - 1)]]
  <2>1. Contents' = D
    BY <1>3, <1>6 DEF Contents, N, Around
  <2>a. h \in 0 .. N - 1 /\ h = IF head + 1 < N THEN head + 1 ELSE head + 1 - N
    BY <1>4, <1>5
  <2> HIDE DEF n, h
  <2>2. n \in Nat /\ n > 0 /\ n <= N
    BY <1>1, RingSize DEF n
  <2>3. ASSUME NEW i \in 1 .. n PROVE Contents[i] = arr[Around(head + i - 1)]
    BY DEF Contents, Around, N, n
  <2>4. ASSUME NEW i \in 1 .. n - 1 PROVE D[i] = Contents[i + 1]
    <3>1. i \in Int /\ i >= 1 /\ i <= n - 1 /\ i + 1 \in 1 .. n
      BY <2>2
    <3>2. head + (i + 1) - 1 \in 0 .. 2 * N - 1 /\ h + i - 1 \in 0 .. 2 * N - 1
      BY <1>2, <2>2, <2>a, <3>1, RingSize
    <3>3. Around(head + (i + 1) - 1) = IF head + (i + 1) - 1 < N THEN head + (i + 1) - 1
                                       ELSE head + (i + 1) - 1 - N
      BY <1>2, <3>1, <3>2, AroundOnce, RingSize
    <3>4. Around(h + i - 1) = IF h + i - 1 < N THEN h + i - 1 ELSE h + i - 1 - N
      BY <2>a, <3>1, <3>2, AroundOnce, RingSize
    <3>5. Around(h + i - 1) = Around(head + (i + 1) - 1)
      BY <1>2, <2>2, <2>a, <3>1, <3>3, <3>4, RingSize
    <3> QED
      BY <2>3, <3>1, <3>5
  <2>5. Contents[1] = arr[head]
    <3>1. head + 1 - 1 \in 0 .. 2 * N - 1 /\ head + 1 - 1 = head /\ 1 \in 1 .. n
      BY <1>2, <2>2, RingSize
    <3>2. Around(head + 1 - 1) = head
      BY <1>2, <3>1, AroundOnce, RingSize
    <3> QED
      BY <2>3, <3>1, <3>2
  <2>6. Contents \in [1 .. n -> Bytes \cup {NoByte}]
    BY ContentsType DEF n
  <2>7. D = [i \in 1 .. n - 1 |-> D[i]]
    OBVIOUS
  <2> HIDE DEF D
  <2>8. \A i \in 1 .. n - 1 : D[i] \in Bytes \cup {NoByte}
    BY <2>2, <2>4, <2>6
  <2>9. D \in [1 .. n - 1 -> Bytes \cup {NoByte}]
    BY <2>7, <2>8
  <2>10. Contents # << >> /\ Head(Contents) = Contents[1] /\ D = Tail(Contents)
    BY <2>2, <2>4, <2>6, <2>9, IsTail
  <2> QED
    BY <1>3, <2>1, <2>5, <2>10
<1> QED
  BY <1>2, <1>3, <1>5, <1>6, <1>7
-----------------------------------------------------------------------------
(* A step that leaves the ring alone. *)
LEMMA RingKept ==
    ASSUME UNCHANGED ring
    PROVE  /\ available_read' = available_read /\ available_write' = available_write
           /\ Contents' = Contents /\ (RingOK => RingOK')
BY DEF ring, available_read, available_write, Contents, RingOK

(* The types of the fields of a state. *)
Types(ce, st, en, ca, wr, ta, eo) ==
    /\ ce \in [proc : Procs \cup {NoProc}, left : 0 .. RING_BUFFER_SIZE]
    /\ st \in [Procs -> {"unborn", "live", "dead"}]
    /\ en \in [Procs -> SUBSET {"read", "write"}]
    /\ ca \in [Procs -> [op : {"none", "read", "write"}, wants : Nat]]
    /\ wr \in 0 .. MaxWrites /\ ta \in Bytes \cup {NoByte} /\ eo \in BOOLEAN

(* A step that leaves the ring alone and after which no cell is taken that *)
(* was free keeps the invariant if it lets nobody write after end of file. *)
LEMMA QuietStep ==
    ASSUME IInv, UNCHANGED ring, Types(cell', state', ends', call', writes', taken', eof'),
           cell'.proc = NoProc,
           eof' => available_read = 0 /\ all_write_ends_closed'
    PROVE  IInv'
<1>1. available_read' = available_read /\ RingOK'
  BY RingKept DEF IInv
<1>2. TypeOK'
  BY DEF IInv, TypeOK, Types, ring
<1>3. CellOK'
  BY DEF CellOK
<1>4. EofIsFinal'
  BY <1>1, <1>2 DEF EofIsFinal
<1> QED
  BY <1>1, <1>2, <1>3, <1>4 DEF IInv

(* The invariant as facts about the fields. *)
LEMMA Fields ==
    ASSUME IInv
    PROVE  /\ Types(cell, state, ends, call, writes, taken, eof)
           /\ eof => available_read = 0 /\ all_write_ends_closed
           /\ NoProc \notin Procs /\ Unused.proc = NoProc
           /\ Unused \in [proc : Procs \cup {NoProc}, left : 0 .. RING_BUFFER_SIZE]
           /\ NoCall \in [op : {"none", "read", "write"}, wants : Nat] /\ NoCall.op = "none"
BY PipeAssumption DEF IInv, TypeOK, Types, EofIsFinal, Unused, NoCall

(* Fork, close, exit and the start of a call. *)
LEMMA CallsKeep ==
    ASSUME IInv, NEW p \in Procs,
           \/ \E q \in Procs : Fork(p, q)
           \/ \E e \in {"read", "write"} : sys_close(p, e)
           \/ Exit(p)
           \/ \E len \in Lens : sys_read(p, len) \/ sys_write(p, len)
    PROVE  IInv'
<1>0. /\ Types(cell, state, ends, call, writes, taken, eof)
      /\ eof => available_read = 0 /\ all_write_ends_closed
      /\ NoProc \notin Procs /\ Unused.proc = NoProc
  BY Fields
<1>1. ASSUME NEW q \in Procs, Fork(p, q) PROVE IInv'
  <2>1. /\ cell = Unused /\ cell' = cell /\ UNCHANGED ring /\ call' = call /\ eof' = eof
        /\ ends' = [ends EXCEPT ![q] = ends[p]] /\ state' = [state EXCEPT ![q] = "live"]
        /\ writes' = writes /\ taken' = taken
    BY <1>1 DEF Fork
  <2>2. Types(cell', state', ends', call', writes', taken', eof')
    BY <1>0, <2>1 DEF Types
  <2>3. all_write_ends_closed => all_write_ends_closed'
    BY <1>0, <2>1 DEF Types, all_write_ends_closed
  <2> QED
    BY <1>0, <2>1, <2>2, <2>3, QuietStep
<1>2. ASSUME NEW e \in {"read", "write"}, sys_close(p, e) PROVE IInv'
  <2>1. /\ cell = Unused /\ cell' = cell /\ UNCHANGED ring /\ call' = call /\ eof' = eof
        /\ ends' = [ends EXCEPT ![p] = @ \ {e}] /\ state' = state
        /\ writes' = writes /\ taken' = taken
    BY <1>2 DEF sys_close
  <2>2. Types(cell', state', ends', call', writes', taken', eof')
    BY <1>0, <2>1 DEF Types
  <2>3. all_write_ends_closed => all_write_ends_closed'
    BY <1>0, <2>1 DEF Types, all_write_ends_closed
  <2> QED
    BY <1>0, <2>1, <2>2, <2>3, QuietStep
<1>3. CASE Exit(p)
  <2>1. /\ cell = Unused /\ cell' = cell /\ UNCHANGED ring /\ call' = call /\ eof' = eof
        /\ ends' = [ends EXCEPT ![p] = {}] /\ state' = [state EXCEPT ![p] = "dead"]
        /\ writes' = writes /\ taken' = taken
    BY <1>3 DEF Exit
  <2>2. Types(cell', state', ends', call', writes', taken', eof')
    BY <1>0, <2>1 DEF Types
  <2>3. all_write_ends_closed => all_write_ends_closed'
    BY <1>0, <2>1 DEF Types, all_write_ends_closed
  <2> QED
    BY <1>0, <2>1, <2>2, <2>3, QuietStep
<1>4. ASSUME NEW len \in Lens, sys_read(p, len) \/ sys_write(p, len) PROVE IInv'
  <2>1. PICK k \in {"read", "write"} :
           /\ call' = [call EXCEPT ![p] = [op |-> k, wants |-> len]]
           /\ k \in ends[p] /\ writes' \in 0 .. MaxWrites
    <3>1. writes \in 0 .. MaxWrites /\ MaxWrites \in Nat
      BY <1>0, PipeAssumption DEF Types
    <3>2. CASE sys_read(p, len)
      BY <3>1, <3>2 DEF sys_read
    <3>3. CASE sys_write(p, len)
      <4>1. writes < MaxWrites /\ writes' = writes + 1
        BY <3>3 DEF sys_write
      <4>2. writes' \in 0 .. MaxWrites
        BY <3>1, <4>1
      <4> QED
        BY <3>3, <4>2 DEF sys_write
    <3> QED
      BY <1>4, <3>2, <3>3
  <2>2. /\ cell = Unused /\ cell' = cell /\ UNCHANGED ring /\ ends' = ends /\ eof' = eof
        /\ state' = state /\ taken' = taken
    BY <1>4 DEF sys_read, sys_write
  <2>3. len \in Nat
    BY PipeAssumption
  <2>4. Types(cell', state', ends', call', writes', taken', eof')
    BY <1>0, <2>1, <2>2, <2>3 DEF Types
  <2>5. all_write_ends_closed => all_write_ends_closed'
    BY <1>0, <2>1, <2>2 DEF Types, all_write_ends_closed
  <2> QED
    BY <1>0, <2>2, <2>4, <2>5, QuietStep
<1> QED
  BY <1>1, <1>2, <1>3, <1>4

(* A turn starts with what there is. *)
LEMMA StartTurnKeeps ==
    ASSUME IInv, NEW p \in Procs, StartTurn(p)
    PROVE  IInv'
<1> DEFINE n == IF call[p].op = "read" THEN available_read ELSE available_write
<1>0. /\ Types(cell, state, ends, call, writes, taken, eof)
      /\ eof => available_read = 0 /\ all_write_ends_closed
  BY Fields
<1>1. /\ call[p].op # "none" /\ n > 0 /\ cell' = [proc |-> p, left |-> n]
      /\ UNCHANGED ring /\ state' = state /\ ends' = ends /\ call' = call /\ writes' = writes
      /\ taken' = taken /\ eof' = eof
  BY DEF StartTurn
<1>2. n \in 1 .. N /\ call[p].op \in {"read", "write"}
  <2>1. available_read \in 0 .. N /\ available_write = N - available_read
    BY Available
  <2>2. call[p].op \in {"read", "write"}
    BY <1>0, <1>1 DEF Types
  <2> QED
    BY <1>1, <2>1, <2>2, RingSize
<1>3. /\ available_read' = available_read /\ available_write' = available_write /\ RingOK'
  BY <1>1, RingKept DEF IInv
<1>4. TypeOK'
  BY <1>0, <1>1, <1>2, RingSize DEF IInv, TypeOK, Types, ring, N
<1>5. CellOK'
  <2>1. /\ call[p].op = "read" => n <= available_read
        /\ call[p].op = "write" => n <= available_write
    <3>1. available_read \in 0 .. N /\ available_write = N - available_read
      BY Available
    <3> QED
      BY <3>1, RingSize
  <2> HIDE DEF n
  <2> QED
    BY <1>1, <1>2, <1>3, <2>1 DEF CellOK
<1>6. all_write_ends_closed => all_write_ends_closed'
  BY <1>1 DEF all_write_ends_closed
<1>7. EofIsFinal'
  BY <1>0, <1>1, <1>3, <1>4, <1>6 DEF EofIsFinal
<1> QED
  BY <1>3, <1>4, <1>5, <1>7 DEF IInv

(* End of file, and a transfer of nothing. *)
LEMMA ReturnsKeep ==
    ASSUME IInv, NEW p \in Procs, ReadEof(p) \/ EmptyBuffer(p)
    PROVE  IInv'
<1>0. /\ Types(cell, state, ends, call, writes, taken, eof)
      /\ eof => available_read = 0 /\ all_write_ends_closed
      /\ NoProc \notin Procs /\ Unused.proc = NoProc
      /\ Unused \in [proc : Procs \cup {NoProc}, left : 0 .. RING_BUFFER_SIZE]
      /\ NoCall \in [op : {"none", "read", "write"}, wants : Nat] /\ NoCall.op = "none"
  BY Fields
<1>1. /\ cell' = Unused /\ UNCHANGED ring /\ state' = state /\ ends' = ends /\ writes' = writes
      /\ taken' = taken /\ call' = [call EXCEPT ![p] = NoCall]
      /\ eof' \in BOOLEAN /\ (eof' => eof \/ (available_read = 0 /\ all_write_ends_closed))
  <2>1. eof \in BOOLEAN
    BY <1>0 DEF Types
  <2>2. CASE EmptyBuffer(p)
    BY <2>1, <2>2 DEF EmptyBuffer
  <2>3. CASE ReadEof(p)
    <3>1. /\ cell = Unused /\ cell' = cell /\ available_read = 0 /\ all_write_ends_closed
          /\ eof' = (eof \/ call[p].wants > 0)
      BY <2>3 DEF ReadEof
    <3> QED
      BY <2>1, <2>3, <3>1 DEF ReadEof
  <2> QED
    BY <2>2, <2>3
<1>2. Types(cell', state', ends', call', writes', taken', eof')
  BY <1>0, <1>1 DEF Types
<1>3. all_write_ends_closed => all_write_ends_closed'
  BY <1>0, <1>1 DEF Types, all_write_ends_closed
<1> QED
  BY <1>0, <1>1, <1>2, <1>3, QuietStep

(* What a step of the loop does to the ring: a byte is put or taken. *)
Moves ==
    \/ \E b \in Bytes : /\ available_read < N /\ Contents' = Append(Contents, b)
                        /\ taken' = taken
    \/ Contents # << >> /\ taken' = Head(Contents) /\ Contents' = Tail(Contents)

(* One byte, after which the turn goes on with one less, or is over. *)
LEMMA MoveByteKeeps ==
    ASSUME IInv, NEW p \in Procs, MoveByte(p)
    PROVE  IInv' /\ Moves
<1> DEFINE r == call[p]
<1>0. /\ Types(cell, state, ends, call, writes, taken, eof)
      /\ eof => available_read = 0 /\ all_write_ends_closed
      /\ NoProc \notin Procs /\ Unused.proc = NoProc
      /\ Unused \in [proc : Procs \cup {NoProc}, left : 0 .. RING_BUFFER_SIZE]
      /\ NoCall \in [op : {"none", "read", "write"}, wants : Nat] /\ NoCall.op = "none"
  BY Fields
<1>1. /\ cell.proc = p /\ r.wants > 0
      /\ \/ r.op = "read" /\ read_byte
         \/ r.op = "write" /\ (\E b \in Bytes : write_byte(b)) /\ taken' = taken
      /\ call' = [call EXCEPT ![p] = IF r.wants = 1 THEN NoCall
                                     ELSE [op |-> r.op, wants |-> r.wants - 1]]
      /\ cell' = IF r.wants = 1 \/ cell.left = 1
                 THEN Unused ELSE [cell EXCEPT !.left = cell.left - 1]
      /\ state' = state /\ ends' = ends /\ writes' = writes /\ eof' = eof
  <2>1. /\ cell.proc = p /\ r.wants > 0
        /\ state' = state /\ ends' = ends /\ writes' = writes /\ eof' = eof
    BY DEF MoveByte
  <2>2. \/ r.op = "read" /\ read_byte
        \/ r.op = "write" /\ (\E b \in Bytes : write_byte(b)) /\ taken' = taken
    BY DEF MoveByte
  <2>3. call' = [call EXCEPT ![p] = IF r.wants = 1 THEN NoCall
                                    ELSE [op |-> r.op, wants |-> r.wants - 1]]
    BY DEF MoveByte
  <2>4. cell' = IF r.wants = 1 \/ cell.left = 1
                THEN Unused ELSE [cell EXCEPT !.left = cell.left - 1]
    BY DEF MoveByte
  <2> QED
    BY <2>1, <2>2, <2>3, <2>4
<1>2. /\ cell.left \in 1 .. N /\ r.op \in {"read", "write"}
      /\ r.op = "read" => cell.left <= available_read
      /\ r.op = "write" => cell.left <= available_write
  BY <1>0, <1>1 DEF IInv, CellOK
<1>3. /\ available_read \in 0 .. N /\ available_write = N - available_read
  BY Available
<1>4. r \in [op : {"none", "read", "write"}, wants : Nat] /\ r.wants \in Nat
  BY <1>0 DEF Types
<1>5. /\ arr' \in [0 .. N - 1 -> Bytes \cup {NoByte}]
      /\ head' \in 0 .. N - 1 /\ tail' \in 0 .. N - 1
      /\ status' \in {"Empty", "Full", "Normal"} /\ RingOK'
      /\ taken' \in Bytes \cup {NoByte}
      /\ r.op = "read" => available_read' = available_read - 1
      /\ r.op = "write" => available_write' = available_write - 1
      /\ Moves
  <2>1. CASE r.op = "read"
    <3>1. read_byte /\ available_read > 0
      BY <1>1, <1>2, <1>3, <2>1, RingSize
    <3>2. arr \in [0 .. N - 1 -> Bytes \cup {NoByte}]
      BY DEF IInv, TypeOK, N
    <3>3. /\ taken' \in Bytes \cup {NoByte} /\ arr' = arr
          /\ head' \in 0 .. N - 1 /\ tail' \in 0 .. N - 1
          /\ status' \in {"Empty", "Full", "Normal"} /\ RingOK'
          /\ available_read' = available_read - 1
          /\ Contents # << >> /\ taken' = Head(Contents) /\ Contents' = Tail(Contents)
      BY <3>1, ReadByte
    <3> QED
      BY <2>1, <3>2, <3>3 DEF Moves
  <2>2. CASE r.op = "write"
    <3>1. PICK b \in Bytes : write_byte(b)
      BY <1>1, <2>2
    <3>2. available_write > 0 /\ available_read < N /\ taken' = taken
          /\ taken \in Bytes \cup {NoByte}
      BY <1>0, <1>1, <1>2, <1>3, <2>2, RingSize DEF Types
    <3>3. /\ arr' \in [0 .. N - 1 -> Bytes \cup {NoByte}]
          /\ head' \in 0 .. N - 1 /\ tail' \in 0 .. N - 1
          /\ status' \in {"Empty", "Full", "Normal"} /\ RingOK'
          /\ available_write' = available_write - 1
          /\ Contents' = Append(Contents, b)
      BY <3>1, <3>2, WriteByte
    <3> QED
      BY <2>2, <3>2, <3>3 DEF Moves
  <2> QED
    BY <1>2, <2>1, <2>2
<1>6. /\ call' \in [Procs -> [op : {"none", "read", "write"}, wants : Nat]]
      /\ \A q \in Procs \ {p} : call'[q] = call[q]
      /\ r.wants # 1 => call'[p].op = r.op
      /\ call'[p].op \in {"none", r.op}
  <2> DEFINE c == IF r.wants = 1 THEN NoCall ELSE [op |-> r.op, wants |-> r.wants - 1]
  <2>1. c \in [op : {"none", "read", "write"}, wants : Nat] /\ (r.wants # 1 => c.op = r.op)
        /\ c.op \in {"none", r.op}
    <3>1. r.wants # 1 => r.wants - 1 \in Nat
      BY <1>1, <1>4
    <3> QED
      BY <1>0, <1>4, <3>1
  <2>2. call' = [call EXCEPT ![p] = c] /\ call \in [Procs -> [op : {"none", "read", "write"}, wants : Nat]]
    BY <1>0, <1>1 DEF Types
  <2> HIDE DEF c
  <2> QED
    BY <2>1, <2>2
<1>7. \/ cell' = Unused
      \/ /\ r.wants # 1 /\ cell.left - 1 \in 1 .. N /\ cell'.proc = p /\ cell'.left = cell.left - 1
         /\ cell' \in [proc : Procs \cup {NoProc}, left : 0 .. N]
  <2>1. cell \in [proc : Procs \cup {NoProc}, left : 0 .. N]
    BY <1>0 DEF Types, N
  <2>2. cell.left # 1 => cell.left - 1 \in 1 .. N
    BY <1>2, RingSize
  <2> QED
    BY <1>1, <2>1, <2>2
<1> HIDE DEF r
<1>8. TypeOK'
  <2>1. cell' \in [proc : Procs \cup {NoProc}, left : 0 .. N]
    BY <1>0, <1>7 DEF N
  <2> QED
    BY <1>0, <1>1, <1>5, <1>6, <2>1 DEF TypeOK, Types, N
<1>9. CellOK'
  <2>1. CASE cell' = Unused
    BY <1>0, <2>1 DEF CellOK
  <2>2. CASE cell' # Unused
    <3>1. r.wants # 1 /\ cell.left - 1 \in 1 .. N /\ cell'.proc = p /\ cell'.left = cell.left - 1
      BY <1>7, <2>2
    <3>2. call'[p].op = r.op
      BY <1>6, <3>1
    <3>3. /\ r.op = "read" => cell.left - 1 <= available_read'
          /\ r.op = "write" => cell.left - 1 <= available_write'
      BY <1>2, <1>3, <1>5, RingSize
    <3> QED
      BY <1>2, <3>1, <3>2, <3>3 DEF CellOK
  <2> QED
    BY <2>1, <2>2
<1>10. ~eof
  <2> SUFFICES ASSUME eof PROVE FALSE
    OBVIOUS
  <2>1. available_read = 0 /\ r.op # "write"
    BY <1>0 DEF all_write_ends_closed, r
  <2> QED
    BY <1>2, <2>1, RingSize
<1>11. EofIsFinal'
  BY <1>1, <1>8, <1>10 DEF EofIsFinal
<1> QED
  BY <1>5, <1>8, <1>9, <1>11 DEF IInv

(* Every step keeps the invariant. *)
LEMMA NextKeeps ==
    ASSUME IInv, [Next]_vars
    PROVE  IInv'
<1>1. CASE UNCHANGED vars
  <2>1. available_read' = available_read /\ available_write' = available_write /\ RingOK'
    BY <1>1, RingKept DEF vars, IInv
  <2>2. TypeOK'
    BY <1>1 DEF vars, ring, IInv, TypeOK
  <2>3. CellOK'
    BY <1>1, <2>1 DEF vars, IInv, CellOK
  <2>4. EofIsFinal'
    BY <1>1, <2>1, <2>2 DEF vars, IInv, EofIsFinal, all_write_ends_closed
  <2> QED
    BY <2>1, <2>2, <2>3, <2>4 DEF IInv
<1>2. ASSUME NEW p \in Procs, Transfer(p) PROVE IInv'
  BY <1>2, StartTurnKeeps, ReturnsKeep, MoveByteKeeps DEF Transfer
<1> QED
  BY <1>1, <1>2, CallsKeep DEF Next

(* At the start the ring is empty and nobody is in a call. *)
LEMMA InitHolds ==
    ASSUME Init
    PROVE  IInv
<1>1. TypeOK
  <2>1. N \in Nat \ {0} /\ MaxWrites \in Nat /\ Creator \in Procs
    BY PipeAssumption DEF N
  <2>2. arr \in [0 .. N - 1 -> Bytes \cup {NoByte}]
    BY DEF Init, N
  <2>3. head \in 0 .. N - 1 /\ tail \in 0 .. N - 1 /\ writes \in 0 .. MaxWrites
    BY <2>1 DEF Init
  <2>4. cell \in [proc : Procs \cup {NoProc}, left : 0 .. N]
    BY <2>1 DEF Init, Unused
  <2>5. /\ call \in [Procs -> [op : {"none", "read", "write"}, wants : Nat]]
        /\ state \in [Procs -> {"unborn", "live", "dead"}]
        /\ ends \in [Procs -> SUBSET {"read", "write"}]
    BY DEF Init, NoCall
  <2> QED
    BY <2>2, <2>3, <2>4, <2>5 DEF Init, TypeOK, N
<1>2. RingOK /\ CellOK
  BY DEF Init, RingOK, CellOK, Unused
<1>3. EofIsFinal
  BY <1>1 DEF Init, EofIsFinal
<1> QED
  BY <1>1, <1>2, <1>3 DEF IInv

(* End of file is final: once a read has come back short, every byte that  *)
(* was written has been read, no write end is open, neither in a table nor *)
(* in a write in progress, and so it stays whatever is forked, closed or   *)
(* still in transfer.                                                      *)
THEOREM EndOfFileIsFinal == Spec => []EofIsFinal
<1>1. Init => IInv
  BY InitHolds
<1>2. IInv /\ [Next]_vars => IInv'
  BY NextKeeps
<1>3. IInv => EofIsFinal
  BY DEF IInv
<1> QED
  BY <1>1, <1>2, <1>3, PTL DEF Spec

(* Every step of the pipe puts a byte, takes one or does neither. *)
LEMMA NextMoves ==
    ASSUME IInv, [Next]_vars
    PROVE  Moves \/ (Contents' = Contents /\ taken' = taken)
<1>1. CASE UNCHANGED vars
  BY <1>1, RingKept DEF vars
<1>2. ASSUME NEW p \in Procs, MoveByte(p) PROVE Moves
  BY <1>2, MoveByteKeeps
<1>3. ASSUME NEW p \in Procs,
             \/ \E q \in Procs : Fork(p, q)
             \/ \E e \in {"read", "write"} : sys_close(p, e)
             \/ Exit(p)
             \/ \E len \in Lens : sys_read(p, len) \/ sys_write(p, len)
             \/ StartTurn(p) \/ ReadEof(p) \/ EmptyBuffer(p)
      PROVE  UNCHANGED <<ring, taken>>
  BY <1>3 DEF Fork, sys_close, Exit, sys_read, sys_write, StartTurn, ReadEof, EmptyBuffer
<1> QED
  BY <1>1, <1>2, <1>3, RingKept DEF Next, Transfer

(* The pipe is a bounded FIFO, whatever the size of the ring and however   *)
(* partial reads and writes of many processes interleave: every byte comes *)
(* out once, in the order in which it went in, and never more than the     *)
(* ring holds are in between.                                              *)
THEOREM PipeIsFifo == Spec => ImplementsFifo
<1>1. Init => IInv /\ Fifo!Init
  <2> SUFFICES ASSUME Init PROVE Contents = << >> /\ taken \notin Bytes
    BY InitHolds DEF Fifo!Init
  <2>1. available_read = 0
    BY DEF Init, available_read
  <2>2. taken \notin Bytes
    BY PipeAssumption DEF Init
  <2> QED
    BY <2>1, <2>2 DEF Contents
<1>2. IInv /\ [Next]_vars => IInv'
  BY NextKeeps
<1>3. IInv /\ [Next]_vars => [Fifo!Next]_(Fifo!vars)
  <2> SUFFICES ASSUME IInv, [Next]_vars PROVE Fifo!Next \/ Fifo!vars' = Fifo!vars
    OBVIOUS
  <2>1. Contents \in Seq(Bytes \cup {NoByte}) /\ Len(Contents) = available_read
    BY ContentsType
  <2>2. CASE Moves
    <3>1. ASSUME NEW b \in Bytes, available_read < N, Contents' = Append(Contents, b),
                 taken' = taken
          PROVE  Fifo!Next
      BY <2>1, <3>1 DEF Fifo!Next, Fifo!Put, N
    <3>2. CASE Contents # << >> /\ taken' = Head(Contents) /\ Contents' = Tail(Contents)
      BY <3>2 DEF Fifo!Next, Fifo!Get
    <3> QED
      BY <2>2, <3>1, <3>2 DEF Moves
  <2>3. CASE Contents' = Contents /\ taken' = taken
    BY <2>3 DEF Fifo!vars
  <2> QED
    BY <2>2, <2>3, NextMoves
<1> QED
  BY <1>1, <1>2, <1>3, PTL DEF Spec, ImplementsFifo, Fifo!Spec
-----------------------------------------------------------------------------
(* The sockets.  Zenon proves what needs no arithmetic or sequences; the   *)
(* other leaves cite SMT.                                                  *)
USE ZenonT(30)

(* The kinds of descriptors of the two tables. *)
Listening == {"port"}
Connected == {"tcp", "udp"}

(* The open descriptors of descriptor tables F, their files, and those of  *)
(* some kinds.                                                             *)
Open(F) == UNION {{p} \X Live(F[p]) : p \in NetProcs}
FileOf(F, x) == F[x[1]][x[2]]
Of(F, kinds) == {x \in Open(F) : FileOf(F, x).kind \in kinds}

(* The index of a descriptor is a bijection to the live slots of a table. *)
Match(F, kinds, table) ==
    /\ \A x \in Of(F, kinds) : FileOf(F, x).index \in Live(table)
    /\ \A i \in Live(table) : \E x \in Of(F, kinds) : FileOf(F, x).index = i
    /\ \A x, y \in Of(F, kinds) : FileOf(F, x).index = FileOf(F, y).index => x = y

(* The ends of a socket; no two sockets share them. *)
Ends(table, i) == <<table[i].peer, table[i].lport>>

EndsApart == \A i, j \in Live(socket_table) : Ends(socket_table, i) = Ends(socket_table, j) => i = j

(* Between two sockets of the same ends nothing is left. *)
NothingLeft ==
    \A k \in Peers \X Ports :
        (\A i \in Live(socket_table) : Ends(socket_table, i) # k) => sent[k] = <<>> /\ got[k] = <<>>

(* The call in progress is on a live slot. *)
BusyLive == busy # None =>
    busy.index \in IF busy.call = "accept" THEN Live(listen_table) ELSE Live(socket_table)

(* The inductive invariant.  SlotsExact and SocketsInOrder need more than  *)
(* they say: that index is a bijection from descriptors to slots, and that *)
(* a socket starts where nothing was left by one with the same ends.       *)
NetIInv ==
    /\ NetTypeOK
    /\ Match(fd_table, Listening, listen_table) /\ Match(fd_table, Connected, socket_table)
    /\ EndsApart /\ SocketsInOrder /\ NothingLeft
    /\ OneAcceptor /\ BusyLive
-----------------------------------------------------------------------------
(* A set of numbers that is not empty has a least element. *)
LEMMA NetLeast ==
    ASSUME NEW T, T \subseteq Nat, T # {}
    PROVE  \E x \in T : \A y \in T : x <= y
<1> DEFINE R == {ss \in Nat \X Nat : ss[1] < ss[2]}
<1>1. IsWellFoundedOn(R, Nat)
  BY NatLessThanWellFounded DEF OpToRel
<1>2. \A y, x \in Nat : <<y, x>> \in R <=> y < x
  BY SMT
<1> HIDE DEF R
<1>3. PICK x \in T : \A y \in T : ~(<<y, x>> \in R)
  BY <1>1, WFMin
<1>4. ASSUME NEW y \in T PROVE x <= y
  <2>1. x \in Nat /\ y \in Nat /\ ~(y < x)
    BY <1>2, <1>3, Zenon
  <2> QED
    BY <2>1, SMT
<1> QED
  BY <1>4

(* Slot finds a slot that is empty or the first one behind the table. *)
LEMMA SlotFree ==
    ASSUME NEW V, NEW table \in Seq(V)
    PROVE  Slot(table) \in 1 .. Len(table) + 1 /\ Slot(table) \notin Live(table)
<1> DEFINE T == {i \in 1 .. Len(table) + 1 : i \notin Live(table)}
<1>1. Len(table) \in Nat /\ DOMAIN table = 1 .. Len(table)
  BY SMT
<1>2. T \subseteq Nat /\ Len(table) + 1 \in T
  BY <1>1, SMT DEF Live
<1>3. PICK i \in T : \A j \in T : i <= j
  BY <1>2, NetLeast
<1>4. \A j \in 1 .. i - 1 : j \in Live(table)
  BY <1>1, <1>3, SMT
<1>5. \E k \in 1 .. Len(table) + 1 :
          k \notin Live(table) /\ \A j \in 1 .. k - 1 : j \in Live(table)
  BY <1>3, <1>4
<1> QED
  BY <1>5 DEF Slot

(* Table u is table with entry x in slot i, which was empty. *)
Fills(table, i, x, u) ==
    /\ i \notin Live(table) /\ Live(u) = Live(table) \cup {i} /\ u[i] = x
    /\ \A j \in Live(table) : u[j] = table[j]

(* What Put does: it fills a free slot. *)
LEMMA PutFills ==
    ASSUME NEW V, None \notin V, NEW table \in Seq(V \cup {None}), NEW x \in V
    PROVE  /\ Put(table, x) \in Seq(V \cup {None}) /\ Slot(table) \in Nat \ {0}
           /\ Fills(table, Slot(table), x, Put(table, x))
<1> DEFINE s == Slot(table)
<1>1. s \in 1 .. Len(table) + 1 /\ s \notin Live(table)
  BY SlotFree
<1>2. Len(table) \in Nat /\ DOMAIN table = 1 .. Len(table) /\ x # None
  BY SMT
<1>3. s \in Nat \ {0}
  BY <1>1, <1>2, SMT
<1> HIDE DEF s
<1>4. CASE s > Len(table)
  <2>1. Put(table, x) = Append(table, x) /\ s = Len(table) + 1
    BY <1>1, <1>2, <1>4, SMT DEF Put, s
  <2> QED
    BY <1>1, <1>2, <1>3, <2>1, SMT DEF Live, Fills, s
<1>5. CASE ~(s > Len(table))
  <2>1. Put(table, x) = [table EXCEPT ![s] = x] /\ s \in 1 .. Len(table)
    BY <1>1, <1>2, <1>5, SMT DEF Put, s
  <2> QED
    BY <1>1, <1>2, <1>3, <2>1, SMT DEF Live, Fills, s
<1> QED
  BY <1>4, <1>5

(* Emptying a slot undoes that. *)
LEMMA SlotEmptied ==
    ASSUME NEW V, NEW table \in Seq(V \cup {None}), NEW i \in Live(table)
    PROVE  /\ [table EXCEPT ![i] = None] \in Seq(V \cup {None})
           /\ Fills([table EXCEPT ![i] = None], i, table[i], table)
BY SMT DEF Live, Fills

(* Table u is table with x written to the live slot i. *)
Writes(table, i, x, u) ==
    /\ i \in Live(table) /\ Live(u) = Live(table) /\ u[i] = x
    /\ \A j \in Live(table) : j # i => u[j] = table[j]

(* What writing a live slot does. *)
LEMMA SlotWritten ==
    ASSUME NEW V, None \notin V, NEW table \in Seq(V \cup {None}), NEW i \in Live(table), NEW x \in V
    PROVE  /\ [table EXCEPT ![i] = x] \in Seq(V \cup {None})
           /\ Writes(table, i, x, [table EXCEPT ![i] = x])
BY SMT DEF Live, Writes

(* The entry of a live slot. *)
LEMMA LiveEntry ==
    ASSUME NEW V, NEW table \in Seq(V \cup {None}), NEW i \in Live(table)
    PROVE  table[i] \in V /\ i \in Nat \ {0}
BY SMT DEF Live

(* No entry of a table is None. *)
LEMMA NetConstants ==
    None \notin Port /\ None \notin Socket /\ None \notin File /\ None \notin BusyCall /\ None \notin Nat
BY NetAssumption
-----------------------------------------------------------------------------
(* The members of Open. *)
LEMMA OpenIs ==
    \A F, x : x \in Open(F) <=> \E p \in NetProcs : \E i \in Live(F[p]) : x = <<p, i>>
BY SMT DEF Open

(* Descriptors G are those of F and x, of file f. *)
Adds(F, x, f, G) ==
    /\ x \notin Open(F) /\ Open(G) = Open(F) \cup {x} /\ FileOf(G, x) = f
    /\ \A y \in Open(F) : FileOf(G, y) = FileOf(F, y)

(* One more live slot of a process is one more open descriptor. *)
LEMMA OpenOneMore ==
    ASSUME NEW F, NEW G, NEW p \in NetProcs, NEW s, NEW f, Fills(F[p], s, f, G[p]),
           \A q \in NetProcs : q # p => G[q] = F[q]
    PROVE  Adds(F, <<p, s>>, f, G)
<1>1. \A q, i : <<q, i>> = <<p, s>> <=> q = p /\ i = s
  BY SMT
<1>2. /\ s \notin Live(F[p]) /\ Live(G[p]) = Live(F[p]) \cup {s} /\ G[p][s] = f
      /\ \A i \in Live(F[p]) : G[p][i] = F[p][i]
  BY DEF Fills
<1>3. ASSUME <<p, s>> \in Open(F) PROVE FALSE
  <2>1. \E q \in NetProcs : \E i \in Live(F[q]) : <<p, s>> = <<q, i>>
    BY ONLY <1>3, OpenIs
  <2> QED
    BY <1>1, <1>2, <2>1
<1>4. ASSUME NEW x PROVE x \in Open(G) <=> x \in Open(F) \/ x = <<p, s>>
  <2>1. x \in Open(G) <=> \E q \in NetProcs : \E i \in Live(G[q]) : x = <<q, i>>
    BY ONLY OpenIs
  <2>2. x \in Open(F) <=> \E q \in NetProcs : \E i \in Live(F[q]) : x = <<q, i>>
    BY ONLY OpenIs
  <2>3. \A q \in NetProcs : \A i : i \in Live(G[q]) <=> i \in Live(F[q]) \/ (q = p /\ i = s)
    BY <1>2
  <2> QED
    BY <2>1, <2>2, <2>3
<1>5. ASSUME NEW x \in Open(F) PROVE FileOf(G, x) = FileOf(F, x)
  <2>1. PICK q \in NetProcs : \E i \in Live(F[q]) : x = <<q, i>>
    BY ONLY OpenIs
  <2>2. PICK i \in Live(F[q]) : x = <<q, i>>
    BY <2>1
  <2>3. G[q][i] = F[q][i]
    BY <1>2
  <2>4. x[1] = q /\ x[2] = i
    BY <2>2
  <2> QED
    BY <2>3, <2>4 DEF FileOf
<1>6. FileOf(G, <<p, s>>) = f
  BY <1>2 DEF FileOf
<1> QED
  BY <1>3, <1>4, <1>5, <1>6 DEF Adds

(* A file in a free slot of a process adds one open descriptor. *)
LEMMA OpenAdds ==
    ASSUME NEW F \in [NetProcs -> Seq(File \cup {None})], NEW p \in NetProcs, NEW f \in File
    PROVE  /\ [F EXCEPT ![p] = Put(@, f)] \in [NetProcs -> Seq(File \cup {None})]
           /\ Adds(F, <<p, Slot(F[p])>>, f, [F EXCEPT ![p] = Put(@, f)])
<1> DEFINE t == Put(F[p], f)
           G == [F EXCEPT ![p] = Put(@, f)]
<1>1. F[p] \in Seq(File \cup {None}) /\ None \notin File
  BY NetConstants
<1>2. t \in Seq(File \cup {None}) /\ Fills(F[p], Slot(F[p]), f, t)
  BY <1>1, PutFills, SMT
<1>3. G[p] = t /\ \A q \in NetProcs : q # p => G[q] = F[q]
  OBVIOUS
<1>4. G \in [NetProcs -> Seq(File \cup {None})]
  BY <1>2
<1> HIDE DEF t, G
<1>5. Fills(F[p], Slot(F[p]), f, G[p])
  BY <1>2, <1>3
<1>6. Adds(F, <<p, Slot(F[p])>>, f, G)
  BY <1>3, <1>5, OpenOneMore
<1> QED
  BY <1>4, <1>6 DEF G

(* Closing a descriptor takes it away. *)
LEMMA OpenDrops ==
    ASSUME NEW F \in [NetProcs -> Seq(File \cup {None})], NEW p \in NetProcs, NEW fd \in Live(F[p])
    PROVE  /\ [F EXCEPT ![p][fd] = None] \in [NetProcs -> Seq(File \cup {None})]
           /\ Adds([F EXCEPT ![p][fd] = None], <<p, fd>>, F[p][fd], F)
<1> DEFINE t == [F[p] EXCEPT ![fd] = None]
           G == [F EXCEPT ![p][fd] = None]
<1>1. F[p] \in Seq(File \cup {None}) /\ fd \in Live(F[p])
  OBVIOUS
<1>2. t \in Seq(File \cup {None}) /\ Fills(t, fd, F[p][fd], F[p])
  BY <1>1, SMT DEF Live, Fills
<1>3. G = [F EXCEPT ![p] = t]
  OBVIOUS
<1> HIDE DEF t, G
<1>4. G[p] = t /\ \A q \in NetProcs : q # p => F[q] = G[q]
  BY <1>3
<1>5. G \in [NetProcs -> Seq(File \cup {None})]
  BY <1>2, <1>3
<1>6. Fills(G[p], fd, F[p][fd], F[p])
  BY <1>2, <1>4
<1>7. Adds(G, <<p, fd>>, F[p][fd], F)
  BY <1>4, <1>6, OpenOneMore
<1> QED
  BY <1>5, <1>7 DEF G
-----------------------------------------------------------------------------
(* A new descriptor and its new slot keep the match of descriptors and     *)
(* slots, and so does dropping both.                                       *)
LEMMA MatchAdds ==
    ASSUME NEW F, NEW G, NEW x, NEW f, Adds(F, x, f, G),
           NEW table, NEW u, NEW e, Fills(table, f.index, e, u),
           NEW kinds, f.kind \in kinds
    PROVE  Match(F, kinds, table) <=> Match(G, kinds, u)
<1>1. /\ x \notin Open(F) /\ Open(G) = Open(F) \cup {x} /\ FileOf(G, x) = f
      /\ \A y \in Open(F) : FileOf(G, y) = FileOf(F, y)
  BY DEF Adds
<1>2. f.index \notin Live(table) /\ Live(u) = Live(table) \cup {f.index}
  BY DEF Fills
<1>3. x \notin Of(F, kinds) /\ \A y : y \in Of(G, kinds) <=> (y \in Of(F, kinds) \/ y = x)
  BY <1>1 DEF Of
<1>4. FileOf(G, x).index = f.index /\ \A y \in Of(F, kinds) : FileOf(G, y).index = FileOf(F, y).index
  BY <1>1 DEF Of
<1>5. ASSUME Match(F, kinds, table) PROVE Match(G, kinds, u)
  <2>1. /\ \A y \in Of(F, kinds) : FileOf(F, y).index \in Live(table)
        /\ \A i \in Live(table) : \E y \in Of(F, kinds) : FileOf(F, y).index = i
        /\ \A y, z \in Of(F, kinds) : FileOf(F, y).index = FileOf(F, z).index => y = z
    BY <1>5 DEF Match
  <2>2. ASSUME NEW y \in Of(G, kinds) PROVE FileOf(G, y).index \in Live(u)
    <3>1. CASE y = x
      BY <1>2, <1>4, <3>1
    <3>2. CASE y \in Of(F, kinds)
      BY <1>2, <1>4, <2>1, <3>2
    <3> QED
      BY <1>3, <3>1, <3>2
  <2>3. ASSUME NEW i \in Live(u) PROVE \E y \in Of(G, kinds) : FileOf(G, y).index = i
    <3>1. CASE i = f.index
      BY <1>3, <1>4, <3>1
    <3>2. CASE i \in Live(table)
      <4>1. PICK y \in Of(F, kinds) : FileOf(F, y).index = i
        BY <2>1, <3>2
      <4> QED
        BY <1>3, <1>4, <4>1
    <3> QED
      BY <1>2, <3>1, <3>2
  <2>4. ASSUME NEW y \in Of(G, kinds), NEW z \in Of(G, kinds), FileOf(G, y).index = FileOf(G, z).index
        PROVE  y = z
    <3>1. \A v \in Of(F, kinds) : FileOf(G, v).index # f.index
      <4> SUFFICES ASSUME NEW v \in Of(F, kinds) PROVE FileOf(G, v).index # f.index
        OBVIOUS
      <4>1. FileOf(G, v).index = FileOf(F, v).index /\ FileOf(F, v).index \in Live(table)
        BY <1>4, <2>1
      <4> QED
        BY <1>2, <4>1
    <3>2. CASE y \in Of(F, kinds) /\ z \in Of(F, kinds)
      BY <1>4, <2>1, <2>4, <3>2
    <3>3. CASE y = x
      <4>1. FileOf(G, z).index = f.index
        BY <1>4, <2>4, <3>3
      <4> QED
        BY <1>3, <3>1, <3>3, <4>1
    <3>4. CASE z = x
      <4>1. FileOf(G, y).index = f.index
        BY <1>4, <2>4, <3>4
      <4> QED
        BY <1>3, <3>1, <3>4, <4>1
    <3> QED
      BY <1>3, <3>2, <3>3, <3>4
  <2> QED
    BY <2>2, <2>3, <2>4 DEF Match
<1>6. ASSUME Match(G, kinds, u) PROVE Match(F, kinds, table)
  <2>1. /\ \A y \in Of(G, kinds) : FileOf(G, y).index \in Live(u)
        /\ \A i \in Live(u) : \E y \in Of(G, kinds) : FileOf(G, y).index = i
        /\ \A y, z \in Of(G, kinds) : FileOf(G, y).index = FileOf(G, z).index => y = z
    BY <1>6 DEF Match
  <2>2. ASSUME NEW y \in Of(F, kinds) PROVE FileOf(F, y).index \in Live(table)
    <3>1. y \in Of(G, kinds) /\ x \in Of(G, kinds) /\ y # x /\ FileOf(G, y).index = FileOf(F, y).index
      BY <1>3, <1>4
    <3>2. FileOf(F, y).index \in Live(u) /\ FileOf(F, y).index # f.index
      BY <1>4, <2>1, <3>1
    <3> QED
      BY <1>2, <3>2
  <2>3. ASSUME NEW i \in Live(table) PROVE \E y \in Of(F, kinds) : FileOf(F, y).index = i
    <3>1. i \in Live(u) /\ i # f.index
      BY <1>2
    <3>2. PICK y \in Of(G, kinds) : FileOf(G, y).index = i
      BY <2>1, <3>1
    <3>3. y \in Of(F, kinds)
      BY <1>3, <1>4, <3>1, <3>2
    <3> QED
      BY <1>4, <3>2, <3>3
  <2>4. ASSUME NEW y \in Of(F, kinds), NEW z \in Of(F, kinds), FileOf(F, y).index = FileOf(F, z).index
        PROVE  y = z
    <3>1. y \in Of(G, kinds) /\ z \in Of(G, kinds)
      BY <1>3
    <3>2. FileOf(G, y).index = FileOf(G, z).index
      BY <1>4, <2>4
    <3> QED
      BY <2>1, <3>1, <3>2
  <2> QED
    BY <2>2, <2>3, <2>4 DEF Match
<1> QED
  BY <1>5, <1>6

(* It does not touch the other table. *)
LEMMA MatchOther ==
    ASSUME NEW F, NEW G, NEW x, NEW f, Adds(F, x, f, G), NEW table, NEW kinds,
           f.kind \notin kinds
    PROVE  Match(F, kinds, table) <=> Match(G, kinds, table)
<1>1. /\ x \notin Open(F) /\ Open(G) = Open(F) \cup {x} /\ FileOf(G, x) = f
      /\ \A y \in Open(F) : FileOf(G, y) = FileOf(F, y)
  BY DEF Adds
<1>2. \A y : y \in Of(G, kinds) <=> y \in Of(F, kinds)
  BY <1>1 DEF Of
<1>3. \A y \in Of(F, kinds) : FileOf(G, y).index = FileOf(F, y).index
  BY <1>1 DEF Of
<1> QED
  BY <1>2, <1>3 DEF Match

(* Only which slots are live matters. *)
LEMMA MatchSame ==
    ASSUME NEW F, NEW kinds, NEW table, NEW u, Live(u) = Live(table), Match(F, kinds, table)
    PROVE  Match(F, kinds, u)
BY DEF Match
-----------------------------------------------------------------------------
(* Queues of messages: what is read moves over, what comes is added.       *)
LEMMA TakeOne ==
    ASSUME NEW M, NEW s \in Seq(M), NEW t \in Seq(M), t # <<>>
    PROVE  s \o t = Append(s, Head(t)) \o Tail(t)
BY SMT

(* Nothing after nothing. *)
LEMMA NoMessages == <<>> = <<>> \o <<>>
BY SMT

(* get_socket finds the socket of the ends, or there is none. *)
LEMMA GetSocket ==
    ASSUME NetTypeOK, NEW peer \in Peers, NEW lport \in Ports
    PROVE  /\ get_socket(peer, lport) = None =>
                  \A i \in Live(socket_table) : Ends(socket_table, i) # <<peer, lport>>
           /\ get_socket(peer, lport) # None =>
                  /\ get_socket(peer, lport) \in Live(socket_table)
                  /\ Ends(socket_table, get_socket(peer, lport)) = <<peer, lport>>
<1> DEFINE hits == {i \in Live(socket_table) :
                       socket_table[i].peer = peer /\ socket_table[i].lport = lport}
<1>1. socket_table \in Seq(Socket \cup {None})
  BY DEF NetTypeOK
<1>2. hits \subseteq Nat
  <2>1. \A i \in Live(socket_table) : i \in Nat
    BY <1>1, LiveEntry
  <2> QED
    BY <2>1
<1>3. get_socket(peer, lport) = IF hits = {} THEN None ELSE CHOOSE i \in hits : \A j \in hits : i <= j
  BY DEF get_socket
<1>4. \A i : i \in hits <=> i \in Live(socket_table) /\ Ends(socket_table, i) = <<peer, lport>>
  BY SMT DEF Ends
<1> HIDE DEF hits
<1>5. CASE hits = {}
  BY <1>3, <1>4, <1>5
<1>6. CASE hits # {}
  <2>1. \E i \in hits : \A j \in hits : i <= j
    BY <1>2, <1>6, NetLeast
  <2>2. get_socket(peer, lport) \in hits
    BY <1>3, <1>6, <2>1
  <2>3. get_socket(peer, lport) # None
    BY <1>2, <2>2, NetConstants
  <2> QED
    BY <1>4, <2>2, <2>3
<1> QED
  BY <1>5, <1>6
-----------------------------------------------------------------------------
(* What the invariant says of the sockets, and the types it needs. *)
SocketTypes ==
    /\ socket_table \in Seq(Socket \cup {None})
    /\ fd_table \in [NetProcs -> Seq(File \cup {None})]
    /\ panic \in {"", "assert", "can't add socket"}
    /\ sent \in [Peers \X Ports -> Seq(Peers \X Nat)]
    /\ got \in [Peers \X Ports -> Seq(Peers \X Nat)]

SocketsOK ==
    /\ SocketTypes /\ Match(fd_table, Connected, socket_table)
    /\ EndsApart /\ SocketsInOrder /\ NothingLeft

PortsOK ==
    /\ listen_table \in Seq(Port \cup {None})
    /\ Match(fd_table, Listening, listen_table)

CallsOK ==
    /\ busy \in BusyCall \cup {None}
    /\ OneAcceptor /\ BusyLive

(* The parts of the invariant. *)
LEMMA NetParts == NetIInv <=> SocketsOK /\ PortsOK /\ CallsOK
BY DEF NetIInv, NetTypeOK, SocketsOK, SocketTypes, PortsOK, CallsOK

(* The same of the next state. *)
LEMMA NetPartsNext == SocketsOK' /\ PortsOK' /\ CallsOK' => NetIInv'
BY DEF NetIInv, NetTypeOK, SocketsOK, SocketTypes, PortsOK, CallsOK

(* A socket is opened: the ends of the new one are those of no other, and  *)
(* nothing is left of an earlier one with its ends.                        *)
LEMMA OpenSocketKeeps ==
    ASSUME NetIInv, NEW p \in NetProcs, NEW kind \in {"tcp", "udp"},
           NEW peer \in Peers, NEW lport \in Ports, open_socket(p, kind, peer, lport)
    PROVE  /\ SocketsOK' /\ Live(socket_table) \subseteq Live(socket_table)'
           /\ Match(fd_table', Listening, listen_table)
<1> DEFINE e == [peer |-> peer, lport |-> lport, buffers |-> <<>>]
           f == [kind |-> kind, index |-> Slot(socket_table)]
           k == <<peer, lport>>
<1>1. /\ SocketTypes /\ Match(fd_table, Connected, socket_table) /\ EndsApart /\ SocketsInOrder
      /\ NothingLeft /\ Match(fd_table, Listening, listen_table)
  BY NetParts DEF SocketsOK, PortsOK
<1>2. NetTypeOK /\ socket_table \in Seq(Socket \cup {None})
      /\ fd_table \in [NetProcs -> Seq(File \cup {None})]
  BY DEF NetIInv, NetTypeOK
<1>3. CASE get_socket(peer, lport) # None
  <2>1. panic' = "can't add socket" /\ UNCHANGED <<socket_table, fd_table, sent, got>>
    BY <1>3 DEF open_socket
  <2>2. SocketTypes'
    BY <1>1, <2>1 DEF SocketTypes
  <2>3. EndsApart' /\ SocketsInOrder' /\ NothingLeft'
    BY <1>1, <2>1 DEF EndsApart, SocketsInOrder, NothingLeft
  <2>4. Match(fd_table', Listening, listen_table) /\ Match(fd_table', Connected, socket_table')
    BY <1>1, <2>1
  <2> QED
    BY <2>1, <2>2, <2>3, <2>4 DEF SocketsOK
<1>4. CASE get_socket(peer, lport) = None
  <2>1. /\ socket_table' = Put(socket_table, e)
        /\ fd_table' = [fd_table EXCEPT ![p] = Put(@, f)]
        /\ UNCHANGED <<panic, sent, got>>
    BY <1>4 DEF open_socket
  <2>2. e \in Socket /\ e.peer = peer /\ e.lport = lport /\ e.buffers = <<>>
    BY SMT DEF Socket
  <2>3. Slot(socket_table) \in Nat \ {0}
    BY <1>2, <2>2, PutFills, NetConstants
  <2>4. f \in File /\ f.index = Slot(socket_table) /\ f.kind \in Connected /\ f.kind \notin Listening
    BY <2>3, SMT DEF File, Connected, Listening
  <2> HIDE DEF e, f
  <2>5. socket_table' \in Seq(Socket \cup {None}) /\ Fills(socket_table, f.index, e, socket_table')
    BY <1>2, <2>1, <2>2, <2>4, PutFills, NetConstants
  <2>6. /\ fd_table' \in [NetProcs -> Seq(File \cup {None})]
        /\ Adds(fd_table, <<p, Slot(fd_table[p])>>, f, fd_table')
    BY <1>2, <2>1, <2>4, OpenAdds
  <2>7. SocketTypes'
    BY <1>1, <2>1, <2>5, <2>6 DEF SocketTypes
  <2>8. Match(fd_table', Connected, socket_table') /\ Match(fd_table', Listening, listen_table)
    <3>1. f.kind \in Connected
      BY <2>4
    <3>2. Fills(socket_table, f.index, e, socket_table')
      BY <2>5
    <3>3. PICK x : Adds(fd_table, x, f, fd_table')
      BY <2>6
    <3>4. Match(fd_table, Connected, socket_table) <=> Match(fd_table', Connected, socket_table')
      BY ONLY <3>1, <3>2, <3>3, MatchAdds
    <3>5. Match(fd_table, Listening, listen_table) <=> Match(fd_table', Listening, listen_table)
      BY ONLY <2>4, <2>6, MatchOther
    <3> QED
      BY <1>1, <3>4, <3>5
  <2>9. SUFFICES ASSUME NEW i, i = f.index
                 PROVE  /\ EndsApart' /\ SocketsInOrder' /\ NothingLeft'
                        /\ Live(socket_table) \subseteq Live(socket_table')
    BY <2>7, <2>8 DEF SocketsOK
  <2>10. /\ i \notin Live(socket_table) /\ Live(socket_table') = Live(socket_table) \cup {i}
         /\ socket_table'[i] = e /\ \A j \in Live(socket_table) : socket_table'[j] = socket_table[j]
    BY <2>5, <2>9 DEF Fills
  <2>11. /\ Ends(socket_table', i) = k
         /\ \A j \in Live(socket_table) : Ends(socket_table', j) = Ends(socket_table, j)
    BY <2>2, <2>10 DEF Ends
  <2>12. \A j \in Live(socket_table) : Ends(socket_table, j) # k
    BY <1>2, <1>4, GetSocket
  <2>13. EndsApart'
    <3> SUFFICES ASSUME NEW m \in Live(socket_table'), NEW n \in Live(socket_table'),
                        Ends(socket_table', m) = Ends(socket_table', n)
                 PROVE  m = n
      BY DEF EndsApart
    <3>1. (m = i \/ m \in Live(socket_table)) /\ (n = i \/ n \in Live(socket_table))
      BY <2>10
    <3> QED
      BY <1>1, <2>11, <2>12, <3>1 DEF EndsApart
  <2>14. sent[k] = <<>> /\ got[k] = <<>>
    BY <1>1, <2>12 DEF NothingLeft
  <2>15. SocketsInOrder'
    <3> SUFFICES ASSUME NEW j \in Live(socket_table')
                 PROVE  sent'[Ends(socket_table', j)]
                          = got'[Ends(socket_table', j)] \o socket_table'[j].buffers
      BY DEF SocketsInOrder, Ends
    <3>1. CASE j = i
      <4>1. socket_table'[j].buffers = <<>> /\ sent'[k] = <<>> /\ got'[k] = <<>>
        BY <2>1, <2>2, <2>10, <2>14, <3>1
      <4> QED
        BY <2>11, <3>1, <4>1, NoMessages
    <3>2. CASE j \in Live(socket_table)
      <4>1. sent[Ends(socket_table, j)] = got[Ends(socket_table, j)] \o socket_table[j].buffers
        BY <1>1, <3>2 DEF SocketsInOrder, Ends
      <4> QED
        BY <2>1, <2>10, <2>11, <3>2, <4>1
    <3> QED
      BY <2>10, <3>1, <3>2
  <2>16. NothingLeft'
    <3> SUFFICES ASSUME NEW m \in Peers \X Ports,
                        \A j \in Live(socket_table') : Ends(socket_table', j) # m
                 PROVE  sent'[m] = <<>> /\ got'[m] = <<>>
      BY DEF NothingLeft
    <3>1. \A j \in Live(socket_table) : Ends(socket_table, j) # m
      BY <2>10, <2>11
    <3> QED
      BY <1>1, <2>1, <3>1 DEF NothingLeft
  <2> QED
    BY <2>10, <2>13, <2>15, <2>16
<1> QED
  BY <1>3, <1>4
-----------------------------------------------------------------------------
(* A live slot of the listen table holds a port. *)
LEMMA PortEntry ==
    ASSUME NetIInv, NEW i \in Live(listen_table)
    PROVE  listen_table[i] \in Port /\ listen_table[i] # None /\ i \in Nat \ {0}
<1>1. listen_table \in Seq(Port \cup {None})
  BY DEF NetIInv, NetTypeOK
<1>2. listen_table[i] \in Port /\ i \in Nat \ {0}
  BY <1>1, LiveEntry
<1> QED
  BY <1>2 DEF Live

(* A live slot of the socket table holds a socket. *)
LEMMA SocketEntry ==
    ASSUME NetIInv, NEW i \in Live(socket_table)
    PROVE  socket_table[i] \in Socket /\ socket_table[i] # None /\ i \in Nat \ {0}
<1>1. socket_table \in Seq(Socket \cup {None})
  BY DEF NetIInv, NetTypeOK
<1>2. socket_table[i] \in Socket /\ i \in Nat \ {0}
  BY <1>1, LiveEntry
<1> QED
  BY <1>2 DEF Live

(* A port is made to wait for a process, or to wait no longer. *)
Waits(table, i, r, p) == [table EXCEPT ![i].receivable = r, ![i].schedule = p]

(* Only that port changes. *)
LEMMA PortWrite ==
    ASSUME NEW table \in Seq(Port \cup {None}), NEW i \in Live(table), NEW r \in BOOLEAN,
           NEW p \in NetProcs \cup {None}
    PROVE  /\ Waits(table, i, r, p) \in Seq(Port \cup {None})
           /\ Live(Waits(table, i, r, p)) = Live(table)
           /\ Waits(table, i, r, p)[i].receivable = r /\ Waits(table, i, r, p)[i].schedule = p
           /\ \A j \in Live(table) : j # i => Waits(table, i, r, p)[j] = table[j]
<1> DEFINE e == [table[i] EXCEPT !.receivable = r, !.schedule = p]
<1>1. table[i] \in Port
  BY LiveEntry
<1>2. e \in Port
  BY <1>1 DEF Port
<1>3. e.receivable = r /\ e.schedule = p
  BY <1>1 DEF Port
<1>4. Waits(table, i, r, p) = [table EXCEPT ![i] = e]
  BY DEF Live, Waits
<1> HIDE DEF e
<1>5. [table EXCEPT ![i] = e] \in Seq(Port \cup {None}) /\ Writes(table, i, e, [table EXCEPT ![i] = e])
  BY <1>2, SlotWritten, NetConstants
<1>6. Waits(table, i, r, p) \in Seq(Port \cup {None}) /\ Writes(table, i, e, Waits(table, i, r, p))
  BY <1>4, <1>5
<1> QED
  BY <1>3, <1>6 DEF Writes

(* sys_connect keeps the invariant. *)
LEMMA ConnectKeeps ==
    ASSUME NetIInv, NEW p \in NetProcs, NEW peer \in Peers, NEW lport \in Ports,
           sys_connect(p, peer, lport)
    PROVE  NetIInv'
<1>1. busy = None /\ UNCHANGED <<listen_table, busy>> /\ open_socket(p, "udp", peer, lport)
  BY DEF sys_connect, Free
<1>2. SocketsOK' /\ Match(fd_table', Listening, listen_table)
  BY <1>1, OpenSocketKeeps
<1>3. PortsOK'
  BY <1>1, <1>2, NetParts DEF PortsOK
<1>4. CallsOK'
  BY <1>1, NetParts DEF CallsOK, OneAcceptor, BusyLive
<1> QED
  BY <1>2, <1>3, <1>4, NetPartsNext

(* sys_listen: a new port waits for nobody. *)
LEMMA ListenKeeps ==
    ASSUME NetIInv, NEW p \in NetProcs, NEW port \in Ports, sys_listen(p, port)
    PROVE  NetIInv'
<1> DEFINE e == [port |-> port, receivable |-> FALSE, schedule |-> None]
           f == [kind |-> "port", index |-> Slot(listen_table)]
<1>1. /\ listen_table' = Put(listen_table, e)
      /\ fd_table' = [fd_table EXCEPT ![p] = Put(@, f)]
      /\ busy = None /\ UNCHANGED <<socket_table, busy, panic, sent, got>>
  BY DEF sys_listen, Free
<1>2. /\ listen_table \in Seq(Port \cup {None})
      /\ fd_table \in [NetProcs -> Seq(File \cup {None})]
      /\ Match(fd_table, Connected, socket_table) /\ Match(fd_table, Listening, listen_table)
  BY DEF NetIInv, NetTypeOK
<1>3. e \in Port /\ e.receivable = FALSE
  BY SMT DEF Port
<1>4. Slot(listen_table) \in Nat \ {0}
  BY <1>2, <1>3, PutFills, NetConstants
<1>5. f \in File /\ f.index = Slot(listen_table) /\ f.kind \in Listening /\ f.kind \notin Connected
  BY <1>4, SMT DEF File, Connected, Listening
<1> HIDE DEF e, f
<1>6. listen_table' \in Seq(Port \cup {None}) /\ Fills(listen_table, f.index, e, listen_table')
  BY <1>1, <1>2, <1>3, <1>5, PutFills, NetConstants
<1>7. /\ fd_table' \in [NetProcs -> Seq(File \cup {None})]
      /\ Adds(fd_table, <<p, Slot(fd_table[p])>>, f, fd_table')
  BY <1>1, <1>2, <1>5, OpenAdds
<1>8. Match(fd_table', Listening, listen_table') /\ Match(fd_table', Connected, socket_table)
  <2>1. f.kind \in Listening /\ f.kind \notin Connected
    BY <1>5
  <2>2. Fills(listen_table, f.index, e, listen_table')
    BY <1>6
  <2>3. PICK x : Adds(fd_table, x, f, fd_table')
    BY <1>7
  <2>4. Match(fd_table, Listening, listen_table) <=> Match(fd_table', Listening, listen_table')
    BY ONLY <2>1, <2>2, <2>3, MatchAdds
  <2>5. Match(fd_table, Connected, socket_table) <=> Match(fd_table', Connected, socket_table)
    BY ONLY <2>1, <2>3, MatchOther
  <2> QED
    BY <1>2, <2>4, <2>5
<1>9. SocketTypes' /\ EndsApart' /\ SocketsInOrder' /\ NothingLeft'
  <2>1. SocketTypes /\ EndsApart /\ SocketsInOrder /\ NothingLeft
    BY NetParts DEF SocketsOK
  <2>2. SocketTypes'
    BY <1>1, <1>7, <2>1 DEF SocketTypes
  <2> QED
    BY <1>1, <2>1, <2>2 DEF EndsApart, SocketsInOrder, NothingLeft
<1>10. SocketsOK' /\ PortsOK'
  BY <1>1, <1>6, <1>8, <1>9 DEF SocketsOK, PortsOK
<1>11. CallsOK'
  <2>1. \A i \in Live(listen_table) : ~listen_table[i].receivable
    BY <1>1 DEF NetIInv, OneAcceptor
  <2>2. \A i \in Live(listen_table') : ~listen_table'[i].receivable
    <3> SUFFICES ASSUME NEW i \in Live(listen_table') PROVE ~listen_table'[i].receivable
      OBVIOUS
    <3>1. listen_table'[i] = e \/ (i \in Live(listen_table) /\ listen_table'[i] = listen_table[i])
      BY <1>6 DEF Fills
    <3> QED
      BY <1>3, <2>1, <3>1
  <2> QED
    BY <1>1, <2>2 DEF CallsOK, OneAcceptor, BusyLive
<1> QED
  BY <1>10, <1>11, NetPartsNext

(* The slot of an open file is live. *)
LEMMA OpenIndex ==
    ASSUME NetIInv, NEW p \in NetProcs, NEW fd \in Live(fd_table[p])
    PROVE  /\ fd_table[p][fd] \in File
           /\ fd_table[p][fd].kind = "port" => fd_table[p][fd].index \in Live(listen_table)
           /\ fd_table[p][fd].kind # "port" => fd_table[p][fd].index \in Live(socket_table)
<1> DEFINE x == <<p, fd>>
<1>1. fd_table[p][fd] \in File
  <2>1. fd_table[p] \in Seq(File \cup {None})
    BY DEF NetIInv, NetTypeOK
  <2> QED
    BY <2>1, LiveEntry
<1>2. x \in Open(fd_table) /\ FileOf(fd_table, x) = fd_table[p][fd]
  BY OpenIs DEF FileOf
<1>3. fd_table[p][fd].kind \in {"port", "tcp", "udp"}
  BY <1>1, SMT DEF File
<1>4. Match(fd_table, Connected, socket_table) /\ Match(fd_table, Listening, listen_table)
  BY DEF NetIInv
<1>5. ASSUME fd_table[p][fd].kind = "port" PROVE fd_table[p][fd].index \in Live(listen_table)
  <2>1. x \in Of(fd_table, Listening)
    BY <1>2, <1>5 DEF Of, Listening
  <2> QED
    BY <1>2, <1>4, <2>1 DEF Match
<1>6. ASSUME fd_table[p][fd].kind # "port" PROVE fd_table[p][fd].index \in Live(socket_table)
  <2>1. x \in Of(fd_table, Connected)
    BY <1>2, <1>3, <1>6 DEF Of, Connected
  <2> QED
    BY <1>2, <1>4, <2>1 DEF Match
<1> QED
  BY <1>1, <1>5, <1>6

(* sys_accept with a number of no port: the assertion fails and the tables *)
(* are left as they are.                                                   *)
LEMMA AcceptFailsKeeps ==
    ASSUME NetIInv, NEW p \in NetProcs, NEW k, k \notin Live(listen_table), sys_accept(p, k)
    PROVE  NetIInv'
<1>1. /\ panic' = "assert"
      /\ UNCHANGED <<listen_table, busy, socket_table, fd_table, sent, got>>
  BY DEF sys_accept
<1> QED
  BY <1>1, NetParts, NetPartsNext
     DEF SocketsOK, SocketTypes, PortsOK, CallsOK, EndsApart, SocketsInOrder, NothingLeft,
         OneAcceptor, BusyLive

(* sys_accept on a port, the caller's or not: no other port waits. *)
LEMMA AcceptKeeps ==
    ASSUME NetIInv, NEW p \in NetProcs, NEW k \in Live(listen_table), sys_accept(p, k)
    PROVE  NetIInv'
<1>2. busy = None
  BY DEF sys_accept, Free
<1>3. k \in Live(listen_table)
  OBVIOUS
<1>4. listen_table[k] # None /\ k \in Nat \ {0}
  BY <1>3, PortEntry
<1>5. /\ listen_table' = [listen_table EXCEPT ![k].receivable = TRUE, ![k].schedule = p]
      /\ busy' = [proc |-> p, call |-> "accept", index |-> k]
      /\ UNCHANGED <<socket_table, fd_table, panic, sent, got>>
  BY <1>3 DEF sys_accept
<1>6. busy' \in BusyCall /\ busy'.proc = p /\ busy'.call = "accept" /\ busy'.index = k
  BY <1>4, <1>5, SMT DEF BusyCall
<1>7. listen_table \in Seq(Port \cup {None})
  BY DEF NetIInv, NetTypeOK
<1>8. /\ listen_table' \in Seq(Port \cup {None}) /\ Live(listen_table') = Live(listen_table)
      /\ listen_table'[k].schedule = p
      /\ \A j \in Live(listen_table) : j # k => listen_table'[j] = listen_table[j]
  <2>1. PICK r \in BOOLEAN : r = TRUE
    OBVIOUS
  <2>2. p \in NetProcs \cup {None}
    OBVIOUS
  <2>3. /\ Waits(listen_table, k, r, p) \in Seq(Port \cup {None})
        /\ Live(Waits(listen_table, k, r, p)) = Live(listen_table)
        /\ Waits(listen_table, k, r, p)[k].schedule = p
        /\ \A j \in Live(listen_table) : j # k => Waits(listen_table, k, r, p)[j] = listen_table[j]
    BY <1>3, <1>7, <2>2, PortWrite, SMTT(30)
  <2> QED
    BY <1>5, <2>1, <2>3 DEF Waits
<1>9. SocketsOK'
  BY <1>5, NetParts DEF SocketsOK, SocketTypes, EndsApart, SocketsInOrder, NothingLeft
<1>10. PortsOK'
  <2>1. Match(fd_table, Listening, listen_table)
    BY DEF NetIInv
  <2>2. Match(fd_table, Listening, listen_table')
    BY <1>8, <2>1, MatchSame
  <2> QED
    BY <1>5, <1>8, <2>2 DEF PortsOK
<1>11. CallsOK'
  <2>1. \A j \in Live(listen_table) : ~listen_table[j].receivable
    BY <1>2 DEF NetIInv, OneAcceptor
  <2>2. busy' # None
    BY <1>6, NetConstants
  <2>3. \A j \in Live(listen_table') : listen_table'[j].receivable => j = k
    BY <1>8, <2>1
  <2>4. OneAcceptor'
    BY <1>6, <1>8, <2>2, <2>3 DEF OneAcceptor
  <2>5. BusyLive'
    BY <1>3, <1>6, <1>8 DEF BusyLive
  <2> QED
    BY <1>6, <2>4, <2>5 DEF CallsOK
<1> QED
  BY <1>9, <1>10, <1>11, NetPartsNext

(* The end of accept: its port waits no longer, so none does. *)
LEMMA AcceptReturnsKeeps ==
    ASSUME NetIInv, AcceptReturns
    PROVE  NetIInv'
<1>1. /\ ~listen_table[busy.index].receivable /\ busy' = None
      /\ UNCHANGED <<listen_table, socket_table, fd_table, panic, sent, got>>
  BY DEF AcceptReturns
<1>2. SocketsOK' /\ PortsOK'
  BY <1>1, NetParts DEF SocketsOK, PortsOK, SocketTypes, EndsApart, SocketsInOrder, NothingLeft
<1>3. \A i \in Live(listen_table) : ~listen_table[i].receivable
  BY <1>1 DEF NetIInv, OneAcceptor
<1>4. CallsOK'
  BY <1>1, <1>3 DEF CallsOK, OneAcceptor, BusyLive
<1> QED
  BY <1>2, <1>4, NetPartsNext

(* The start of a read. *)
LEMMA ReadKeeps ==
    ASSUME NetIInv, NEW p \in NetProcs, NEW fd \in Live(fd_table[p]), ReadSocket(p, fd)
    PROVE  NetIInv'
<1>1. SUFFICES ASSUME NEW i, i = fd_table[p][fd].index PROVE NetIInv'
  OBVIOUS
<1>2. /\ fd_table[p][fd].kind # "port" /\ busy = None
      /\ busy' = [proc |-> p, call |-> "read", index |-> i]
      /\ UNCHANGED <<listen_table, socket_table, fd_table, panic, sent, got>>
  BY <1>1 DEF ReadSocket
<1>3. i \in Live(socket_table)
  BY <1>1, <1>2, OpenIndex
<1>4. i \in Nat \ {0}
  BY <1>3, SocketEntry
<1>5. busy' \in BusyCall /\ busy'.call = "read" /\ busy'.index = i
  BY <1>2, <1>4, SMT DEF BusyCall
<1>6. SocketsOK' /\ PortsOK'
  BY <1>2, NetParts DEF SocketsOK, PortsOK, SocketTypes, EndsApart, SocketsInOrder, NothingLeft
<1>7. \A j \in Live(listen_table) : ~listen_table[j].receivable
  BY <1>2 DEF NetIInv, OneAcceptor
<1>8. OneAcceptor' /\ BusyLive'
  BY <1>2, <1>3, <1>5, <1>7 DEF OneAcceptor, BusyLive
<1> QED
  BY <1>5, <1>6, <1>8, NetPartsNext DEF CallsOK

(* A socket of the same ends with other messages in its queue. *)
LEMMA QueueKeeps ==
    ASSUME NetIInv, NEW i \in Live(socket_table), NEW b \in Seq(Peers \X Nat),
           socket_table' = [socket_table EXCEPT ![i].buffers = b]
    PROVE  /\ socket_table' \in Seq(Socket \cup {None}) /\ Live(socket_table') = Live(socket_table)
           /\ Ends(socket_table, i) \in Peers \X Ports
           /\ \A j \in Live(socket_table) : Ends(socket_table', j) = Ends(socket_table, j)
           /\ socket_table'[i].buffers = b
           /\ \A j \in Live(socket_table) : j # i => socket_table'[j].buffers = socket_table[j].buffers
<1> DEFINE e == [socket_table[i] EXCEPT !.buffers = b]
<1>1. socket_table[i] \in Socket /\ socket_table \in Seq(Socket \cup {None})
  BY SocketEntry DEF NetIInv, NetTypeOK
<1>2. e \in Socket
  BY <1>1 DEF Socket
<1>3. e.buffers = b /\ e.peer = socket_table[i].peer /\ e.lport = socket_table[i].lport
  BY <1>1 DEF Socket
<1>4. socket_table' = [socket_table EXCEPT ![i] = e]
  BY DEF Live
<1>5. Ends(socket_table, i) \in Peers \X Ports
  BY <1>1 DEF Socket, Ends
<1> HIDE DEF e
<1>6. /\ [socket_table EXCEPT ![i] = e] \in Seq(Socket \cup {None})
      /\ Writes(socket_table, i, e, [socket_table EXCEPT ![i] = e])
  BY ONLY <1>1, <1>2, i \in Live(socket_table), SlotWritten, NetConstants, ZenonT(30)
<1>7. socket_table' \in Seq(Socket \cup {None}) /\ Writes(socket_table, i, e, socket_table')
  BY <1>4, <1>6
<1>8. /\ Live(socket_table') = Live(socket_table) /\ socket_table'[i] = e
      /\ \A j \in Live(socket_table) : j # i => socket_table'[j] = socket_table[j]
  BY <1>7 DEF Writes
<1>9. \A j \in Live(socket_table) : Ends(socket_table', j) = Ends(socket_table, j)
  BY <1>3, <1>8 DEF Ends
<1> QED
  BY <1>3, <1>5, <1>7, <1>8, <1>9

(* What is taken from or added to a queue is written to the history of its *)
(* ends, and of no other.                                                  *)
QueueStep(i, b, k) ==
    /\ i \in Live(socket_table) /\ b \in Seq(Peers \X Nat) /\ k = Ends(socket_table, i)
    /\ socket_table' = [socket_table EXCEPT ![i].buffers = b]
    /\ sent' \in [Peers \X Ports -> Seq(Peers \X Nat)] /\ got' \in [Peers \X Ports -> Seq(Peers \X Nat)]
    /\ \A m \in Peers \X Ports : m # k => sent'[m] = sent[m] /\ got'[m] = got[m]
    /\ sent'[k] = got'[k] \o b /\ UNCHANGED <<fd_table, panic>>

(* Such a step keeps what the invariant says of the sockets. *)
LEMMA SocketsKeep ==
    ASSUME NetIInv, NEW i, NEW b, NEW k, QueueStep(i, b, k)
    PROVE  SocketsOK' /\ Live(socket_table') = Live(socket_table)
<1>0. /\ i \in Live(socket_table) /\ b \in Seq(Peers \X Nat) /\ k = Ends(socket_table, i)
      /\ socket_table' = [socket_table EXCEPT ![i].buffers = b]
      /\ sent' \in [Peers \X Ports -> Seq(Peers \X Nat)] /\ got' \in [Peers \X Ports -> Seq(Peers \X Nat)]
      /\ \A m \in Peers \X Ports : m # k => sent'[m] = sent[m] /\ got'[m] = got[m]
      /\ sent'[k] = got'[k] \o b /\ UNCHANGED <<fd_table, panic>>
  BY DEF QueueStep
<1>1. /\ SocketTypes /\ Match(fd_table, Connected, socket_table) /\ EndsApart /\ SocketsInOrder
      /\ NothingLeft
  BY NetParts DEF SocketsOK
<1>2. /\ socket_table' \in Seq(Socket \cup {None}) /\ Live(socket_table') = Live(socket_table)
      /\ k \in Peers \X Ports
      /\ \A j \in Live(socket_table) : Ends(socket_table', j) = Ends(socket_table, j)
      /\ socket_table'[i].buffers = b
      /\ \A j \in Live(socket_table) : j # i => socket_table'[j].buffers = socket_table[j].buffers
  BY <1>0, QueueKeeps
<1>3. SocketTypes'
  BY <1>0, <1>1, <1>2 DEF SocketTypes
<1>4. Match(fd_table', Connected, socket_table')
  BY <1>0, <1>1, <1>2, MatchSame
<1>5. EndsApart'
  BY <1>1, <1>2 DEF EndsApart
<1>6. ASSUME NEW j \in Live(socket_table')
      PROVE  sent'[Ends(socket_table', j)] = got'[Ends(socket_table', j)] \o socket_table'[j].buffers
  <2>1. CASE j = i
    BY <1>0, <1>2, <2>1
  <2>2. CASE j # i
    <3>1. j \in Live(socket_table) /\ Ends(socket_table', j) = Ends(socket_table, j)
      BY <1>2
    <3>2. Ends(socket_table, j) # k
      BY <1>0, <1>1, <2>2, <3>1 DEF EndsApart
    <3>3. sent[Ends(socket_table, j)] = got[Ends(socket_table, j)] \o socket_table[j].buffers
      BY <1>1, <3>1 DEF SocketsInOrder, Ends
    <3>4. Ends(socket_table, j) \in Peers \X Ports
      BY <3>1, SocketEntry DEF Socket, Ends
    <3>5. socket_table'[j].buffers = socket_table[j].buffers
      BY <1>2, <2>2, <3>1
    <3> QED
      BY <1>0, <3>1, <3>2, <3>3, <3>4, <3>5
  <2> QED
    BY <2>1, <2>2
<1>7. SocketsInOrder'
  BY <1>6 DEF SocketsInOrder, Ends
<1>8. NothingLeft'
  <2> SUFFICES ASSUME NEW m \in Peers \X Ports,
                      \A j \in Live(socket_table') : Ends(socket_table', j) # m
               PROVE  sent'[m] = <<>> /\ got'[m] = <<>>
    BY DEF NothingLeft
  <2>1. \A j \in Live(socket_table) : Ends(socket_table, j) # m
    BY <1>2
  <2>2. m # k
    BY <1>0, <2>1
  <2>3. sent[m] = <<>> /\ got[m] = <<>>
    BY <1>1, <2>1 DEF NothingLeft
  <2> QED
    BY <1>0, <2>2, <2>3
<1> QED
  BY <1>2, <1>3, <1>4, <1>5, <1>7, <1>8 DEF SocketsOK

(* The end of a read: the first message moves from the queue to the reader. *)
LEMMA ReadReturnsKeeps ==
    ASSUME NetIInv, ReadReturns
    PROVE  NetIInv'
<1>1. SUFFICES ASSUME NEW i, i = busy.index, NEW k, k = Ends(socket_table, i),
                      NEW b, b = socket_table[i].buffers
               PROVE  NetIInv'
  OBVIOUS
<1>2. /\ busy # None /\ busy.call = "read" /\ busy' = None /\ b # <<>>
      /\ socket_table' = [socket_table EXCEPT ![i].buffers = Tail(b)]
      /\ got' = [got EXCEPT ![k] = Append(@, Head(b))]
      /\ UNCHANGED <<listen_table, fd_table, panic, sent>>
  BY <1>1 DEF ReadReturns, Ends
<1>3. i \in Live(socket_table)
  BY <1>1, <1>2 DEF NetIInv, BusyLive
<1>4. socket_table[i] \in Socket
  BY <1>3, SocketEntry
<1>5. b \in Seq(Peers \X Nat) /\ k \in Peers \X Ports
  BY <1>1, <1>4 DEF Socket, Ends
<1>6. /\ sent \in [Peers \X Ports -> Seq(Peers \X Nat)] /\ got \in [Peers \X Ports -> Seq(Peers \X Nat)]
      /\ sent[k] = got[k] \o b
  BY <1>1, <1>3 DEF NetIInv, NetTypeOK, SocketsInOrder, Ends
<1>7. Head(b) \in Peers \X Nat /\ Tail(b) \in Seq(Peers \X Nat)
  BY <1>2, <1>5, SMT
<1>8. got[k] \in Seq(Peers \X Nat)
  BY <1>5, <1>6
<1>9. Append(got[k], Head(b)) \in Seq(Peers \X Nat) /\ got[k] \o b = Append(got[k], Head(b)) \o Tail(b)
  <2>1. Append(got[k], Head(b)) \in Seq(Peers \X Nat)
    BY <1>7, <1>8, SMT
  <2> QED
    BY <1>2, <1>5, <1>8, <2>1, TakeOne
<1>10. /\ got' \in [Peers \X Ports -> Seq(Peers \X Nat)] /\ got'[k] = Append(got[k], Head(b))
       /\ \A m \in Peers \X Ports : m # k => got'[m] = got[m]
  BY <1>2, <1>5, <1>6, <1>9
<1>11. SocketsOK'
  <2>1. sent' \in [Peers \X Ports -> Seq(Peers \X Nat)] /\ sent' = sent
    BY <1>2, <1>6
  <2>2. sent'[k] = got'[k] \o Tail(b)
    BY <1>6, <1>9, <1>10, <2>1
  <2>3. QueueStep(i, Tail(b), k)
    BY <1>1, <1>2, <1>3, <1>7, <1>10, <2>1, <2>2 DEF QueueStep
  <2> QED
    BY <2>3, SocketsKeep
<1>12. PortsOK'
  BY <1>2, NetParts DEF PortsOK
<1>13. \A j \in Live(listen_table) : ~listen_table[j].receivable
  BY <1>2 DEF NetIInv, OneAcceptor
<1>14. CallsOK'
  BY <1>2, <1>13 DEF CallsOK, OneAcceptor, BusyLive
<1> QED
  BY <1>11, <1>12, <1>14, NetPartsNext

(* A message for a socket. *)
LEMMA PushKeeps ==
    ASSUME NetIInv, NEW peer \in Peers, NEW port \in Ports, NEW m, m \in Peers \X Nat,
           push_data(peer, port, m), UNCHANGED busy
    PROVE  NetIInv'
<1>1. SUFFICES ASSUME NEW i, i = get_socket(peer, port), NEW k, k = <<peer, port>>,
                      NEW b, b = socket_table[i].buffers
               PROVE  NetIInv'
  OBVIOUS
<1>2. /\ i # None /\ socket_table' = [socket_table EXCEPT ![i].buffers = Append(b, m)]
      /\ sent' = [sent EXCEPT ![k] = Append(@, m)]
      /\ UNCHANGED <<listen_table, fd_table, panic, got, busy>>
  BY <1>1 DEF push_data
<1>3. i \in Live(socket_table) /\ Ends(socket_table, i) = k
  BY <1>1, <1>2, GetSocket DEF NetIInv
<1>4. socket_table[i] \in Socket
  BY <1>3, SocketEntry
<1>5. b \in Seq(Peers \X Nat) /\ k \in Peers \X Ports
  BY <1>1, <1>4 DEF Socket
<1>6. /\ sent \in [Peers \X Ports -> Seq(Peers \X Nat)] /\ got \in [Peers \X Ports -> Seq(Peers \X Nat)]
      /\ sent[k] = got[k] \o b
  <2>1. /\ sent \in [Peers \X Ports -> Seq(Peers \X Nat)]
        /\ got \in [Peers \X Ports -> Seq(Peers \X Nat)] /\ SocketsInOrder
    BY DEF NetIInv, NetTypeOK
  <2> QED
    BY <1>1, <1>3, <2>1 DEF SocketsInOrder, Ends
<1>7. got[k] \in Seq(Peers \X Nat) /\ sent[k] \in Seq(Peers \X Nat)
  BY <1>5, <1>6
<1>8. Append(b, m) \in Seq(Peers \X Nat) /\ Append(sent[k], m) \in Seq(Peers \X Nat)
  BY <1>5, <1>7, SMT
<1>9. Append(sent[k], m) = got[k] \o Append(b, m)
  <2>1. Append(got[k] \o b, m) = got[k] \o Append(b, m)
    <3>1. PICK M, g : M = Peers \X Nat /\ g = got[k]
      OBVIOUS
    <3>2. b \in Seq(M) /\ g \in Seq(M) /\ m \in M
      BY <1>5, <1>7, <3>1
    <3>3. Append(g \o b, m) = g \o Append(b, m)
      BY ONLY <3>2, SMT
    <3> QED
      BY <3>1, <3>3
  <2> QED
    BY <1>6, <2>1
<1>10. /\ sent' \in [Peers \X Ports -> Seq(Peers \X Nat)] /\ sent'[k] = Append(sent[k], m)
       /\ \A n \in Peers \X Ports : n # k => sent'[n] = sent[n]
  BY <1>2, <1>5, <1>6, <1>8
<1>11. SocketsOK' /\ Live(socket_table') = Live(socket_table)
  <2>1. got' \in [Peers \X Ports -> Seq(Peers \X Nat)] /\ got' = got
    BY <1>2, <1>6
  <2>2. sent'[k] = got'[k] \o Append(b, m)
    BY <1>9, <1>10, <2>1
  <2>3. QueueStep(i, Append(b, m), k)
    BY <1>2, <1>3, <1>8, <1>10, <2>1, <2>2 DEF QueueStep
  <2> QED
    BY <2>3, SocketsKeep
<1>12. PortsOK'
  BY <1>2, NetParts DEF PortsOK
<1>13. busy' \in BusyCall \cup {None} /\ OneAcceptor'
  BY <1>2, NetParts DEF CallsOK, OneAcceptor
<1>14. BusyLive'
  BY <1>2, <1>11 DEF NetIInv, BusyLive
<1> QED
  BY <1>11, <1>12, <1>13, <1>14, NetPartsNext DEF CallsOK

(* A connection for the port that waits: it is the accept in progress that *)
(* is given the socket.                                                    *)
LEMMA CheckAcceptKeeps ==
    ASSUME NetIInv, NEW peer \in Peers, NEW port \in Ports, check_accept(port, peer), UNCHANGED busy
    PROVE  NetIInv'
<1> DEFINE ready == {i \in Live(listen_table) :
                        listen_table[i].port = port /\ listen_table[i].receivable}
<1>1. SUFFICES ASSUME NEW i, i = CHOOSE k \in ready : \A j \in ready : k <= j
               PROVE  NetIInv'
  OBVIOUS
<1>2. /\ ready # {}
      /\ listen_table' = [listen_table EXCEPT ![i].receivable = FALSE, ![i].schedule = None]
      /\ open_socket(listen_table[i].schedule, "tcp", peer, port)
  BY <1>1 DEF check_accept
<1>3. ready \subseteq Nat
  <2>1. \A j \in Live(listen_table) : j \in Nat
    BY PortEntry
  <2> QED
    BY <2>1
<1>4. \A j \in ready : j \in Live(listen_table) /\ listen_table[j].receivable
  OBVIOUS
<1> HIDE DEF ready
<1>5. \E k \in ready : \A j \in ready : k <= j
  BY <1>2, <1>3, NetLeast
<1>6. i \in Live(listen_table) /\ listen_table[i].receivable
  BY <1>1, <1>4, <1>5
<1>7. busy # None /\ busy.index = i /\ listen_table[i].schedule = busy.proc /\ busy \in BusyCall
  BY <1>6 DEF NetIInv, OneAcceptor, NetTypeOK
<1>8. listen_table[i].schedule \in NetProcs
  BY <1>7 DEF BusyCall
<1>9. /\ SocketsOK' /\ Live(socket_table) \subseteq Live(socket_table')
      /\ Match(fd_table', Listening, listen_table)
  BY <1>2, <1>8, OpenSocketKeeps
<1>10. /\ listen_table' \in Seq(Port \cup {None}) /\ Live(listen_table') = Live(listen_table)
       /\ ~listen_table'[i].receivable
       /\ \A j \in Live(listen_table) : j # i => listen_table'[j] = listen_table[j]
  <2>1. PICK r \in BOOLEAN : r = FALSE
    OBVIOUS
  <2>2. None \in NetProcs \cup {None} /\ listen_table \in Seq(Port \cup {None})
    BY DEF NetIInv, NetTypeOK
  <2>3. /\ Waits(listen_table, i, r, None) \in Seq(Port \cup {None})
        /\ Live(Waits(listen_table, i, r, None)) = Live(listen_table)
        /\ Waits(listen_table, i, r, None)[i].receivable = r
        /\ \A j \in Live(listen_table) : j # i => Waits(listen_table, i, r, None)[j] = listen_table[j]
    BY <1>6, <2>2, PortWrite, SMTT(30)
  <2>4. listen_table' = Waits(listen_table, i, r, None)
    BY <1>2, <2>1 DEF Waits
  <2> QED
    BY <2>1, <2>3, <2>4
<1>11. Match(fd_table', Listening, listen_table')
  BY <1>9, <1>10, MatchSame
<1>12. PortsOK'
  BY <1>10, <1>11 DEF PortsOK
<1>13. OneAcceptor'
  <2>1. \A j \in Live(listen_table) : listen_table[j].receivable => busy.index = j
    BY DEF NetIInv, OneAcceptor
  <2>2. \A j \in Live(listen_table') : ~listen_table'[j].receivable
    BY <1>7, <1>10, <2>1
  <2> QED
    BY <2>2 DEF OneAcceptor
<1>14. BusyLive'
  BY <1>9, <1>10 DEF NetIInv, BusyLive
<1> QED
  BY <1>7, <1>9, <1>12, <1>13, <1>14, NetPartsNext DEF CallsOK

(* A packet. *)
LEMMA HandlerKeeps ==
    ASSUME NetIInv, net_interrupt_handler
    PROVE  NetIInv'
<1>1. PICK peer \in Peers, port \in Ports :
          check_accept(port, peer) \/ push_data(peer, port, <<peer, Len(sent[<<peer, port>>]) + 1>>)
  BY DEF net_interrupt_handler
<1>2. UNCHANGED busy
  BY DEF net_interrupt_handler
<1>3. sent[<<peer, port>>] \in Seq(Peers \X Nat)
  BY DEF NetIInv, NetTypeOK
<1>4. <<peer, Len(sent[<<peer, port>>]) + 1>> \in Peers \X Nat
  BY <1>3, SMT
<1> QED
  BY <1>1, <1>2, <1>4, PushKeeps, CheckAcceptKeeps

(* A descriptor and its slot go together, and with a socket what came for  *)
(* it.                                                                     *)
LEMMA CloseKeeps ==
    ASSUME NetIInv, NEW p \in NetProcs, NEW fd \in Live(fd_table[p]), Close(p, fd)
    PROVE  NetIInv'
<1>1. SUFFICES ASSUME NEW f, f = fd_table[p][fd] PROVE NetIInv'
  OBVIOUS
<1>2. f \in File
  BY <1>1, OpenIndex
<1>3. /\ fd_table' = [fd_table EXCEPT ![p][fd] = None]
      /\ busy = None /\ UNCHANGED <<busy, panic>>
  BY DEF Close
<1>4. /\ SocketTypes /\ Match(fd_table, Connected, socket_table) /\ EndsApart /\ SocketsInOrder
      /\ NothingLeft /\ Match(fd_table, Listening, listen_table)
      /\ listen_table \in Seq(Port \cup {None}) /\ socket_table \in Seq(Socket \cup {None})
      /\ fd_table \in [NetProcs -> Seq(File \cup {None})]
  BY NetParts DEF SocketsOK, SocketTypes, PortsOK
<1>5. fd_table' \in [NetProcs -> Seq(File \cup {None})] /\ \E x : Adds(fd_table', x, f, fd_table)
  BY <1>1, <1>3, <1>4, OpenDrops
<1>6. PICK x : Adds(fd_table', x, f, fd_table)
  BY <1>5
<1>7. \A i \in Live(listen_table) : ~listen_table[i].receivable
  BY <1>3 DEF NetIInv, OneAcceptor
<1>8. CASE f.kind = "port"
  <2>1. SUFFICES ASSUME NEW i, i = f.index PROVE NetIInv'
    OBVIOUS
  <2>2. i \in Live(listen_table)
    BY <1>1, <1>8, <2>1, OpenIndex
  <2>3. listen_table' = [listen_table EXCEPT ![i] = None] /\ UNCHANGED <<socket_table, sent, got>>
    BY <1>1, <1>8, <2>1 DEF Close
  <2>4. listen_table' \in Seq(Port \cup {None}) /\ Fills(listen_table', i, listen_table[i], listen_table)
    BY <1>4, <2>2, <2>3, SlotEmptied
  <2>5. Match(fd_table', Listening, listen_table')
    <3>1. f.kind \in Listening
      BY <1>8 DEF Listening
    <3>2. Fills(listen_table', f.index, listen_table[i], listen_table)
      BY <2>1, <2>4
    <3>3. Match(fd_table', Listening, listen_table') <=> Match(fd_table, Listening, listen_table)
      BY ONLY <1>6, <3>1, <3>2, MatchAdds
    <3> QED
      BY <1>4, <3>3
  <2>6. Match(fd_table', Connected, socket_table)
    <3>1. f.kind \notin Connected
      BY <1>8 DEF Connected
    <3>2. Match(fd_table', Connected, socket_table) <=> Match(fd_table, Connected, socket_table)
      BY ONLY <1>6, <3>1, MatchOther
    <3> QED
      BY <1>4, <3>2
  <2>7. SocketTypes' /\ EndsApart' /\ SocketsInOrder' /\ NothingLeft'
    <3>1. SocketTypes'
      BY <1>3, <1>4, <1>5, <2>3 DEF SocketTypes
    <3> QED
      BY <1>4, <2>3, <3>1 DEF EndsApart, SocketsInOrder, NothingLeft
  <2>8. SocketsOK' /\ PortsOK'
    BY <2>3, <2>4, <2>5, <2>6, <2>7 DEF SocketsOK, PortsOK
  <2>9. \A j \in Live(listen_table') : ~listen_table'[j].receivable
    BY <1>7, <2>4 DEF Fills
  <2>10. CallsOK'
    BY <1>3, <2>9 DEF CallsOK, OneAcceptor, BusyLive
  <2> QED
    BY <2>8, <2>10, NetPartsNext
<1>9. CASE f.kind # "port"
  <2>1. SUFFICES ASSUME NEW i, i = f.index, NEW k, k = Ends(socket_table, i) PROVE NetIInv'
    OBVIOUS
  <2>2. i \in Live(socket_table)
    BY <1>1, <1>9, <2>1, OpenIndex
  <2>3. /\ socket_table' = [socket_table EXCEPT ![i] = None]
        /\ sent' = [sent EXCEPT ![k] = <<>>] /\ got' = [got EXCEPT ![k] = <<>>]
        /\ UNCHANGED listen_table
    BY <1>1, <1>9, <2>1 DEF Close, Ends
  <2>4. socket_table' \in Seq(Socket \cup {None}) /\ Fills(socket_table', i, socket_table[i], socket_table)
    BY <1>4, <2>2, <2>3, SlotEmptied
  <2>5. Match(fd_table', Connected, socket_table')
    <3>1. f.kind \in Connected
      BY <1>2, <1>9 DEF Connected, File
    <3>2. Fills(socket_table', f.index, socket_table[i], socket_table)
      BY <2>1, <2>4
    <3>3. Match(fd_table', Connected, socket_table') <=> Match(fd_table, Connected, socket_table)
      BY ONLY <1>6, <3>1, <3>2, MatchAdds
    <3> QED
      BY <1>4, <3>3
  <2>6. Match(fd_table', Listening, listen_table)
    <3>1. f.kind \notin Listening
      BY <1>9 DEF Listening
    <3>2. Match(fd_table', Listening, listen_table) <=> Match(fd_table, Listening, listen_table)
      BY ONLY <1>6, <3>1, MatchOther
    <3> QED
      BY <1>4, <3>2
  <2>7. /\ i \notin Live(socket_table') /\ Live(socket_table) = Live(socket_table') \cup {i}
        /\ \A j \in Live(socket_table') : socket_table[j] = socket_table'[j]
    BY <2>4 DEF Fills
  <2>8. \A j \in Live(socket_table') :
            Ends(socket_table', j) = Ends(socket_table, j) /\ j \in Live(socket_table) /\ j # i
    BY <2>7 DEF Ends
  <2>9. EndsApart'
    BY <1>4, <2>8 DEF EndsApart
  <2>10. \A j \in Live(socket_table) : Ends(socket_table, j) \in Peers \X Ports
    <3> SUFFICES ASSUME NEW j \in Live(socket_table) PROVE Ends(socket_table, j) \in Peers \X Ports
      OBVIOUS
    <3>1. socket_table[j] \in Socket
      BY SocketEntry
    <3> QED
      BY <3>1 DEF Socket, Ends
  <2>11. /\ sent \in [Peers \X Ports -> Seq(Peers \X Nat)] /\ got \in [Peers \X Ports -> Seq(Peers \X Nat)]
         /\ k \in Peers \X Ports
    BY <1>4, <2>1, <2>2, <2>10 DEF SocketTypes
  <2>12. /\ sent' \in [Peers \X Ports -> Seq(Peers \X Nat)] /\ got' \in [Peers \X Ports -> Seq(Peers \X Nat)]
         /\ sent'[k] = <<>> /\ got'[k] = <<>>
         /\ \A m \in Peers \X Ports : m # k => sent'[m] = sent[m] /\ got'[m] = got[m]
    <3>1. <<>> \in Seq(Peers \X Nat)
      BY SMT
    <3> QED
      BY <2>3, <2>11, <3>1
  <2>13. SocketsInOrder'
    <3> SUFFICES ASSUME NEW j \in Live(socket_table')
                 PROVE  sent'[Ends(socket_table', j)]
                          = got'[Ends(socket_table', j)] \o socket_table'[j].buffers
      BY DEF SocketsInOrder, Ends
    <3>1. Ends(socket_table', j) = Ends(socket_table, j) /\ j \in Live(socket_table) /\ j # i
      BY <2>8
    <3>2. sent[Ends(socket_table, j)] = got[Ends(socket_table, j)] \o socket_table[j].buffers
      BY <1>4, <3>1 DEF SocketsInOrder, Ends
    <3>3. Ends(socket_table, j) # k /\ Ends(socket_table, j) \in Peers \X Ports
      BY <1>4, <2>1, <2>2, <2>10, <3>1 DEF EndsApart
    <3> QED
      BY <2>7, <2>12, <3>1, <3>2, <3>3
  <2>14. NothingLeft'
    <3> SUFFICES ASSUME NEW m \in Peers \X Ports,
                        \A j \in Live(socket_table') : Ends(socket_table', j) # m
                 PROVE  sent'[m] = <<>> /\ got'[m] = <<>>
      BY DEF NothingLeft
    <3>1. CASE m = k
      BY <2>12, <3>1
    <3>2. CASE m # k
      <4>1. \A j \in Live(socket_table) : Ends(socket_table, j) # m
        BY <2>1, <2>7, <2>8, <3>2
      <4> QED
        BY <1>4, <2>12, <3>2, <4>1 DEF NothingLeft
    <3> QED
      BY <3>1, <3>2
  <2>15. SocketTypes'
    BY <1>3, <1>4, <1>5, <2>4, <2>12 DEF SocketTypes
  <2>16. SocketsOK'
    BY <2>5, <2>9, <2>13, <2>14, <2>15 DEF SocketsOK
  <2>17. PortsOK'
    BY <1>4, <2>3, <2>6 DEF PortsOK
  <2>18. CallsOK'
    BY <1>3, <1>7, <2>3 DEF CallsOK, OneAcceptor, BusyLive
  <2> QED
    BY <2>16, <2>17, <2>18, NetPartsNext
<1> QED
  BY <1>8, <1>9
-----------------------------------------------------------------------------
(* The invariant holds at the start. *)
LEMMA NetInitKeeps == NetInit => NetIInv
<1> SUFFICES ASSUME NetInit PROVE NetIInv
  OBVIOUS
<1>1. <<>> \in Seq(Port \cup {None}) /\ <<>> \in Seq(Socket \cup {None}) /\ <<>> \in Seq(File \cup {None})
      /\ <<>> \in Seq(Peers \X Nat)
  BY SMT
<1>2. Live(<<>>) = {}
  BY SMT DEF Live
<1>3. NetTypeOK
  BY <1>1 DEF NetInit, NetTypeOK
<1>4. Live(listen_table) = {} /\ Live(socket_table) = {} /\ \A p \in NetProcs : Live(fd_table[p]) = {}
  BY <1>2 DEF NetInit
<1>5. \A x : x \notin Open(fd_table)
  BY <1>4, OpenIs
<1>6. Match(fd_table, Connected, socket_table) /\ Match(fd_table, Listening, listen_table)
  BY <1>4, <1>5 DEF Match, Of
<1>7. EndsApart /\ SocketsInOrder /\ OneAcceptor
  BY <1>4 DEF EndsApart, SocketsInOrder, OneAcceptor
<1>8. NothingLeft
  BY DEF NothingLeft, NetInit
<1>9. BusyLive
  BY DEF BusyLive, NetInit
<1> QED
  BY <1>3, <1>6, <1>7, <1>8, <1>9 DEF NetIInv

(* Every step keeps it. *)
LEMMA NetNextKeeps == NetIInv /\ [NetNext]_netVars => NetIInv'
<1> SUFFICES ASSUME NetIInv, [NetNext]_netVars PROVE NetIInv'
  OBVIOUS
<1>1. ASSUME NEW p \in NetProcs, NEW port \in Ports, sys_listen(p, port) PROVE NetIInv'
  BY <1>1, ListenKeeps
<1>2. ASSUME NEW p \in NetProcs, NEW port \in Ports, NEW peer \in Peers, sys_connect(p, peer, port)
      PROVE  NetIInv'
  BY <1>2, ConnectKeeps
<1>3. ASSUME NEW p \in NetProcs, NEW fd \in Live(fd_table[p]), ReadSocket(p, fd) \/ Close(p, fd)
      PROVE  NetIInv'
  BY <1>3, ReadKeeps, CloseKeeps
<1>4. ASSUME NEW p \in NetProcs, NEW k \in 1 .. Len(listen_table) + 1, sys_accept(p, k)
      PROVE  NetIInv'
  BY <1>4, AcceptKeeps, AcceptFailsKeeps
<1>5. CASE AcceptReturns \/ ReadReturns \/ net_interrupt_handler
  BY <1>5, AcceptReturnsKeeps, ReadReturnsKeeps, HandlerKeeps
<1>6. CASE UNCHANGED netVars
  BY <1>6, NetParts, NetPartsNext
     DEF netVars, SocketsOK, SocketTypes, PortsOK, CallsOK, EndsApart, SocketsInOrder, NothingLeft,
         OneAcceptor, BusyLive
<1> QED
  BY <1>1, <1>2, <1>3, <1>4, <1>5, <1>6 DEF NetNext

(* The open files are those of the open descriptors. *)
LEMMA FilesAre ==
    ASSUME NetIInv, NEW f
    PROVE  /\ f \in Files <=> \E x \in Open(fd_table) : FileOf(fd_table, x) = f
           /\ f \in Sockets <=> \E x \in Of(fd_table, Connected) : FileOf(fd_table, x) = f
           /\ f \in Files \ Sockets <=> \E x \in Of(fd_table, Listening) : FileOf(fd_table, x) = f
<1>1. f \in Files <=> \E p \in NetProcs : \E i \in Live(fd_table[p]) : fd_table[p][i] = f
  BY SMT DEF Files
<1>2. \A p, i : FileOf(fd_table, <<p, i>>) = fd_table[p][i]
  BY DEF FileOf
<1>3. ASSUME NEW p \in NetProcs, NEW i \in Live(fd_table[p])
      PROVE  fd_table[p][i].kind \in {"port", "tcp", "udp"}
  BY OpenIndex DEF File
<1>4. f \in Files <=> \E x \in Open(fd_table) : FileOf(fd_table, x) = f
  <2>1. ASSUME f \in Files PROVE \E x \in Open(fd_table) : FileOf(fd_table, x) = f
    <3>0. PICK p \in NetProcs : \E i \in Live(fd_table[p]) : fd_table[p][i] = f
      BY <1>1, <2>1
    <3>1. PICK i \in Live(fd_table[p]) : fd_table[p][i] = f
      BY <3>0
    <3>2. <<p, i>> \in Open(fd_table)
      BY OpenIs
    <3> QED
      BY <1>2, <3>1, <3>2
  <2>2. ASSUME NEW x \in Open(fd_table), FileOf(fd_table, x) = f PROVE f \in Files
    <3>0. PICK p \in NetProcs : \E i \in Live(fd_table[p]) : x = <<p, i>>
      BY ONLY OpenIs
    <3>1. PICK i \in Live(fd_table[p]) : x = <<p, i>>
      BY <3>0
    <3>2. fd_table[p][i] = f
      BY <1>2, <2>2, <3>1
    <3> QED
      BY <1>1, <3>2
  <2> QED
    BY <2>1, <2>2
<1>5. \A x \in Open(fd_table) : FileOf(fd_table, x).kind \in {"port", "tcp", "udp"}
  <2> SUFFICES ASSUME NEW x \in Open(fd_table) PROVE FileOf(fd_table, x).kind \in {"port", "tcp", "udp"}
    OBVIOUS
  <2>0. PICK p \in NetProcs : \E i \in Live(fd_table[p]) : x = <<p, i>>
    BY ONLY OpenIs
  <2>1. PICK i \in Live(fd_table[p]) : x = <<p, i>>
    BY <2>0
  <2> QED
    BY <1>2, <1>3, <2>1
<1>6. f \in Sockets <=> \E x \in Of(fd_table, Connected) : FileOf(fd_table, x) = f
  BY <1>4, <1>5 DEF Sockets, Of, Connected
<1>7. f \in Files \ Sockets <=> \E x \in Of(fd_table, Listening) : FileOf(fd_table, x) = f
  BY <1>4, <1>5 DEF Sockets, Of, Listening
<1> QED
  BY <1>4, <1>6, <1>7

(* The live slots of a table are as many as the descriptors they match.    *)
LEMMA MatchCounts ==
    ASSUME NEW F, NEW kinds, NEW V, NEW table \in Seq(V), Match(F, kinds, table)
    PROVE  /\ IsFiniteSet(Of(F, kinds))
           /\ Cardinality(Of(F, kinds)) = Cardinality(Live(table)) /\ Cardinality(Live(table)) \in Nat
<1> DEFINE S == Of(F, kinds)
           index == [x \in S |-> FileOf(F, x).index]
<1>1. /\ \A x \in S : FileOf(F, x).index \in Live(table)
      /\ \A i \in Live(table) : \E x \in S : FileOf(F, x).index = i
      /\ \A x, y \in S : FileOf(F, x).index = FileOf(F, y).index => x = y
  BY DEF Match
<1>2. IsFiniteSet(Live(table))
  <2>1. Live(table) \subseteq 1 .. Len(table) /\ Len(table) \in Nat
    BY SMT DEF Live
  <2>2. IsFiniteSet(1 .. Len(table))
    BY <2>1, FS_Interval, SMT
  <2> QED
    BY <2>1, <2>2, FS_Subset
<1> HIDE DEF S
<1>3. index \in Bijection(S, Live(table))
  BY <1>1 DEF Bijection, Injection, Surjection, IsInjective
<1> HIDE DEF index
<1>4. index \in Injection(S, Live(table)) /\ index \in Surjection(S, Live(table))
  BY <1>3 DEF Bijection
<1>5. IsFiniteSet(S) /\ Cardinality(S) = Cardinality(Live(table))
  BY <1>2, <1>4, FS_Injection
<1> QED
  BY <1>2, <1>5, FS_CardinalityType DEF S

(* The invariant says that the slots are exact. *)
LEMMA SlotsFromMatch == NetIInv => SlotsExact
<1> SUFFICES ASSUME NetIInv PROVE SlotsExact
  OBVIOUS
<1>1. /\ Match(fd_table, Connected, socket_table) /\ Match(fd_table, Listening, listen_table)
      /\ socket_table \in Seq(Socket \cup {None}) /\ listen_table \in Seq(Port \cup {None})
  BY DEF NetIInv, NetTypeOK
<1>2. Live(socket_table) = {f.index : f \in Sockets}
  <2>1. ASSUME NEW i \in Live(socket_table) PROVE \E f \in Sockets : f.index = i
    BY <1>1, FilesAre DEF Match
  <2>2. ASSUME NEW f \in Sockets PROVE f.index \in Live(socket_table)
    BY <1>1, FilesAre DEF Match
  <2> QED
    BY <2>1, <2>2
<1>3. Live(listen_table) = {f.index : f \in Files \ Sockets}
  <2>1. ASSUME NEW i \in Live(listen_table) PROVE \E f \in Files \ Sockets : f.index = i
    BY <1>1, FilesAre DEF Match
  <2>2. ASSUME NEW f \in Files \ Sockets PROVE f.index \in Live(listen_table)
    BY <1>1, FilesAre DEF Match
  <2> QED
    BY <2>1, <2>2
<1>4. Cardinality(Live(socket_table)) + Cardinality(Live(listen_table)) = Cardinality(Open(fd_table))
  <2> DEFINE S == Of(fd_table, Connected)
             L == Of(fd_table, Listening)
  <2>1. IsFiniteSet(S) /\ Cardinality(S) = Cardinality(Live(socket_table)) /\ Cardinality(S) \in Nat
    BY <1>1, MatchCounts
  <2>2. IsFiniteSet(L) /\ Cardinality(L) = Cardinality(Live(listen_table)) /\ Cardinality(L) \in Nat
    BY <1>1, MatchCounts
  <2>3. Open(fd_table) = S \cup L
    <3>1. ASSUME NEW x \in Open(fd_table) PROVE FileOf(fd_table, x).kind \in {"port", "tcp", "udp"}
      <4>0. PICK p \in NetProcs : \E i \in Live(fd_table[p]) : x = <<p, i>>
        BY ONLY OpenIs
      <4>1. PICK i \in Live(fd_table[p]) : x = <<p, i>>
        BY <4>0
      <4>2. fd_table[p][i] \in File /\ FileOf(fd_table, x) = fd_table[p][i]
        BY <4>1, OpenIndex DEF FileOf
      <4> QED
        BY <4>2 DEF File
    <3> QED
      BY <3>1 DEF Of, Connected, Listening
  <2>4. S \cap L = {}
    BY DEF Of, Connected, Listening
  <2> HIDE DEF S, L
  <2>5. Cardinality(S \cap L) = 0
    BY <2>4, FS_EmptySet
  <2>6. Cardinality(S \cup L) = Cardinality(S) + Cardinality(L) - Cardinality(S \cap L)
    BY <2>1, <2>2, FS_Union
  <2> QED
    BY <2>1, <2>2, <2>3, <2>5, <2>6, SMT
<1>5. EndsApart
  BY DEF NetIInv
<1> QED
  BY <1>2, <1>3, <1>4, <1>5 DEF SlotsExact, EndsApart, Ends, Open

(* For any processes, ports, peers and bounds, and whatever numbers are    *)
(* passed to accept: the tables and the descriptors agree, only an accept  *)
(* in progress is given a connection, on the port it named, and every      *)
(* socket reads what its peer sent since it was made, in order.            *)
THEOREM SocketsAreExact == NetSpec => []SocketsExact
<1>1. NetIInv => SocketsExact
  BY SlotsFromMatch DEF NetIInv, SocketsExact
<1> QED
  BY <1>1, NetInitKeeps, NetNextKeeps, PTL DEF NetSpec
=============================================================================
