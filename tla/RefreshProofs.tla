--------------------------- MODULE RefreshProofs ---------------------------
(***************************************************************************)
(* The pop/push loop of PriorityScheduler::refresh_aging (RefreshAging)    *)
(* computes the operator refresh_aging of ReadyQueues, for every finite    *)
(* set of tasks and number of levels, wherever the tasks are queued.       *)
(***************************************************************************)
EXTENDS RefreshAging, Integers, FiniteSetTheorems, TLAPS

(* Zenon proves what needs no arithmetic; the other leaves cite SMT. *)
USE ZenonT(30)

(* A slot is a level and a place in the queue of that level. *)
LEMMA PlaceIsSlot ==
    ASSUME NEW q \in [Priorities -> Seq(Tasks)],
           NEW p \in Priorities, NEW i \in 1 .. Len(q[p])
    PROVE  <<p, i>> \in Slots(q) /\ TaskAt(q, <<p, i>>) = q[p][i]
<1>1. DOMAIN q[p] = 1 .. Len(q[p])
  BY SMT
<1> QED
  BY <1>1, SMT DEF Slots, TaskAt

(* Every slot is one, and holds a task. *)
LEMMA SlotIsPlace ==
    ASSUME NEW q \in [Priorities -> Seq(Tasks)], NEW s \in Slots(q)
    PROVE  /\ s[1] \in Priorities
           /\ s[2] \in 1 .. Len(q[s[1]])
           /\ s = <<s[1], s[2]>>
           /\ TaskAt(q, s) = q[s[1]][s[2]]
           /\ TaskAt(q, s) \in Tasks
<1>1. PICK p \in Priorities : s \in {p} \X DOMAIN q[p]
  BY DEF Slots
<1>2. q[p] \in Seq(Tasks) /\ DOMAIN q[p] = 1 .. Len(q[p])
  BY SMT
<1>3. s = <<s[1], s[2]>> /\ s[1] = p /\ s[2] \in 1 .. Len(q[p])
  BY <1>1, <1>2, SMT
<1>4. q[s[1]][s[2]] \in Tasks
  BY <1>2, <1>3, SMT
<1> QED
  BY <1>3, <1>4 DEF TaskAt

(* FiledBefore is a strict total order on the slots. *)
LEMMA FiledBeforeOrder ==
    ASSUME NEW q \in [Priorities -> Seq(Tasks)], NEW p \in Priorities,
           NEW s \in Slots(q), NEW r \in Slots(q)
    PROVE  /\ ~FiledBefore(p, s, s)
           /\ s # r => FiledBefore(p, s, r) \/ FiledBefore(p, r, s)
           /\ FiledBefore(p, s, r) => ~FiledBefore(p, r, s)
           /\ \A u \in Slots(q) :
                 FiledBefore(p, u, s) /\ FiledBefore(p, s, r) => FiledBefore(p, u, r)
<1>1. /\ s[1] \in Int /\ s[2] \in Int /\ s = <<s[1], s[2]>>
      /\ r[1] \in Int /\ r[2] \in Int /\ r = <<r[1], r[2]>>
  BY SlotIsPlace, SMT DEF Priorities
<1>2. \A u \in Slots(q) : u[1] \in Int /\ u[2] \in Int
  BY SlotIsPlace, SMT DEF Priorities
<1>3. p \in Int
  BY SMT DEF Priorities
<1> QED
  BY <1>1, <1>2, <1>3, SMT DEF FiledBefore

(* A function on 1 .. m is a sequence of length m. *)
LEMMA FunctionIsSeq ==
    ASSUME NEW T, NEW m \in Nat, NEW g \in [1 .. m -> T]
    PROVE  g \in Seq(T) /\ Len(g) = m
BY SMT
-----------------------------------------------------------------------------
(* The loop of refresh_aging.  While it runs, sq[p] holds the slots that   *)
(* the tasks of queue p came from.  At level c, with k iterations left:    *)
Target(st, pr, s) == pr[TaskAt(st, s)]

(* Where a slot may be.  Tasks of levels not reached yet are where they    *)
(* were; the others at their new level, but for those the level has still  *)
(* to look at.                                                             *)
Rightly(st, pr, c, k, p, i, s) ==
    /\ p > c => Target(st, pr, s) = p /\ s[1] >= c
    /\ p < c => s[1] = p \/ (s[1] >= c /\ Target(st, pr, s) = p)
    /\ p = c => s[1] >= c /\ (i > k \/ s[1] > c => Target(st, pr, s) = c)

(* In what order: of the current level, first come those still to be       *)
(* looked at.                                                              *)
Ordered(u, c, k, p) ==
    \A i, j \in 1 .. Len(u) : i < j =>
       /\ p # c \/ j <= k \/ i > k => FiledBefore(p, u[i], u[j])
       /\ p = c /\ i <= k /\ k < j => FiledBefore(p, u[j], u[i])

Filing(st, pr, sq, c, k) ==
    /\ sq \in [Priorities -> Seq(Slots(st))]
    /\ \A s \in Slots(st) : \E p \in Priorities : \E i \in 1 .. Len(sq[p]) : sq[p][i] = s
    /\ \A p \in Priorities : \A i \in 1 .. Len(sq[p]) : Rightly(st, pr, c, k, p, i, sq[p][i])
    /\ \A p \in Priorities : Ordered(sq[p], c, k, p)
    /\ \A p \in Priorities : \A i \in 1 .. Len(sq[p]) : \A j \in 1 .. k :
          p # c /\ sq[p][i][1] = c /\ sq[c][j][1] = c => sq[p][i][2] < sq[c][j][2]

(* The place that what is at place i of level p after a pop from c and a   *)
(* push to level to was at before.                                         *)
Origin(q, c, to, p, i) ==
    IF p = to /\ i = Len(q[to]) + (IF to = c THEN 0 ELSE 1) THEN <<c, 1>>
    ELSE IF p = c THEN <<p, i + 1>> ELSE <<p, i>>

Moved(T, q, c, to, Q) ==
    /\ Q \in [Priorities -> Seq(T)]
    /\ \A p \in Priorities :
          Len(Q[p]) = Len(q[p]) - (IF p = c THEN 1 ELSE 0) + (IF p = to THEN 1 ELSE 0)
    /\ \A p \in Priorities : \A i \in 1 .. Len(Q[p]) :
          LET o == Origin(q, c, to, p, i)
          IN  /\ o[1] \in Priorities /\ o[2] \in 1 .. Len(q[o[1]])
              /\ Q[p][i] = q[o[1]][o[2]]

(* What a pop and a push do, place by place. *)
LEMMA MovePlaces ==
    ASSUME NEW T, NEW q \in [Priorities -> Seq(T)], NEW c \in Priorities, NEW to \in Priorities,
           Len(q[c]) > 0, NEW Q, Q = push_back(pop_front(q, c), to, Head(q[c]))
    PROVE  Moved(T, q, c, to, Q)
<1> DEFINE h == Head(q[c])
           Q1 == pop_front(q, c)
<1>1. q[c] \in Seq(T) /\ q[to] \in Seq(T)
  OBVIOUS
<1>2. h = q[c][1] /\ h \in T /\ Tail(q[c]) \in Seq(T) /\ Len(Tail(q[c])) = Len(q[c]) - 1
      /\ \A i \in 1 .. Len(q[c]) - 1 : Tail(q[c])[i] = q[c][i + 1]
  BY <1>1, SMT
<1>3. /\ Q1 \in [Priorities -> Seq(T)] /\ Q1[c] = Tail(q[c])
      /\ \A p \in Priorities : p # c => Q1[p] = q[p]
  BY <1>2 DEF pop_front
<1> HIDE DEF Q1, h
<1>4. /\ Q1[to] \in Seq(T) /\ Append(Q1[to], h) \in Seq(T)
      /\ Len(Append(Q1[to], h)) = Len(Q1[to]) + 1
      /\ \A i \in 1 .. Len(Q1[to]) : Append(Q1[to], h)[i] = Q1[to][i]
      /\ Append(Q1[to], h)[Len(Q1[to]) + 1] = h
  BY <1>2, <1>3, SMT
<1>5. /\ Q \in [Priorities -> Seq(T)] /\ Q[to] = Append(Q1[to], h)
      /\ \A p \in Priorities : p # to => Q[p] = Q1[p]
  <2>1. Q = [Q1 EXCEPT ![to] = Append(Q1[to], h)]
    BY DEF push_back, Q1, h
  <2> QED
    BY <1>3, <1>4, <2>1
<1>6. \A p \in Priorities :
         Len(Q[p]) = Len(q[p]) - (IF p = c THEN 1 ELSE 0) + (IF p = to THEN 1 ELSE 0)
  <2> SUFFICES ASSUME NEW p \in Priorities
               PROVE  Len(Q[p]) = Len(q[p]) - (IF p = c THEN 1 ELSE 0) + (IF p = to THEN 1 ELSE 0)
    OBVIOUS
  <2>1. Len(q[p]) \in Nat
    BY SMT
  <2>2. Len(Q1[p]) = Len(q[p]) - (IF p = c THEN 1 ELSE 0)
    BY <1>2, <1>3, <2>1, SMTT(30)
  <2>3. Len(Q[p]) = Len(Q1[p]) + (IF p = to THEN 1 ELSE 0)
    <3>1. Len(Q1[p]) \in Nat
      BY <2>1, <2>2, SMT
    <3>2. CASE p = to
      BY <1>4, <1>5, <3>2
    <3>3. CASE p # to
      BY <1>5, <3>1, <3>3, SMTT(30)
    <3> QED
      BY <3>2, <3>3
  <2> QED
    BY <2>2, <2>3
<1>7. ASSUME NEW p \in Priorities, NEW i \in 1 .. Len(Q[p])
      PROVE  /\ Origin(q, c, to, p, i)[1] \in Priorities
             /\ Origin(q, c, to, p, i)[2] \in 1 .. Len(q[Origin(q, c, to, p, i)[1]])
             /\ Q[p][i] = q[Origin(q, c, to, p, i)[1]][Origin(q, c, to, p, i)[2]]
  <2>1. Len(q[p]) \in Nat /\ Len(q[c]) \in Nat /\ Len(q[to]) \in Nat
    BY SMT
  <2>2. Len(Q[p]) = Len(q[p]) - (IF p = c THEN 1 ELSE 0) + (IF p = to THEN 1 ELSE 0)
    BY <1>6
  <2>3. Len(Q1[to]) = Len(q[to]) + (IF to = c THEN -1 ELSE 0)
    BY <1>2, <1>3, <2>1, SMTT(30)
  <2>4. CASE p = to /\ i = Len(q[to]) + (IF to = c THEN 0 ELSE 1)
    <3>1. Origin(q, c, to, p, i) = <<c, 1>>
      BY <2>4 DEF Origin
    <3>2. i = Len(Q1[to]) + 1
      BY <2>1, <2>3, <2>4, SMTT(30)
    <3>3. Q[p][i] = h
      BY <1>4, <1>5, <2>4, <3>2
    <3> QED
      BY <1>2, <2>1, <3>1, <3>3, SMTT(30)
  <2>5. CASE ~(p = to /\ i = Len(q[to]) + (IF to = c THEN 0 ELSE 1))
    <3>1. Origin(q, c, to, p, i) = IF p = c THEN <<p, i + 1>> ELSE <<p, i>>
      BY <2>5 DEF Origin
    <3>2. i \in 1 .. Len(q[p]) - (IF p = c THEN 1 ELSE 0)
      <4> DEFINE popped == IF p = c THEN 1 ELSE 0
                 pushed == IF p = to THEN 1 ELSE 0
                 n == Len(q[p])
      <4>1. n \in Nat /\ popped \in Int /\ pushed \in Int /\ Len(Q[p]) = n - popped + pushed
        <5>1. popped \in {0, 1} /\ pushed \in {0, 1}
          OBVIOUS
        <5>2. popped \in Int /\ pushed \in Int
          BY <5>1, SMT
        <5> QED
          BY <2>1, <2>2, <5>2
      <4>2. pushed = 0 \/ (pushed = 1 /\ i # n - popped + 1)
        <5>1. CASE p = to
          <6>1. i # n + (IF p = c THEN 0 ELSE 1)
            BY <2>5, <5>1
          <6> QED
            BY <4>1, <5>1, <6>1, SMTT(30)
        <5>2. CASE p # to
          BY <5>2
        <5> QED
          BY <5>1, <5>2
      <4> HIDE DEF popped, pushed, n
      <4>3. i \in 1 .. n - popped + pushed
        BY <4>1
      <4>4. i \in 1 .. n - popped
        BY <4>1, <4>2, <4>3, SMTT(30)
      <4> QED
        BY <4>4 DEF n, popped
    <3>3. p = to => i \in 1 .. Len(Q1[to])
      BY <2>1, <2>3, <3>2, SMTT(30)
    <3>4. Q[p][i] = Q1[p][i]
      BY <1>4, <1>5, <3>3
    <3>5. Q1[p][i] = q[p][IF p = c THEN i + 1 ELSE i]
      <4>1. CASE p = c
        BY <1>2, <1>3, <3>2, <4>1
      <4>2. CASE p # c
        BY <1>3, <4>2
      <4> QED
        BY <4>1, <4>2
    <3> QED
      BY <2>1, <3>1, <3>2, <3>4, <3>5, SMTT(30)
  <2> QED
    BY <2>4, <2>5
<1> QED
  BY <1>5, <1>6, <1>7 DEF Moved

(* FiledBefore of two slots, in numbers. *)
LEMMA SlotNumbers ==
    ASSUME NEW st \in [Priorities -> Seq(Tasks)], NEW s \in Slots(st)
    PROVE  s[1] \in Priorities /\ s[1] \in Int /\ s[2] \in Int
BY SlotIsPlace, SMT DEF Priorities

(* One iteration: the first slot of level c, which has k > 0 to look at,   *)
(* goes to the end of its target level.  Places after it and before it.    *)
Kept(sq, c, p, i) == sq[p][IF p = c THEN i + 1 ELSE i]

Shifted(st, sq, c, to, SQ) ==
    /\ SQ \in [Priorities -> Seq(Slots(st))]
    /\ Len(SQ[to]) \in Nat \ {0} /\ SQ[to][Len(SQ[to])] = sq[c][1]
    /\ \A p \in Priorities : \A i \in 1 .. Len(SQ[p]) :
          \/ p = to /\ i = Len(SQ[to]) /\ SQ[p][i] = sq[c][1]
          \/ /\ SQ[p][i] = Kept(sq, c, p, i) /\ (p = to => i < Len(SQ[to]))
             /\ (IF p = c THEN i + 1 ELSE i) \in 1 .. Len(sq[p])
    /\ \A p \in Priorities : \A i \in 1 .. Len(sq[p]) :
          \/ p = c /\ i = 1
          \/ \E j \in 1 .. Len(SQ[p]) : SQ[p][j] = sq[p][i]
    /\ Len(SQ[c]) >= Len(sq[c]) - 1 /\ (to = c => Len(SQ[c]) = Len(sq[c]))

(* The places after a pop and a push of slots. *)
LEMMA RefilePlaces ==
    ASSUME NEW st \in [Priorities -> Seq(Tasks)], NEW sq \in [Priorities -> Seq(Slots(st))],
           NEW c \in Priorities, NEW to \in Priorities, Len(sq[c]) > 0,
           NEW SQ, SQ = push_back(pop_front(sq, c), to, Head(sq[c]))
    PROVE  Shifted(st, sq, c, to, SQ)
<1>1. /\ SQ \in [Priorities -> Seq(Slots(st))]
      /\ \A p \in Priorities :
            Len(SQ[p]) = Len(sq[p]) - (IF p = c THEN 1 ELSE 0) + (IF p = to THEN 1 ELSE 0)
      /\ \A p \in Priorities : \A i \in 1 .. Len(SQ[p]) :
            LET o == Origin(sq, c, to, p, i)
            IN  /\ o[1] \in Priorities /\ o[2] \in 1 .. Len(sq[o[1]])
                /\ SQ[p][i] = sq[o[1]][o[2]]
  <2>1. Moved(Slots(st), sq, c, to, SQ)
    BY MovePlaces
  <2> QED
    BY <2>1 DEF Moved
<1>2. \A p \in Priorities : Len(sq[p]) \in Nat /\ Len(SQ[p]) \in Nat
  BY <1>1, SMT
<1>3. Len(SQ[to]) = Len(sq[to]) + (IF to = c THEN 0 ELSE 1)
  <2>1. Len(SQ[to]) = Len(sq[to]) - (IF to = c THEN 1 ELSE 0) + 1
    BY <1>1
  <2>2. Len(sq[to]) \in Nat
    BY <1>2
  <2>3. CASE to = c
    BY <2>1, <2>2, <2>3, SMTT(30)
  <2>4. CASE to # c
    BY <2>1, <2>2, <2>4, SMTT(30)
  <2> QED
    BY <2>3, <2>4
<1>4. Len(SQ[to]) \in Nat \ {0}
  <2>1. Len(sq[to]) \in Nat /\ (to = c => Len(sq[to]) > 0)
    BY <1>2
  <2> QED
    BY <1>3, <2>1, SMT
<1>5. ASSUME NEW p \in Priorities, NEW i \in 1 .. Len(SQ[p])
      PROVE  \/ p = to /\ i = Len(SQ[to]) /\ SQ[p][i] = sq[c][1]
             \/ /\ SQ[p][i] = Kept(sq, c, p, i) /\ (p = to => i < Len(SQ[to]))
                /\ (IF p = c THEN i + 1 ELSE i) \in 1 .. Len(sq[p])
  <2>1. LET o == Origin(sq, c, to, p, i)
        IN  /\ o[1] \in Priorities /\ o[2] \in 1 .. Len(sq[o[1]])
            /\ SQ[p][i] = sq[o[1]][o[2]]
    BY <1>1
  <2>2. CASE p = to /\ i = Len(SQ[to])
    <3>1. Origin(sq, c, to, p, i) = <<c, 1>>
      BY <1>3, <2>2 DEF Origin
    <3> QED
      BY <2>1, <2>2, <3>1, SMT
  <2>3. CASE ~(p = to /\ i = Len(SQ[to]))
    <3>1. Origin(sq, c, to, p, i) = IF p = c THEN <<p, i + 1>> ELSE <<p, i>>
      BY <1>3, <2>3 DEF Origin
    <3>2. p = to => i < Len(SQ[to])
      BY <1>4, <2>3, SMT
    <3>3. CASE p = c
      <4>1. Origin(sq, c, to, p, i)[1] = p /\ Origin(sq, c, to, p, i)[2] = i + 1
        BY <3>1, <3>3, SMT
      <4> QED
        BY <2>1, <3>2, <3>3, <4>1 DEF Kept
    <3>4. CASE p # c
      <4>1. Origin(sq, c, to, p, i)[1] = p /\ Origin(sq, c, to, p, i)[2] = i
        BY <3>1, <3>4, SMTT(30)
      <4> QED
        BY <2>1, <3>2, <3>4, <4>1 DEF Kept
    <3> QED
      BY <3>3, <3>4
  <2> QED
    BY <2>2, <2>3
<1>6. SQ[to][Len(SQ[to])] = sq[c][1]
  <2>1. Len(SQ[to]) \in 1 .. Len(SQ[to]) /\ ~(Len(SQ[to]) < Len(SQ[to]))
    BY <1>4, SMT
  <2> QED
    BY <1>5, <2>1
<1>7. Len(SQ[c]) >= Len(sq[c]) - 1 /\ (to = c => Len(SQ[c]) = Len(sq[c]))
  <2>1. Len(SQ[c]) = Len(sq[c]) - 1 + (IF c = to THEN 1 ELSE 0)
    BY <1>1
  <2>2. Len(sq[c]) \in Nat
    BY <1>2
  <2> QED
    BY <2>1, <2>2, SMT
<1>8. ASSUME NEW p \in Priorities, NEW i \in 1 .. Len(sq[p]), ~(p = c /\ i = 1)
      PROVE  \E j \in 1 .. Len(SQ[p]) : SQ[p][j] = sq[p][i]
  <2>0. Len(sq[p]) \in Nat /\ Len(SQ[p]) \in Nat
    BY <1>2
  <2>1. CASE p = c
    <3>1. /\ i - 1 \in 1 .. Len(SQ[p]) /\ (i - 1) + 1 = i
          /\ to = c => i - 1 # Len(SQ[p])
      BY <1>7, <1>8, <2>0, <2>1, SMTT(30)
    <3>2. SQ[p][i - 1] = Kept(sq, c, p, i - 1)
      BY <1>5, <2>1, <3>1
    <3> QED
      BY <2>1, <3>1, <3>2 DEF Kept
  <2>2. CASE p # c
    <3>1. Len(SQ[p]) = Len(sq[p]) - 0 + (IF p = to THEN 1 ELSE 0)
      BY <1>1, <2>2
    <3>2. i \in 1 .. Len(SQ[p]) /\ (p = to => i # Len(SQ[p]))
      BY <2>0, <3>1, SMT
    <3>3. SQ[p][i] = Kept(sq, c, p, i)
      BY <1>5, <3>2
    <3> QED
      BY <2>2, <3>2, <3>3 DEF Kept
  <2> QED
    BY <2>1, <2>2
<1> QED
  BY <1>1, <1>4, <1>5, <1>6, <1>7, <1>8 DEF Shifted

(* The slot that is filed comes after all those at its target already.     *)
LEMMA FiledLast ==
    ASSUME NEW st \in [Priorities -> Seq(Tasks)], NEW pr \in [Tasks -> Priorities], NEW sq,
           NEW c \in Priorities, NEW k \in Nat \ {0}, Filing(st, pr, sq, c, k), k <= Len(sq[c]),
           NEW to \in Priorities, to = Target(st, pr, sq[c][1]), to # c,
           NEW i \in 1 .. Len(sq[to])
    PROVE  FiledBefore(to, sq[to][i], sq[c][1])
<1> DEFINE x == sq[to][i]
           h == sq[c][1]
<1>1. 1 \in 1 .. Len(sq[c]) /\ 1 \in 1 .. k /\ 1 <= k
  <2>1. Len(sq[c]) \in Nat
    BY SMT DEF Filing
  <2> QED
    BY <2>1, SMTT(30)
<1>2. x \in Slots(st) /\ h \in Slots(st)
  <2>1. sq[to] \in Seq(Slots(st)) /\ sq[c] \in Seq(Slots(st))
    BY DEF Filing
  <2> QED
    BY <1>1, <2>1, SMT
<1>3. Rightly(st, pr, c, k, c, 1, h) /\ Rightly(st, pr, c, k, to, i, x)
  BY <1>1 DEF Filing
<1>4. x[1] = c /\ h[1] = c => x[2] < h[2]
  BY <1>1 DEF Filing
<1>5. Target(st, pr, h) # c
  OBVIOUS
<1> HIDE DEF x, h
<1>6. /\ x[1] \in Int /\ x[2] \in Int /\ h[1] \in Int /\ h[2] \in Int /\ c \in Int /\ to \in Int
  BY <1>2, SlotNumbers, SMTT(30) DEF Priorities
<1>7. h[1] = c
  BY <1>3, <1>5, <1>6, SMTT(30) DEF Rightly
<1>8. x[1] = to \/ x[1] >= c
  BY <1>3, <1>6, SMTT(30) DEF Rightly
<1>9. FiledBefore(to, x, h)
  BY <1>4, <1>6, <1>7, <1>8, SMTT(30) DEF FiledBefore
<1> QED
  BY <1>9 DEF x, h

(* An iteration of the inner loop. *)
LEMMA RefileKeeps ==
    ASSUME NEW st \in [Priorities -> Seq(Tasks)], NEW pr \in [Tasks -> Priorities], NEW sq,
           NEW c \in Priorities, NEW k \in Nat \ {0}, Filing(st, pr, sq, c, k), k <= Len(sq[c]),
           NEW to, to = Target(st, pr, sq[c][1]),
           NEW SQ, SQ = push_back(pop_front(sq, c), to, Head(sq[c]))
    PROVE  Filing(st, pr, SQ, c, k - 1) /\ k - 1 <= Len(SQ[c])
<1> DEFINE h == sq[c][1]
           K == k - 1
           at(p, i) == IF p = c THEN i + 1 ELSE i
<1>1. /\ sq \in [Priorities -> Seq(Slots(st))] /\ Len(sq[c]) \in Nat /\ Len(sq[c]) > 0
      /\ 1 \in 1 .. Len(sq[c]) /\ 1 <= k /\ K \in Nat
  <2>1. sq \in [Priorities -> Seq(Slots(st))]
    BY DEF Filing
  <2>2. Len(sq[c]) \in Nat
    BY <2>1, SMT
  <2> QED
    BY <2>1, <2>2, SMT
<1>2. h \in Slots(st) /\ to \in Priorities
  <2>1. h \in Slots(st)
    BY <1>1, SMT
  <2>2. TaskAt(st, h) \in Tasks
    BY <2>1, SlotIsPlace
  <2> QED
    BY <2>1, <2>2 DEF Target
<1>3. /\ SQ \in [Priorities -> Seq(Slots(st))]
      /\ Len(SQ[to]) \in Nat \ {0} /\ SQ[to][Len(SQ[to])] = h
      /\ \A p \in Priorities : \A i \in 1 .. Len(SQ[p]) :
            \/ p = to /\ i = Len(SQ[to]) /\ SQ[p][i] = h
            \/ /\ SQ[p][i] = Kept(sq, c, p, i) /\ (p = to => i < Len(SQ[to]))
               /\ (IF p = c THEN i + 1 ELSE i) \in 1 .. Len(sq[p])
      /\ \A p \in Priorities : \A i \in 1 .. Len(sq[p]) :
            \/ p = c /\ i = 1
            \/ \E j \in 1 .. Len(SQ[p]) : SQ[p][j] = sq[p][i]
      /\ Len(SQ[c]) >= Len(sq[c]) - 1 /\ (to = c => Len(SQ[c]) = Len(sq[c]))
  <2>1. Shifted(st, sq, c, to, SQ)
    BY <1>1, <1>2, RefilePlaces
  <2> QED
    BY <2>1 DEF Shifted
<1>4. /\ \A p \in Priorities : \A i \in 1 .. Len(sq[p]) : Rightly(st, pr, c, k, p, i, sq[p][i])
      /\ \A p \in Priorities : Ordered(sq[p], c, k, p)
      /\ \A p \in Priorities : \A i \in 1 .. Len(sq[p]) : \A j \in 1 .. k :
            p # c /\ sq[p][i][1] = c /\ sq[c][j][1] = c => sq[p][i][2] < sq[c][j][2]
      /\ \A s \in Slots(st) : \E p \in Priorities : \E i \in 1 .. Len(sq[p]) : sq[p][i] = s
  BY DEF Filing
<1>5. K <= Len(SQ[c]) /\ Len(SQ[c]) \in Nat /\ (to = c => k <= Len(SQ[c]))
  <2>1. Len(SQ[c]) \in Nat
    BY <1>3, SMT
  <2> QED
    BY <1>1, <1>3, <2>1, SMTT(30)
<1>6. Rightly(st, pr, c, k, c, 1, h) /\ to = Target(st, pr, h)
  BY <1>1, <1>4
<1>7. c \in Int /\ \A p \in Priorities : p \in Int
  BY SMT DEF Priorities
<1>8. ASSUME NEW p \in Priorities, NEW i \in 1 .. Len(SQ[p])
      PROVE  /\ i \in Nat \ {0}
             /\ \/ p = to /\ i = Len(SQ[to]) /\ SQ[p][i] = h
                \/ /\ SQ[p][i] = sq[p][at(p, i)] /\ (p = to => i < Len(SQ[to]))
                   /\ at(p, i) \in 1 .. Len(sq[p])
  <2>1. Len(SQ[p]) \in Nat
    BY <1>3, SMTT(30)
  <2>2. i \in Nat \ {0}
    BY <2>1, SMT
  <2> QED
    BY <1>3, <2>2 DEF Kept
<1> HIDE DEF h, K
<1>9. ASSUME NEW p \in Priorities, NEW i \in 1 .. Len(SQ[p])
      PROVE  Rightly(st, pr, c, K, p, i, SQ[p][i])
  <2>1. CASE p = to /\ i = Len(SQ[to]) /\ SQ[p][i] = h
    <3>1. h[1] \in Int
      BY <1>2, SlotNumbers
    <3>2. h[1] >= c
      BY <1>6, <1>7 DEF Rightly
    <3>3. Target(st, pr, SQ[p][i]) = p /\ SQ[p][i][1] >= c
      BY <1>6, <2>1, <3>2
    <3> QED
      BY <3>3 DEF Rightly
  <2>2. CASE SQ[p][i] = sq[p][at(p, i)] /\ at(p, i) \in 1 .. Len(sq[p])
    <3>1. Rightly(st, pr, c, k, p, at(p, i), SQ[p][i])
      BY <1>4, <2>2
    <3>2. p = c /\ i > K => at(p, i) > k
      BY <1>8, SMT DEF K
    <3> HIDE DEF at
    <3> QED
      BY <3>1, <3>2 DEF Rightly
  <2> QED
    BY <1>8, <2>1, <2>2
<1>10. ASSUME NEW p \in Priorities, NEW i \in 1 .. Len(SQ[p]), NEW j \in 1 .. Len(SQ[p]), i < j
       PROVE  /\ p # c \/ j <= K \/ i > K => FiledBefore(p, SQ[p][i], SQ[p][j])
              /\ p = c /\ i <= K /\ K < j => FiledBefore(p, SQ[p][j], SQ[p][i])
  <2>1. i \in Nat \ {0} /\ j \in Nat \ {0}
    BY <1>8
  <2>2. /\ SQ[p][i] = sq[p][at(p, i)] /\ (p = to => i < Len(SQ[to]))
        /\ at(p, i) \in 1 .. Len(sq[p])
    <3>1. ~(p = to /\ i = Len(SQ[to]))
      <4>1. Len(SQ[p]) \in Nat /\ j <= Len(SQ[p])
        <5>1. Len(SQ[p]) \in Nat
          BY <1>3, SMT
        <5> QED
          BY <5>1, SMTT(30)
      <4> QED
        BY <1>10, <2>1, <4>1, SMTT(30)
    <3> QED
      BY <1>8, <3>1
  <2>3. CASE SQ[p][j] = sq[p][at(p, j)] /\ at(p, j) \in 1 .. Len(sq[p])
    <3>1. at(p, i) < at(p, j)
      BY <1>10, <2>1, SMTT(30)
    <3>2. /\ p # c \/ at(p, j) <= k \/ at(p, i) > k => FiledBefore(p, SQ[p][i], SQ[p][j])
          /\ p = c /\ at(p, i) <= k /\ k < at(p, j) => FiledBefore(p, SQ[p][j], SQ[p][i])
      <4>1. Ordered(sq[p], c, k, p)
        BY <1>4
      <4> HIDE DEF at
      <4> QED
        BY <2>2, <2>3, <3>1, <4>1 DEF Ordered
    <3>3. CASE p = c
      <4>1. /\ j <= K => at(p, j) <= k /\ (i > K => at(p, i) > k)
            /\ i <= K => at(p, i) <= k /\ (K < j => k < at(p, j))
        BY <2>1, <3>3, SMTT(30) DEF K
      <4>2. /\ i > K => at(p, i) > k
            /\ K < j => k < at(p, j)
        BY <2>1, <3>3, SMTT(30) DEF K
      <4> HIDE DEF at
      <4> QED
        BY <3>2, <4>1, <4>2
    <3> QED
      BY <3>2, <3>3
  <2>4. CASE p = to /\ j = Len(SQ[to]) /\ SQ[p][j] = h
    <3>1. CASE to # c
      <4>1. SQ[p][i] = sq[to][i] /\ i \in 1 .. Len(sq[to])
        BY <2>2, <2>4, <3>1
      <4>2. FiledBefore(to, sq[to][i], sq[c][1])
        BY <1>2, <3>1, <4>1, FiledLast
      <4> QED
        BY <2>4, <3>1, <4>1, <4>2 DEF h
    <3>2. CASE to = c
      <4>1. /\ SQ[p][i] = sq[c][i + 1] /\ i + 1 \in 1 .. Len(sq[c]) /\ 1 \in 1 .. Len(sq[c])
            /\ 1 < i + 1 /\ ~(j <= K) /\ K < j
        <5>1. 1 < i + 1 /\ ~(j <= K) /\ K < j
          BY <1>5, <2>1, <2>4, <3>2, SMTT(30) DEF K
        <5> QED
          BY <1>1, <2>2, <2>4, <3>2, <5>1
      <4>2. /\ i + 1 <= k => FiledBefore(c, h, sq[c][i + 1])
            /\ k < i + 1 => FiledBefore(c, sq[c][i + 1], h)
        <5>1. Ordered(sq[c], c, k, c)
          BY <1>4
        <5> QED
          BY <1>1, <4>1, <5>1 DEF Ordered, h
      <4>3. (i > K => k < i + 1) /\ (i <= K => i + 1 <= k)
        BY <2>1, SMT DEF K
      <4> QED
        BY <2>4, <3>2, <4>1, <4>2, <4>3
    <3> QED
      BY <3>1, <3>2
  <2> QED
    BY <1>8, <2>3, <2>4
<1>11. ASSUME NEW p \in Priorities, NEW i \in 1 .. Len(SQ[p]), NEW j \in 1 .. K,
              p # c, SQ[p][i][1] = c, SQ[c][j][1] = c
       PROVE  SQ[p][i][2] < SQ[c][j][2]
  <2>1. j + 1 \in 1 .. k /\ j \in 1 .. Len(SQ[c]) /\ ~(c = to /\ j = Len(SQ[to])) /\ 1 < j + 1
    BY <1>1, <1>5, SMT DEF K
  <2>2. SQ[c][j] = sq[c][j + 1] /\ j + 1 \in 1 .. Len(sq[c])
    BY <1>8, <2>1
  <2>3. CASE p = to /\ i = Len(SQ[to]) /\ SQ[p][i] = h
    <3>1. FiledBefore(c, sq[c][1], sq[c][j + 1])
      <4>1. Ordered(sq[c], c, k, c) /\ j + 1 <= k
        BY <1>4, <2>1, SMTT(30)
      <4> QED
        BY <1>1, <2>1, <2>2, <4>1 DEF Ordered
    <3>2. h[1] = sq[c][j + 1][1]
      BY <1>11, <2>2, <2>3
    <3> QED
      BY <2>2, <2>3, <3>1, <3>2 DEF FiledBefore, h
  <2>4. CASE SQ[p][i] = sq[p][at(p, i)] /\ at(p, i) \in 1 .. Len(sq[p])
    <3>1. SQ[p][i] = sq[p][i] /\ i \in 1 .. Len(sq[p])
      BY <1>11, <2>4
    <3>2. sq[p][i][1] = c /\ sq[c][j + 1][1] = c
      BY <1>11, <2>2, <3>1
    <3>3. sq[p][i][2] < sq[c][j + 1][2]
      BY <1>4, <1>11, <2>1, <3>1, <3>2
    <3> QED
      BY <2>2, <3>1, <3>3
  <2> QED
    BY <1>8, <2>3, <2>4
<1>12. ASSUME NEW s \in Slots(st)
       PROVE  \E p \in Priorities : \E i \in 1 .. Len(SQ[p]) : SQ[p][i] = s
  <2>0. PICK p \in Priorities : \E i \in 1 .. Len(sq[p]) : sq[p][i] = s
    BY <1>4
  <2>1. PICK i \in 1 .. Len(sq[p]) : sq[p][i] = s
    BY <2>0
  <2>2. CASE p = c /\ i = 1
    <3>1. Len(SQ[to]) \in Nat \ {0}
      BY <1>3
    <3>2. Len(SQ[to]) \in 1 .. Len(SQ[to])
      BY <3>1, SMTT(30)
    <3>3. SQ[to][Len(SQ[to])] = s
      BY <1>3, <2>1, <2>2 DEF h
    <3> QED
      BY ONLY <1>2, <3>2, <3>3, ZenonT(30)
  <2>3. CASE ~(p = c /\ i = 1)
    <3>1. \E j \in 1 .. Len(SQ[p]) : SQ[p][j] = sq[p][i]
      BY <1>3, <2>3
    <3> QED
      BY ONLY <2>1, <3>1, ZenonT(30)
  <2> QED
    BY <2>2, <2>3
<1>13. Filing(st, pr, SQ, c, K)
  <2>1. \A p \in Priorities : Ordered(SQ[p], c, K, p)
    BY <1>10 DEF Ordered
  <2> QED
    BY <1>3, <1>9, <1>11, <1>12, <2>1 DEF Filing
<1> QED
  BY <1>5, <1>13 DEF K

(* The outer loop goes to the next level, and after the last one ends. *)
LEMMA NextLevelKeeps ==
    ASSUME NEW st \in [Priorities -> Seq(Tasks)], NEW pr, NEW sq,
           NEW c \in Priorities, Filing(st, pr, sq, c, 0),
           NEW k, k = IF c > 0 THEN Len(sq[c - 1]) ELSE 0
    PROVE  Filing(st, pr, sq, c - 1, k)
<1> DEFINE d == c - 1
<1>1. c \in Nat /\ d \in Int /\ (\A p \in Priorities : p \in Nat) /\ (d \in Priorities <=> c > 0)
  BY MaxPriorityAssumption, SMT DEF Priorities
<1>2. \A p \in Priorities : sq[p] \in Seq(Slots(st)) /\ Len(sq[p]) \in Nat
  BY SMT DEF Filing
<1>3. ASSUME NEW p \in Priorities, NEW i \in 1 .. Len(sq[p])
      PROVE  /\ i \in Nat \ {0} /\ Rightly(st, pr, c, 0, p, i, sq[p][i])
             /\ sq[p][i] \in Slots(st) /\ sq[p][i][1] \in Int /\ (p = d => i <= k)
  <2>1. i \in Nat \ {0} /\ sq[p][i] \in Slots(st)
    BY <1>2, SMT
  <2>2. Rightly(st, pr, c, 0, p, i, sq[p][i])
    BY DEF Filing
  <2>3. p = d => i <= k
    <3>1. ASSUME p = d PROVE i <= k
      <4>1. c > 0 /\ Len(sq[p]) \in Nat
        BY <1>1, <1>2, <3>1
      <4>2. k = Len(sq[p])
        BY <3>1, <4>1
      <4> QED
        BY <2>1, <4>1, <4>2, SMTT(30)
    <3> QED
      BY <3>1
  <2> QED
    BY <2>1, <2>2, <2>3, SlotNumbers
<1> HIDE DEF d
<1>4. d = c - 1
  BY DEF d
<1>5. ASSUME NEW p \in Priorities, NEW i \in 1 .. Len(sq[p])
      PROVE  Rightly(st, pr, d, k, p, i, sq[p][i])
  <2> DEFINE x == sq[p][i]
             T == Target(st, pr, x)
  <2>1. /\ i \in Nat \ {0} /\ Rightly(st, pr, c, 0, p, i, x) /\ x[1] \in Int
        /\ p \in Int /\ (p = d => i <= k)
    <3>1. p \in Int
      BY <1>1, SMT
    <3> QED
      BY <1>3, <3>1
  <2>2. /\ p > c => T = p /\ x[1] >= c
        /\ p < c => x[1] = p \/ (x[1] >= c /\ T = p)
        /\ p = c => x[1] >= c /\ T = c
    <3>1. i > 0
      BY <2>1, SMT
    <3> QED
      BY <2>1, <3>1 DEF Rightly
  <2>3. k \in Nat
    <3>1. CASE c > 0
      BY <1>1, <1>2, <1>4, <3>1
    <3>2. CASE ~(c > 0)
      BY <3>2, SMT
    <3> QED
      BY <3>1, <3>2
  <2> HIDE DEF x
  <2> SUFFICES Rightly(st, pr, d, k, p, i, x)
    BY DEF x
  <2> SUFFICES /\ p > d => T = p /\ x[1] >= d
               /\ p < d => x[1] = p \/ (x[1] >= d /\ T = p)
               /\ p = d => x[1] >= d /\ (i > k \/ x[1] > d => T = d)
    BY DEF Rightly
  <2> HIDE DEF T
  <2> QED
    BY <1>1, <1>4, <2>1, <2>2, <2>3, SMTT(30)
<1>6. ASSUME NEW p \in Priorities PROVE Ordered(sq[p], d, k, p)
  <2>1. Ordered(sq[p], c, 0, p)
    BY DEF Filing
  <2>2. ASSUME NEW i \in 1 .. Len(sq[p]), NEW j \in 1 .. Len(sq[p]), i < j
        PROVE  FiledBefore(p, sq[p][i], sq[p][j]) /\ ~(p = d /\ k < j)
    <3>1. i > 0
      BY <1>3, SMT
    <3>2. FiledBefore(p, sq[p][i], sq[p][j])
      BY <2>1, <2>2, <3>1 DEF Ordered
    <3>3. p = d => j <= k
      BY <1>3
    <3>4. p = d => k \in Int
      BY <1>1, <1>2, <1>4, SMTT(30)
    <3>5. j \in Int
      BY <1>3, SMTT(30)
    <3> QED
      BY <3>2, <3>3, <3>4, <3>5, SMTT(30)
  <2> QED
    BY <2>2 DEF Ordered
<1>7. ASSUME NEW p \in Priorities, NEW i \in 1 .. Len(sq[p]), p # d
      PROVE  sq[p][i][1] # d
  <2>1. /\ i \in Nat \ {0} /\ Rightly(st, pr, c, 0, p, i, sq[p][i]) /\ sq[p][i][1] \in Int
        /\ p \in Int
    BY <1>1, <1>3, SMTT(30)
  <2>2. p >= c => sq[p][i][1] >= c
    BY <1>1, <2>1, SMTT(30) DEF Rightly
  <2>3. p < c => sq[p][i][1] = p \/ sq[p][i][1] >= c
    BY <2>1 DEF Rightly
  <2> QED
    BY <1>1, <1>4, <1>7, <2>1, <2>2, <2>3, SMTT(30)
<1>8. Filing(st, pr, sq, d, k)
  BY <1>5, <1>6, <1>7 DEF Filing
<1> QED
  BY <1>8 DEF d

(* The slot whose task refresh_aging puts at place k. *)
SlotAt(filed, p, k) == CHOOSE s \in filed : PlaceOf(filed, p, s) = k

(* u lists the slots filed at level p in their order; the tasks of a list. *)
Lists(u, filed, p) ==
    /\ u \in Seq(filed) /\ \A s \in filed : \E i \in 1 .. Len(u) : u[i] = s
    /\ \A i, j \in 1 .. Len(u) : i < j => FiledBefore(p, u[i], u[j])

TasksOf(st, u) == [i \in 1 .. Len(u) |-> TaskAt(st, u[i])]

(* A listing of the slots filed at a level in the order of FiledBefore is  *)
(* what refresh_aging makes of that level.                                 *)
LEMMA ListingIsRefresh ==
    ASSUME NEW st \in [Priorities -> Seq(Tasks)], NEW pr, NEW p \in Priorities,
           NEW u, Lists(u, FiledAt(st, pr, p), p)
    PROVE  refresh_aging(st, pr)[p] = TasksOf(st, u)
<1> DEFINE n == Len(u)
<1> SUFFICES ASSUME NEW filed, filed = FiledAt(st, pr, p), u \in Seq(filed),
                    \A s \in filed : \E i \in 1 .. Len(u) : u[i] = s,
                    \A i, j \in 1 .. Len(u) : i < j => FiledBefore(p, u[i], u[j])
             PROVE  refresh_aging(st, pr)[p] = TasksOf(st, u)
  BY DEF Lists
<1>1. n \in Nat /\ \A i \in 1 .. n : u[i] \in filed
  BY SMT
<1>2. filed \in SUBSET Slots(st)
  BY DEF FiledAt
<1>3. \A i, j \in 1 .. n : u[i] = u[j] => i = j
  <2> SUFFICES ASSUME NEW i \in 1 .. n, NEW j \in 1 .. n, u[i] = u[j], i # j PROVE FALSE
    OBVIOUS
  <2>1. i < j \/ j < i
    BY <1>1, SMT
  <2>2. FiledBefore(p, u[i], u[i])
    BY <2>1
  <2>3. u[i] \in Slots(st)
    BY <1>1, <1>2
  <2> QED
    BY <2>2, <2>3, FiledBeforeOrder
<1>4. ASSUME NEW k \in Nat, k <= n, NEW S, S = {u[i] : i \in 1 .. k}
      PROVE  IsFiniteSet(S) /\ Cardinality(S) = k
  <2> DEFINE f == [i \in 1 .. k |-> u[i]]
  <2>1. \A i \in 1 .. k : i \in 1 .. n
    BY <1>1, <1>4, SMT
  <2>2. f \in Bijection(1 .. k, S)
    <3>1. f \in [1 .. k -> S]
      BY <1>4
    <3>2. \A i, j \in 1 .. k : f[i] = f[j] => i = j
      BY <1>3, <2>1
    <3>3. \A s \in S : \E i \in 1 .. k : f[i] = s
      BY <1>4
    <3> QED
      BY <3>1, <3>2, <3>3 DEF Bijection, Injection, Surjection, IsInjective
  <2>3. IsFiniteSet(1 .. k) /\ Cardinality(1 .. k) = k
    BY FS_Interval, SMT
  <2>4. ExistsBijection(1 .. k, S)
    BY <2>2 DEF ExistsBijection
  <2> QED
    BY <2>3, <2>4, FS_Bijection
<1>5. Cardinality(filed) = n
  <2>1. filed = {u[i] : i \in 1 .. n}
    BY <1>1
  <2>2. n <= n
    BY <1>1, SMT
  <2> QED
    BY <1>1, <1>4, <2>1, <2>2
<1>6. ASSUME NEW k \in 1 .. n PROVE PlaceOf(filed, p, u[k]) = k
  <2>1. k \in Nat /\ k <= n /\ \A i \in 1 .. n : i \in Int
    BY <1>1, SMT
  <2>2. ASSUME NEW i \in 1 .. n PROVE (u[i] = u[k] \/ FiledBefore(p, u[i], u[k])) <=> i \in 1 .. k
    <3>1. i < k => FiledBefore(p, u[i], u[k])
      OBVIOUS
    <3>2. i > k => u[i] # u[k] /\ ~FiledBefore(p, u[i], u[k])
      <4>1. i > k => k < i /\ i # k
        BY <2>1, SMT
      <4>2. i > k => FiledBefore(p, u[k], u[i]) /\ u[i] # u[k]
        BY <1>3, <4>1
      <4> QED
        BY <1>1, <1>2, <4>2, FiledBeforeOrder
    <3>3. i < k \/ i = k \/ i > k
      BY <2>1, SMT
    <3>4. i \in 1 .. k <=> i < k \/ i = k
      BY <2>1, SMTT(30)
    <3>5. i > k => ~(i < k \/ i = k)
      BY <2>1, SMT
    <3> QED
      BY <3>1, <3>2, <3>3, <3>4, <3>5
  <2>3. {r \in filed : r = u[k] \/ FiledBefore(p, r, u[k])} = {u[i] : i \in 1 .. k}
    <3>1. \A i \in 1 .. k : i \in 1 .. n
      BY <2>1, SMT
    <3>2. ASSUME NEW r \in filed, r = u[k] \/ FiledBefore(p, r, u[k])
          PROVE  r \in {u[i] : i \in 1 .. k}
      BY <2>2, <3>2
    <3>3. ASSUME NEW i \in 1 .. k
          PROVE  u[i] \in filed /\ (u[i] = u[k] \/ FiledBefore(p, u[i], u[k]))
      BY <1>1, <2>2, <3>1
    <3> DEFINE A == {r \in filed : r = u[k] \/ FiledBefore(p, r, u[k])}
               B == {u[i] : i \in 1 .. k}
    <3>4. \A r \in A : r \in B
      BY <3>2
    <3>5. \A r \in B : r \in A
      BY <3>3
    <3> HIDE DEF A, B
    <3>6. A = B
      BY <3>4, <3>5
    <3> QED
      BY <3>6 DEF A, B
  <2> QED
    BY <1>4, <2>1, <2>3 DEF PlaceOf
<1>7. ASSUME NEW k \in 1 .. n
      PROVE  SlotAt(filed, p, k) = u[k]
  <2>1. u[k] \in filed /\ PlaceOf(filed, p, u[k]) = k
    BY <1>1, <1>6
  <2>2. ASSUME NEW s \in filed, PlaceOf(filed, p, s) = k PROVE s = u[k]
    <3>1. PICK i \in 1 .. n : u[i] = s
      OBVIOUS
    <3> QED
      BY <1>6, <2>2, <3>1
  <2> QED
    BY <2>1, <2>2 DEF SlotAt
<1>8. refresh_aging(st, pr)[p] =
         [k \in 1 .. Cardinality(FiledAt(st, pr, p)) |-> TaskAt(st, SlotAt(FiledAt(st, pr, p), p, k))]
  BY DEF refresh_aging, SlotAt
<1>9. refresh_aging(st, pr)[p] = [k \in 1 .. n |-> TaskAt(st, SlotAt(filed, p, k))]
  BY <1>5, <1>8
<1> QED
  BY <1>7, <1>9 DEF TasksOf

(* The queues hold the tasks of those slots. *)
Mirrors(st, q, sq) ==
    \A p \in Priorities : /\ Len(q[p]) = Len(sq[p])
                          /\ \A i \in 1 .. Len(q[p]) : q[p][i] = TaskAt(st, sq[p][i])

LoopIInv ==
    /\ start \in [Priorities -> Seq(Tasks)] /\ new_priority \in [Tasks -> Priorities]
    /\ queues \in [Priorities -> Seq(Tasks)]
    /\ levels_left \in 0 .. MAX_PRIORITY + 1 /\ left \in Nat
    /\ \E sq : /\ Filing(start, new_priority, sq, old_priority, left)
               /\ Mirrors(start, queues, sq)
               /\ levels_left > 0 => left <= Len(sq[old_priority])

(* At the beginning every slot is in its place. *)
LEMMA LoopInitKeeps == LoopInit => LoopIInv
<1> SUFFICES ASSUME LoopInit PROVE LoopIInv
  OBVIOUS
<1>1. start \in [Priorities -> Seq(Tasks)]
  <2>1. Cardinality(Tasks) \in Nat
    BY TasksAssumption, FS_CardinalityType
  <2>2. start \in [Priorities -> UNION {[1 .. n -> Tasks] : n \in 0 .. Cardinality(Tasks)}]
    BY DEF LoopInit, Placements
  <2>3. ASSUME NEW p \in Priorities PROVE start[p] \in Seq(Tasks)
    <3>0. start[p] \in UNION {[1 .. n -> Tasks] : n \in 0 .. Cardinality(Tasks)}
      BY <2>2, <2>3
    <3>1. PICK n \in 0 .. Cardinality(Tasks) : start[p] \in [1 .. n -> Tasks]
      BY <3>0
    <3>2. n \in Nat
      BY <2>1, SMT
    <3> QED
      BY <3>1, <3>2, FunctionIsSeq
  <2> QED
    BY <2>2, <2>3
<1>2. /\ MAX_PRIORITY \in Nat /\ MAX_PRIORITY \in Priorities /\ old_priority = MAX_PRIORITY
      /\ levels_left \in 0 .. MAX_PRIORITY + 1 /\ \A p \in Priorities : p \in Int /\ p <= MAX_PRIORITY
  BY MaxPriorityAssumption, SMT DEF LoopInit, Priorities, old_priority
<1> DEFINE sq == [p \in Priorities |-> [i \in 1 .. Len(start[p]) |-> <<p, i>>]]
           c == MAX_PRIORITY
           k == Len(start[MAX_PRIORITY])
<1>3. ASSUME NEW p \in Priorities
      PROVE  /\ Len(start[p]) \in Nat /\ sq[p] \in Seq(Slots(start)) /\ Len(sq[p]) = Len(start[p])
             /\ \A i \in 1 .. Len(start[p]) : /\ sq[p][i] = <<p, i>> /\ sq[p][i] \in Slots(start)
                                             /\ sq[p][i][1] = p /\ sq[p][i][2] = i /\ i \in Int
                                             /\ start[p][i] = TaskAt(start, sq[p][i])
  <2>1. Len(start[p]) \in Nat
    BY <1>1, SMT
  <2>2. sq[p] = [i \in 1 .. Len(start[p]) |-> <<p, i>>]
    OBVIOUS
  <2> HIDE DEF sq
  <2>3. ASSUME NEW i \in 1 .. Len(start[p])
        PROVE  /\ sq[p][i] = <<p, i>> /\ sq[p][i] \in Slots(start)
               /\ sq[p][i][1] = p /\ sq[p][i][2] = i /\ i \in Int
               /\ start[p][i] = TaskAt(start, sq[p][i])
    <3>1. sq[p][i] = <<p, i>>
      BY <2>2
    <3>2. <<p, i>> \in Slots(start) /\ TaskAt(start, <<p, i>>) = start[p][i]
      BY <1>1, PlaceIsSlot
    <3>3. i \in Int /\ <<p, i>>[1] = p /\ <<p, i>>[2] = i
      BY <2>1, SMT
    <3> QED
      BY <3>1, <3>2, <3>3
  <2>4. sq[p] \in [1 .. Len(start[p]) -> Slots(start)]
    BY <2>2, <2>3
  <2>5. sq[p] \in Seq(Slots(start)) /\ Len(sq[p]) = Len(start[p])
    BY <2>1, <2>4, FunctionIsSeq
  <2> QED
    BY <2>1, <2>3, <2>5
<1>4. sq \in [Priorities -> Seq(Slots(start))]
  BY <1>3
<1> HIDE DEF sq
<1>5. Mirrors(start, queues, sq) /\ left = k /\ k \in Nat /\ k = Len(sq[c])
  BY <1>2, <1>3 DEF Mirrors, LoopInit
<1> HIDE DEF k
<1>6. ASSUME NEW s \in Slots(start)
      PROVE  \E p \in Priorities : \E i \in 1 .. Len(sq[p]) : sq[p][i] = s
  <2>1. s[1] \in Priorities /\ s[2] \in 1 .. Len(start[s[1]]) /\ s = <<s[1], s[2]>>
    BY <1>1, SlotIsPlace
  <2>2. s[2] \in 1 .. Len(sq[s[1]]) /\ sq[s[1]][s[2]] = <<s[1], s[2]>>
    BY <1>3, <2>1
  <2> QED
    BY <2>1, <2>2
<1>7. ASSUME NEW p \in Priorities, NEW i \in 1 .. Len(sq[p])
      PROVE  Rightly(start, new_priority, c, k, p, i, sq[p][i])
  <2>1. sq[p][i][1] = p /\ i \in Int /\ p \in Int /\ p <= c
    BY <1>2, <1>3
  <2>2. p = c => i <= k
    BY <1>2, <1>3, <1>5, SMTT(30)
  <2>3. ~(p > c) /\ (p = c => p >= c /\ ~(p > c) /\ ~(i > k))
    BY <1>2, <1>5, <2>1, <2>2, SMTT(30)
  <2> QED
    BY <2>1, <2>3 DEF Rightly
<1>8. ASSUME NEW p \in Priorities PROVE Ordered(sq[p], c, k, p)
  <2>1. ASSUME NEW i \in 1 .. Len(sq[p]), NEW j \in 1 .. Len(sq[p]), i < j
        PROVE  FiledBefore(p, sq[p][i], sq[p][j]) /\ ~(p = c /\ k < j)
    <3>1. sq[p][i][1] = p /\ sq[p][j][1] = p /\ sq[p][i][2] = i /\ sq[p][j][2] = j
      BY <1>3
    <3>2. ~(p = c /\ k < j)
      BY <1>2, <1>3, <1>5, SMTT(30)
    <3> QED
      BY <2>1, <3>1, <3>2 DEF FiledBefore
  <2> QED
    BY <2>1 DEF Ordered
<1>9. ASSUME NEW p \in Priorities, NEW i \in 1 .. Len(sq[p]), p # c PROVE sq[p][i][1] # c
  BY <1>3, <1>9
<1>10. Filing(start, new_priority, sq, c, k)
  BY <1>4, <1>6, <1>7, <1>8, <1>9 DEF Filing
<1>11. k <= Len(sq[c])
  BY <1>5, SMT
<1> QED
  BY <1>1, <1>2, <1>5, <1>10, <1>11 DEF LoopIInv, LoopInit

(* Both loops keep the invariant. *)
LEMMA LoopNextKeeps == LoopIInv /\ [LoopNext]_loop_vars => LoopIInv'
<1> SUFFICES ASSUME LoopIInv, LoopNext \/ UNCHANGED loop_vars PROVE LoopIInv'
  OBVIOUS
<1> DEFINE c == old_priority
<1>1. /\ start \in [Priorities -> Seq(Tasks)] /\ new_priority \in [Tasks -> Priorities]
      /\ queues \in [Priorities -> Seq(Tasks)]
      /\ levels_left \in 0 .. MAX_PRIORITY + 1 /\ left \in Nat
  BY DEF LoopIInv
<1>2. PICK sq : /\ Filing(start, new_priority, sq, c, left)
                /\ Mirrors(start, queues, sq)
                /\ levels_left > 0 => left <= Len(sq[c])
  BY DEF LoopIInv
<1>3. sq \in [Priorities -> Seq(Slots(start))] /\ \A p \in Priorities : Len(sq[p]) \in Nat
  <2>1. sq \in [Priorities -> Seq(Slots(start))]
    BY <1>2 DEF Filing
  <2> QED
    BY <2>1, SMT
<1>4. levels_left > 0 => c \in Priorities
  BY <1>1, MaxPriorityAssumption, SMTT(30) DEF Priorities, old_priority
<1>5. CASE RefileOne
  <2> DEFINE to == Target(start, new_priority, sq[c][1])
             SQ == push_back(pop_front(sq, c), to, Head(sq[c]))
  <2>1. /\ levels_left > 0 /\ c \in Priorities /\ left \in Nat \ {0} /\ left <= Len(sq[c])
        /\ UNCHANGED <<start, new_priority, levels_left>> /\ left' = left - 1
        /\ UNCHANGED old_priority
    BY <1>1, <1>2, <1>4, <1>5, SMTT(30) DEF RefileOne, old_priority
  <2>2. Filing(start, new_priority, SQ, c, left - 1) /\ left - 1 <= Len(SQ[c])
    BY <1>1, <1>2, <2>1, RefileKeeps
  <2>3. /\ Len(sq[c]) > 0 /\ Len(queues[c]) = Len(sq[c]) /\ 1 \in 1 .. Len(queues[c])
        /\ Len(queues[c]) > 0
    <3>1. Len(queues[c]) = Len(sq[c]) /\ Len(sq[c]) \in Nat
      BY <1>2, <1>3, <2>1 DEF Mirrors
    <3> QED
      BY <2>1, <3>1, SMT
  <2>4. /\ Head(queues[c]) = TaskAt(start, sq[c][1]) /\ Head(queues[c]) \in Tasks
        /\ new_priority[Head(queues[c])] = to /\ to \in Priorities
    <3>1. Head(queues[c]) = queues[c][1] /\ Head(queues[c]) \in Tasks
      BY <1>1, <2>1, <2>3, SMT
    <3>2. queues[c][1] = TaskAt(start, sq[c][1])
      BY <1>2, <2>1, <2>3 DEF Mirrors
    <3> QED
      BY <1>1, <3>1, <3>2 DEF Target
  <2>5. queues' = push_back(pop_front(queues, c), to, Head(queues[c]))
    BY <1>5, <2>4 DEF RefileOne
  <2> HIDE DEF to
  <2>6. Moved(Slots(start), sq, c, to, SQ)
    BY <1>3, <2>1, <2>3, <2>4, MovePlaces
  <2>7. Moved(Tasks, queues, c, to, queues')
    BY <1>1, <2>1, <2>3, <2>4, <2>5, MovePlaces
  <2> HIDE DEF SQ
  <2>8. Mirrors(start, queues', SQ)
    <3> SUFFICES ASSUME NEW p \in Priorities
                 PROVE  /\ Len(queues'[p]) = Len(SQ[p])
                        /\ \A i \in 1 .. Len(queues'[p]) : queues'[p][i] = TaskAt(start, SQ[p][i])
      BY DEF Mirrors
    <3>1. Len(queues'[p]) = Len(SQ[p])
      <4>1. Len(queues[p]) = Len(sq[p])
        BY <1>2 DEF Mirrors
      <4>2. Len(queues'[p]) = Len(queues[p]) - (IF p = c THEN 1 ELSE 0) + (IF p = to THEN 1 ELSE 0)
        BY <2>7 DEF Moved
      <4>3. Len(SQ[p]) = Len(sq[p]) - (IF p = c THEN 1 ELSE 0) + (IF p = to THEN 1 ELSE 0)
        BY <2>6 DEF Moved
      <4> QED
        BY <4>1, <4>2, <4>3
    <3>2. ASSUME NEW i \in 1 .. Len(queues'[p])
          PROVE  queues'[p][i] = TaskAt(start, SQ[p][i])
      <4> DEFINE o == Origin(queues, c, to, p, i)
      <4>1. o = Origin(sq, c, to, p, i)
        BY <1>2, <2>4 DEF Origin, Mirrors
      <4>2. /\ o[1] \in Priorities /\ o[2] \in 1 .. Len(queues[o[1]])
            /\ queues'[p][i] = queues[o[1]][o[2]]
        BY <2>7 DEF Moved
      <4> HIDE DEF o
      <4>3. SQ[p][i] = sq[o[1]][o[2]]
        BY <2>6, <3>1, <4>1 DEF Moved
      <4> QED
        BY <1>2, <4>2, <4>3 DEF Mirrors
    <3> QED
      BY <3>1, <3>2
  <2>9. queues' \in [Priorities -> Seq(Tasks)] /\ left' \in Nat
    BY <1>1, <2>1, <2>7, SMTT(30) DEF Moved
  <2> QED
    BY <1>1, <2>1, <2>2, <2>8, <2>9 DEF LoopIInv
<1>6. CASE NextLevel
  <2> DEFINE k == IF c > 0 THEN Len(sq[c - 1]) ELSE 0
  <2>1. /\ levels_left > 0 /\ c \in Priorities /\ left = 0
        /\ UNCHANGED <<start, new_priority, queues>> /\ levels_left' = levels_left - 1
        /\ left' = IF levels_left > 1 THEN Len(queues[c - 1]) ELSE 0
    BY <1>4, <1>6 DEF NextLevel
  <2>2. /\ old_priority' = c - 1 /\ levels_left' \in 0 .. MAX_PRIORITY + 1 /\ c \in Nat
        /\ levels_left > 1 <=> c > 0
    BY <1>1, <2>1, MaxPriorityAssumption, SMTT(30) DEF old_priority
  <2>3. c > 0 => c - 1 \in Priorities
    BY <2>1, <2>2, MaxPriorityAssumption, SMTT(30) DEF Priorities
  <2>4. Filing(start, new_priority, sq, c - 1, k)
    BY <1>1, <1>2, <2>1, NextLevelKeeps
  <2>5. left' = k /\ k \in Nat /\ (c > 0 => k <= Len(sq[c - 1]))
    <3>1. CASE c > 0
      <4>1. k = Len(sq[c - 1]) /\ k \in Nat /\ left' = k
        BY <1>2, <1>3, <2>1, <2>2, <2>3, <3>1 DEF Mirrors
      <4> QED
        BY <4>1, SMT
    <3>2. CASE ~(c > 0)
      <4>1. k = 0 /\ left' = 0
        BY <2>1, <2>2, <3>2
      <4> QED
        BY <3>2, <4>1, SMT
    <3> QED
      BY <3>1, <3>2
  <2>6. levels_left' > 0 => c > 0
    BY <1>1, <2>1, <2>2, SMT
  <2> HIDE DEF k
  <2> QED
    BY <1>1, <1>2, <2>1, <2>2, <2>4, <2>5, <2>6 DEF LoopIInv
<1>7. CASE UNCHANGED loop_vars
  BY <1>7 DEF loop_vars, LoopIInv, old_priority
<1> QED
  BY <1>5, <1>6, <1>7 DEF LoopNext

(* The loop of PriorityScheduler::refresh_aging, which pops and pushes the *)
(* queues it is walking through, leaves what the operator refresh_aging    *)
(* says, however many levels there are, wherever the tasks are queued and  *)
(* whatever their new priorities; so what is proved of the operator holds  *)
(* of the loop.                                                            *)
THEOREM LoopIsRefresh == LoopSpec => []LoopComputesRefresh
<1>1. LoopIInv => LoopComputesRefresh
  <2> SUFFICES ASSUME LoopIInv, LoopDone PROVE queues = refresh_aging(start, new_priority)
    BY DEF LoopComputesRefresh
  <2> DEFINE F(p) == FiledAt(start, new_priority, p)
  <2>1. /\ start \in [Priorities -> Seq(Tasks)] /\ queues \in [Priorities -> Seq(Tasks)]
        /\ left \in Nat
    BY DEF LoopIInv
  <2>2. PICK sq : /\ Filing(start, new_priority, sq, old_priority, left)
                  /\ Mirrors(start, queues, sq)
    BY DEF LoopIInv
  <2>3. \A p \in Priorities : p > old_priority /\ p # old_priority
    BY SMT DEF LoopDone, old_priority, Priorities
  <2>4. ASSUME NEW p \in Priorities
        PROVE  queues[p] = refresh_aging(start, new_priority)[p]
    <3>1. sq[p] \in Seq(Slots(start)) /\ Len(sq[p]) = Len(queues[p])
      BY <2>2 DEF Filing, Mirrors
    <3>2. ASSUME NEW i \in 1 .. Len(sq[p]) PROVE sq[p][i] \in F(p)
      <4>1. sq[p][i] \in Slots(start)
        BY <3>1, SMT
      <4>2. Target(start, new_priority, sq[p][i]) = p
        BY <2>2, <2>3 DEF Filing, Rightly
      <4> QED
        BY <4>1, <4>2 DEF FiledAt, Target
    <3>3. sq[p] \in Seq(F(p))
      BY <3>1, <3>2, SMT
    <3>4. ASSUME NEW s \in F(p) PROVE \E i \in 1 .. Len(sq[p]) : sq[p][i] = s
      <4>1. s \in Slots(start) /\ Target(start, new_priority, s) = p
        BY DEF FiledAt, Target
      <4>2. PICK r \in Priorities : \E i \in 1 .. Len(sq[r]) : sq[r][i] = s
        BY <2>2, <4>1 DEF Filing
      <4>3. Target(start, new_priority, s) = r
        BY <2>2, <2>3, <4>2 DEF Filing, Rightly
      <4> QED
        BY <4>1, <4>2, <4>3
    <3>5. \A i, j \in 1 .. Len(sq[p]) : i < j => FiledBefore(p, sq[p][i], sq[p][j])
      BY <2>2, <2>3 DEF Filing, Ordered
    <3> HIDE DEF F
    <3>6. refresh_aging(start, new_priority)[p] = TasksOf(start, sq[p])
      <4>1. Lists(sq[p], F(p), p)
        BY <3>3, <3>4, <3>5 DEF Lists
      <4>2. Lists(sq[p], FiledAt(start, new_priority, p), p)
        BY <4>1 DEF F
      <4>3. start \in [Priorities -> Seq(Tasks)] /\ p \in Priorities
        BY <2>1
      <4> QED
        BY ONLY <4>2, <4>3, ListingIsRefresh, ZenonT(30)
    <3>7. queues[p] = [i \in 1 .. Len(queues[p]) |-> queues[p][i]]
      BY <2>1, SMT
    <3>8. \A i \in 1 .. Len(queues[p]) : queues[p][i] = TaskAt(start, sq[p][i])
      BY <2>2 DEF Mirrors
    <3> QED
      BY <3>1, <3>6, <3>7, <3>8 DEF TasksOf
  <2>5. refresh_aging(start, new_priority)
          = [p \in Priorities |-> refresh_aging(start, new_priority)[p]]
    BY DEF refresh_aging
  <2> QED
    BY <2>1, <2>4, <2>5
<1> QED
  BY <1>1, LoopInitKeeps, LoopNextKeeps, PTL DEF LoopSpec
=============================================================================
