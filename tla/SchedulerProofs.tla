-------------------------- MODULE SchedulerProofs --------------------------
(***************************************************************************)
(* The safety invariants of Scheduler, the order it keeps among waiting    *)
(* tasks and its refinement of SchedulingPolicy, for every finite set of   *)
(* tasks, number of levels, slice and aging interval.                      *)
(*                                                                         *)
(* First what the operations of ReadyQueues do to the queued tasks:        *)
(* push_back adds one, pop_front removes one, and refresh_aging neither    *)
(* loses nor duplicates any and keeps their order within a level.          *)
(*                                                                         *)
(* ReadyIffQueuedOnce, BooksAgree and CurrentIsRunning are not inductive   *)
(* one by one: that a task is pushed only when it is not queued follows    *)
(* from the flag, which follows from the queues, which follows from the    *)
(* states.  Together they are inductive, given that refresh_aging moves    *)
(* tasks without losing or duplicating any (RefreshKeepsTasks).            *)
(*                                                                         *)
(* Then the same queues with timers (SleepTimers): add_timer, check_timer  *)
(* and the tasks that block and wake, also with the interrupt in between.  *)
(*                                                                         *)
(* RefreshProofs shows that the loop of the source computes refresh_aging. *)
(***************************************************************************)
EXTENDS SleepTimers, Integers, FiniteSetTheorems, WellFoundedInduction, TLAPS

(* Zenon proves what needs no arithmetic; the other leaves cite SMT. *)
USE ZenonT(30)

(* No task is in two places. *)
NoDuplicates(q) ==
    \A s, r \in Slots(q) : TaskAt(q, s) = TaskAt(q, r) => s = r

(* A slot is a level and a place in the queue of that level. *)
LEMMA PlaceIsSlot ==
    ASSUME NEW q \in [Priorities -> Seq(Tasks)],
           NEW p \in Priorities, NEW i \in 1 .. Len(q[p])
    PROVE  <<p, i>> \in Slots(q) /\ TaskAt(q, <<p, i>>) = q[p][i]
<1>1. DOMAIN q[p] = 1 .. Len(q[p])
  BY SMT
<1> QED
  BY <1>1, SMT DEF Slots, TaskAt

(* Every slot is one, and holds a task. *)
LEMMA SlotIsPlace ==
    ASSUME NEW q \in [Priorities -> Seq(Tasks)], NEW s \in Slots(q)
    PROVE  /\ s[1] \in Priorities
           /\ s[2] \in 1 .. Len(q[s[1]])
           /\ s = <<s[1], s[2]>>
           /\ TaskAt(q, s) = q[s[1]][s[2]]
           /\ TaskAt(q, s) \in Tasks
<1>1. PICK p \in Priorities : s \in {p} \X DOMAIN q[p]
  BY DEF Slots
<1>2. q[p] \in Seq(Tasks) /\ DOMAIN q[p] = 1 .. Len(q[p])
  BY SMT
<1>3. s = <<s[1], s[2]>> /\ s[1] = p /\ s[2] \in 1 .. Len(q[p])
  BY <1>1, <1>2, SMT
<1>4. q[s[1]][s[2]] \in Tasks
  BY <1>2, <1>3, SMT
<1> QED
  BY <1>3, <1>4 DEF TaskAt

(* Only tasks are queued, and as many as there are slots. *)
LEMMA SlotsFinite ==
    ASSUME IsFiniteSet(Tasks),
           NEW q \in [Priorities -> Seq(Tasks)], NoDuplicates(q)
    PROVE  /\ QueuedTasks(q) \subseteq Tasks
           /\ IsFiniteSet(QueuedTasks(q))
           /\ IsFiniteSet(Slots(q))
<1> DEFINE f == [s \in Slots(q) |-> TaskAt(q, s)]
<1>1. f \in Injection(Slots(q), Tasks)
  BY SlotIsPlace DEF NoDuplicates, Injection, IsInjective
<1>2. QueuedTasks(q) \in SUBSET Tasks
  BY SlotIsPlace DEF QueuedTasks
<1> QED
  BY <1>1, <1>2, FS_Injection, FS_Subset

(* The places after enqueue: the old ones with the tasks they had, and one *)
(* more at the end of the level.                                           *)
LEMMA PushBackSlots ==
    ASSUME NEW q \in [Priorities -> Seq(Tasks)],
           NEW p \in Priorities, NEW t \in Tasks
    PROVE  /\ push_back(q, p, t) \in [Priorities -> Seq(Tasks)]
           /\ Slots(push_back(q, p, t)) = Slots(q) \cup {<<p, Len(q[p]) + 1>>}
           /\ \A s \in Slots(q) : TaskAt(push_back(q, p, t), s) = TaskAt(q, s)
           /\ TaskAt(push_back(q, p, t), <<p, Len(q[p]) + 1>>) = t
<1> DEFINE Q == push_back(q, p, t)
<1>1. /\ Q \in [Priorities -> Seq(Tasks)]
      /\ Q[p] = Append(q[p], t)
      /\ \A r \in Priorities : r # p => Q[r] = q[r]
  BY SMT DEF push_back
<1>2. /\ Len(Q[p]) = Len(q[p]) + 1
      /\ Q[p][Len(q[p]) + 1] = t
      /\ \A i \in 1 .. Len(q[p]) : Q[p][i] = q[p][i]
      /\ Len(q[p]) \in Nat
  BY <1>1, SMT
<1> HIDE DEF Q
<1>0. \A r \in Priorities : \A i \in 1 .. Len(Q[r]) :
         <<r, i>> \in Slots(Q) /\ TaskAt(Q, <<r, i>>) = Q[r][i]
  BY <1>1, PlaceIsSlot
<1>3. \A s \in Slots(Q) : s = <<p, Len(q[p]) + 1>> \/ s \in Slots(q)
  <2> SUFFICES ASSUME NEW s \in Slots(Q), s # <<p, Len(q[p]) + 1>>
               PROVE  s \in Slots(q)
    OBVIOUS
  <2>1. s[1] \in Priorities /\ s[2] \in 1 .. Len(Q[s[1]]) /\ s = <<s[1], s[2]>>
    BY <1>1, SlotIsPlace
  <2>2. s[2] \in 1 .. Len(q[s[1]])
    BY <1>1, <1>2, <2>1, SMT
  <2> QED
    BY <2>1, <2>2, PlaceIsSlot
<1>4. \A s \in Slots(q) : s \in Slots(Q) /\ TaskAt(Q, s) = TaskAt(q, s)
  <2> SUFFICES ASSUME NEW s \in Slots(q)
               PROVE  s \in Slots(Q) /\ TaskAt(Q, s) = TaskAt(q, s)
    OBVIOUS
  <2>1. s[1] \in Priorities /\ s[2] \in 1 .. Len(q[s[1]]) /\ s = <<s[1], s[2]>>
    BY SlotIsPlace
  <2>2. CASE s[1] = p
    <3>1. s[2] \in 1 .. Len(Q[p]) /\ Q[p][s[2]] = q[p][s[2]]
      BY <1>2, <2>1, <2>2, SMT
    <3> QED
      BY <1>0, <2>1, <2>2, <3>1 DEF TaskAt
  <2>3. CASE s[1] # p
    BY <1>0, <1>1, <2>1, <2>3, SMT DEF TaskAt
  <2> QED
    BY <2>2, <2>3
<1>5. /\ <<p, Len(q[p]) + 1>> \in Slots(Q)
      /\ TaskAt(Q, <<p, Len(q[p]) + 1>>) = t
  <2>1. Len(q[p]) + 1 \in 1 .. Len(Q[p])
    BY <1>2, SMT
  <2> QED
    BY <1>0, <1>2, <2>1
<1>6. Slots(Q) = Slots(q) \cup {<<p, Len(q[p]) + 1>>}
  BY <1>3, <1>4, <1>5
<1> QED
  BY <1>1, <1>4, <1>5, <1>6 DEF Q

(* enqueue: the task is queued behind the others of its level. *)
LEMMA PushBack ==
    ASSUME NEW q \in [Priorities -> Seq(Tasks)], NoDuplicates(q),
           NEW p \in Priorities, NEW t \in Tasks, t \notin QueuedTasks(q)
    PROVE  /\ push_back(q, p, t) \in [Priorities -> Seq(Tasks)]
           /\ NoDuplicates(push_back(q, p, t))
           /\ QueuedTasks(push_back(q, p, t)) = QueuedTasks(q) \cup {t}
<1> DEFINE Q == push_back(q, p, t)
           last == <<p, Len(q[p]) + 1>>
<1>1. /\ Q \in [Priorities -> Seq(Tasks)]
      /\ Slots(Q) = Slots(q) \cup {last}
      /\ \A s \in Slots(q) : TaskAt(Q, s) = TaskAt(q, s)
      /\ TaskAt(Q, last) = t
  BY PushBackSlots, SMT
<1> HIDE DEF Q, last
<1>2. \A s \in Slots(q) : TaskAt(q, s) # t
  BY DEF QueuedTasks
<1>3. NoDuplicates(Q)
  BY <1>1, <1>2 DEF NoDuplicates
<1>4. QueuedTasks(Q) = QueuedTasks(q) \cup {t}
  BY <1>1, SMT DEF QueuedTasks
<1> QED
  BY <1>1, <1>3, <1>4 DEF Q

(* The place a task of level p had before the first one left. *)
Behind(p, s) == IF s[1] = p THEN <<p, s[2] + 1>> ELSE s

(* The places after dequeue: every task of the level moves up by one. *)
LEMMA PopFrontSlots ==
    ASSUME NEW q \in [Priorities -> Seq(Tasks)],
           NEW p \in Priorities, q[p] # << >>
    PROVE  /\ pop_front(q, p) \in [Priorities -> Seq(Tasks)]
           /\ <<p, 1>> \in Slots(q) /\ TaskAt(q, <<p, 1>>) = Head(q[p])
           /\ \A s \in Slots(pop_front(q, p)) :
                 /\ Behind(p, s) \in Slots(q) /\ Behind(p, s) # <<p, 1>>
                 /\ TaskAt(q, Behind(p, s)) = TaskAt(pop_front(q, p), s)
<1> DEFINE Q == pop_front(q, p)
           old(s) == Behind(p, s)
<1>1. /\ Q \in [Priorities -> Seq(Tasks)]
      /\ Q[p] = Tail(q[p])
      /\ \A r \in Priorities : r # p => Q[r] = q[r]
  BY SMT DEF pop_front
<1>2. /\ Len(q[p]) \in Nat \ {0}
      /\ Len(Q[p]) = Len(q[p]) - 1
      /\ \A i \in 1 .. Len(Q[p]) : Q[p][i] = q[p][i + 1]
      /\ Head(q[p]) = q[p][1]
  BY <1>1, SMT
<1> HIDE DEF Q
<1>3. <<p, 1>> \in Slots(q) /\ TaskAt(q, <<p, 1>>) = Head(q[p])
  BY <1>2, PlaceIsSlot, SMT
<1>4. ASSUME NEW s \in Slots(Q)
      PROVE  /\ old(s) \in Slots(q) /\ TaskAt(q, old(s)) = TaskAt(Q, s)
             /\ old(s) # <<p, 1>>
  <2>1. /\ s[1] \in Priorities /\ s[2] \in 1 .. Len(Q[s[1]]) /\ s = <<s[1], s[2]>>
        /\ TaskAt(Q, s) = Q[s[1]][s[2]]
    BY <1>1, SlotIsPlace
  <2>2. CASE s[1] = p
    <3>1. s[2] + 1 \in 1 .. Len(q[p]) /\ s[2] + 1 # 1
      BY <1>2, <2>1, <2>2, SMT
    <3>2. <<p, s[2] + 1>> \in Slots(q) /\ TaskAt(q, <<p, s[2] + 1>>) = q[p][s[2] + 1]
      BY <3>1, PlaceIsSlot
    <3> QED
      BY <1>2, <2>1, <2>2, <3>1, <3>2 DEF Behind
  <2>3. CASE s[1] # p
    <3>1. s \in Slots(q) /\ TaskAt(q, s) = q[s[1]][s[2]]
      BY <1>1, <2>1, <2>3, PlaceIsSlot, SMTT(30)
    <3> QED
      BY <1>1, <2>1, <2>3, <3>1, SMT DEF Behind
  <2> QED
    BY <2>2, <2>3
<1> QED
  BY <1>1, <1>3, <1>4 DEF Q

(* dequeue: the first task of a level leaves the queues. *)
LEMMA PopFront ==
    ASSUME NEW q \in [Priorities -> Seq(Tasks)], NoDuplicates(q),
           NEW p \in Priorities, q[p] # << >>
    PROVE  /\ pop_front(q, p) \in [Priorities -> Seq(Tasks)]
           /\ NoDuplicates(pop_front(q, p))
           /\ Head(q[p]) \in QueuedTasks(q)
           /\ QueuedTasks(pop_front(q, p)) = QueuedTasks(q) \ {Head(q[p])}
<1> DEFINE Q == pop_front(q, p)
           old(s) == Behind(p, s)
<1>1. /\ Q \in [Priorities -> Seq(Tasks)]
      /\ Q[p] = Tail(q[p])
      /\ \A r \in Priorities : r # p => Q[r] = q[r]
  BY SMT DEF pop_front
<1>2. /\ Len(q[p]) \in Nat \ {0}
      /\ Len(Q[p]) = Len(q[p]) - 1
      /\ \A i \in 1 .. Len(Q[p]) : Q[p][i] = q[p][i + 1]
      /\ Head(q[p]) = q[p][1]
  BY <1>1, SMT
<1>3. <<p, 1>> \in Slots(q) /\ TaskAt(q, <<p, 1>>) = Head(q[p])
  BY PopFrontSlots
<1>4. ASSUME NEW s \in Slots(Q)
      PROVE  /\ old(s) \in Slots(q) /\ TaskAt(q, old(s)) = TaskAt(Q, s)
             /\ old(s) # <<p, 1>>
  BY PopFrontSlots
<1> HIDE DEF Q
<1>5. ASSUME NEW s \in Slots(Q), NEW r \in Slots(Q), old(s) = old(r)
      PROVE  s = r
  <2>1. /\ s[2] \in Nat /\ s = <<s[1], s[2]>>
        /\ r[2] \in Nat /\ r = <<r[1], r[2]>>
    <3>1. /\ s[2] \in 1 .. Len(Q[s[1]]) /\ s = <<s[1], s[2]>> /\ s[1] \in Priorities
          /\ r[2] \in 1 .. Len(Q[r[1]]) /\ r = <<r[1], r[2]>> /\ r[1] \in Priorities
      BY <1>1, SlotIsPlace
    <3> QED
      BY <1>1, <3>1, SMT
  <2> QED
    BY <1>5, <2>1, SMT DEF Behind
<1>6. ASSUME NEW s \in Slots(q), s # <<p, 1>>
      PROVE  \E r \in Slots(Q) : TaskAt(Q, r) = TaskAt(q, s)
  <2>1. /\ s[1] \in Priorities /\ s[2] \in 1 .. Len(q[s[1]]) /\ s = <<s[1], s[2]>>
        /\ TaskAt(q, s) = q[s[1]][s[2]]
    BY SlotIsPlace
  <2>2. CASE s[1] = p
    <3>1. s[2] - 1 \in 1 .. Len(Q[p]) /\ (s[2] - 1) + 1 = s[2]
      BY <1>2, <1>6, <2>1, <2>2, SMT
    <3>2. <<p, s[2] - 1>> \in Slots(Q) /\ TaskAt(Q, <<p, s[2] - 1>>) = Q[p][s[2] - 1]
      BY <1>1, <3>1, PlaceIsSlot
    <3> QED
      BY <1>2, <2>1, <2>2, <3>1, <3>2
  <2>3. CASE s[1] # p
    <3>1. s[2] \in 1 .. Len(Q[s[1]])
      BY <1>1, <2>1, <2>3
    <3>2. <<s[1], s[2]>> \in Slots(Q) /\ TaskAt(Q, <<s[1], s[2]>>) = Q[s[1]][s[2]]
      <4>1. s[1] \in Priorities /\ Q \in [Priorities -> Seq(Tasks)]
        BY <1>1, <2>1
      <4> QED
        BY <4>1, <3>1, PlaceIsSlot
    <3> QED
      BY <1>1, <2>1, <2>3, <3>2
  <2> QED
    BY <2>2, <2>3
<1> HIDE DEF old
<1>7. NoDuplicates(Q)
  <2> SUFFICES ASSUME NEW s \in Slots(Q), NEW r \in Slots(Q), TaskAt(Q, s) = TaskAt(Q, r)
               PROVE  s = r
    BY DEF NoDuplicates
  <2>1. old(s) = old(r)
    BY <1>4 DEF NoDuplicates
  <2> QED
    BY <1>5, <2>1
<1>8. QueuedTasks(Q) = QueuedTasks(q) \ {Head(q[p])}
  <2>1. \A s \in Slots(q) : TaskAt(q, s) = Head(q[p]) => s = <<p, 1>>
    BY <1>3 DEF NoDuplicates
  <2> QED
    BY <1>3, <1>4, <1>6, <2>1 DEF QueuedTasks
<1> QED
  BY <1>1, <1>3, <1>7, <1>8 DEF Q, QueuedTasks

(* The loop of highest_ready_priority finds a level when a task is queued. *)
LEMMA HighestReady ==
    ASSUME NEW q \in [Priorities -> Seq(Tasks)], QueuedTasks(q) # {}
    PROVE  /\ highest_ready_priority(q) \in Priorities
           /\ q[highest_ready_priority(q)] # << >>
           /\ \A r \in Priorities : r > highest_ready_priority(q) => q[r] = << >>
<1> DEFINE Below == {n \in Nat : n <= MAX_PRIORITY /\ q[MAX_PRIORITY - n] # << >>}
<1>1. PICK s \in Slots(q) : TRUE
  BY DEF QueuedTasks
<1>2. s[1] \in Priorities /\ q[s[1]] # << >>
  <2>1. s[1] \in Priorities /\ s[2] \in 1 .. Len(q[s[1]])
    BY SlotIsPlace
  <2> QED
    BY <2>1, SMT
<1>3. MAX_PRIORITY - s[1] \in Below
  BY <1>2, MaxPriorityAssumption, SMT DEF Priorities
<1>4. PICK n \in Below : \A k \in Below : ~(<<k, n>> \in OpToRel(<, Nat))
  BY <1>3, NatLessThanWellFounded, WFMin
<1>5. \A k \in Below : ~(k < n)
  BY <1>4 DEF OpToRel
<1>6. /\ MAX_PRIORITY - n \in Priorities /\ q[MAX_PRIORITY - n] # << >>
      /\ \A r \in Priorities : r > MAX_PRIORITY - n => q[r] = << >>
  <2>1. MAX_PRIORITY - n \in Priorities /\ q[MAX_PRIORITY - n] # << >>
    BY MaxPriorityAssumption, SMT DEF Priorities
  <2>2. ASSUME NEW r \in Priorities, r > MAX_PRIORITY - n, q[r] # << >>
        PROVE  FALSE
    <3>1. MAX_PRIORITY - (MAX_PRIORITY - r) = r
      BY MaxPriorityAssumption, SMT DEF Priorities
    <3>2. MAX_PRIORITY - r \in Below
      BY <2>2, <3>1, MaxPriorityAssumption, SMT DEF Priorities
    <3>3. MAX_PRIORITY - r < n
      BY <2>2, MaxPriorityAssumption, SMT DEF Priorities
    <3> QED
      BY <1>5, <3>2, <3>3
  <2> QED
    BY <2>1, <2>2
<1> QED
  BY <1>6 DEF highest_ready_priority

(* FiledBefore is a strict total order on the slots. *)
LEMMA FiledBeforeOrder ==
    ASSUME NEW q \in [Priorities -> Seq(Tasks)], NEW p \in Priorities,
           NEW s \in Slots(q), NEW r \in Slots(q)
    PROVE  /\ ~FiledBefore(p, s, s)
           /\ s # r => FiledBefore(p, s, r) \/ FiledBefore(p, r, s)
           /\ FiledBefore(p, s, r) => ~FiledBefore(p, r, s)
           /\ \A u \in Slots(q) :
                 FiledBefore(p, u, s) /\ FiledBefore(p, s, r) => FiledBefore(p, u, r)
<1>1. /\ s[1] \in Int /\ s[2] \in Int /\ s = <<s[1], s[2]>>
      /\ r[1] \in Int /\ r[2] \in Int /\ r = <<r[1], r[2]>>
  BY SlotIsPlace, SMT DEF Priorities
<1>2. \A u \in Slots(q) : u[1] \in Int /\ u[2] \in Int
  BY SlotIsPlace, SMT DEF Priorities
<1>3. p \in Int
  BY SMT DEF Priorities
<1> QED
  BY <1>1, <1>2, <1>3, SMT DEF FiledBefore

(* PlaceOf numbers the slots filed at a level from 1 on, without gaps. *)
Numbered(filed, p) ==
    /\ \A s \in filed : PlaceOf(filed, p, s) \in 1 .. Cardinality(filed)
    /\ \A s, r \in filed : PlaceOf(filed, p, s) = PlaceOf(filed, p, r) => s = r
    /\ \A k \in 1 .. Cardinality(filed) : \E s \in filed : PlaceOf(filed, p, s) = k

(* A slot filed earlier has the smaller number. *)
LEMMA PlaceOfMonotone ==
    ASSUME NEW q \in [Priorities -> Seq(Tasks)], NEW p \in Priorities,
           NEW filed \in SUBSET Slots(q), IsFiniteSet(filed),
           NEW s \in filed, NEW r \in filed, FiledBefore(p, s, r)
    PROVE  PlaceOf(filed, p, s) < PlaceOf(filed, p, r)
<1> DEFINE upto(u) == {v \in filed : v = u \/ FiledBefore(p, v, u)}
<1>1. upto(s) \in SUBSET upto(r)
  BY FiledBeforeOrder
<1>2. r \in upto(r) /\ r \notin upto(s)
  BY FiledBeforeOrder, SMT
<1>3. upto(s) # upto(r)
  BY <1>2
<1>4. IsFiniteSet(upto(r)) /\ upto(s) \in SUBSET filed /\ IsFiniteSet(upto(s))
  BY FS_Subset
<1>5. /\ PlaceOf(filed, p, s) = Cardinality(upto(s))
      /\ PlaceOf(filed, p, r) = Cardinality(upto(r))
  BY DEF PlaceOf
<1> HIDE DEF upto
<1>6. Cardinality(upto(s)) <= Cardinality(upto(r)) /\ Cardinality(upto(s)) # Cardinality(upto(r))
  BY <1>1, <1>3, <1>4, FS_Subset
<1>7. Cardinality(upto(s)) \in Nat /\ Cardinality(upto(r)) \in Nat
  BY <1>4, FS_CardinalityType
<1> QED
  BY <1>5, <1>6, <1>7, SMT

(* Counting the slots filed earlier numbers those of a level from 1 on. *)
LEMMA PlaceOfBijective ==
    ASSUME NEW q \in [Priorities -> Seq(Tasks)], NEW p \in Priorities,
           NEW filed \in SUBSET Slots(q), IsFiniteSet(filed)
    PROVE  Numbered(filed, p)
<1> DEFINE upto(s) == {r \in filed : r = s \/ FiledBefore(p, r, s)}
           n == Cardinality(filed)
           place == [s \in filed |-> PlaceOf(filed, p, s)]
<1>1. n \in Nat
  BY FS_CardinalityType
<1>2. ASSUME NEW s \in filed
      PROVE  /\ upto(s) \in SUBSET filed /\ IsFiniteSet(upto(s)) /\ s \in upto(s)
             /\ PlaceOf(filed, p, s) = Cardinality(upto(s))
             /\ Cardinality(upto(s)) \in 1 .. n
  <2>1. upto(s) \in SUBSET filed /\ s \in upto(s)
    OBVIOUS
  <2>2. IsFiniteSet(upto(s)) /\ Cardinality(upto(s)) <= n
    BY <2>1, FS_Subset
  <2>3. Cardinality(upto(s)) \in Nat /\ Cardinality(upto(s)) # 0
    BY <2>1, <2>2, FS_CardinalityType, FS_EmptySet
  <2> QED
    BY <1>1, <2>1, <2>2, <2>3, SMT DEF PlaceOf
<1>3. ASSUME NEW s \in filed, NEW r \in filed, FiledBefore(p, s, r)
      PROVE  PlaceOf(filed, p, s) < PlaceOf(filed, p, r)
  BY <1>3, PlaceOfMonotone
<1>4. ASSUME NEW s \in filed, NEW r \in filed, PlaceOf(filed, p, s) = PlaceOf(filed, p, r)
      PROVE  s = r
  <2> HIDE DEF upto, n
  <2>1. PlaceOf(filed, p, s) \in Nat
    <3>1. PlaceOf(filed, p, s) \in 1 .. n
      BY <1>2
    <3> QED
      BY <1>1, <3>1, SMT
  <2> QED
    BY <1>3, <1>4, <2>1, FiledBeforeOrder, SMT
<1>5. \A s \in filed : PlaceOf(filed, p, s) \in 1 .. n
  BY <1>2
<1> HIDE DEF n
<1>6. place \in Injection(filed, 1 .. n)
  BY <1>4, <1>5 DEF Injection, IsInjective
<1>7. IsFiniteSet(1 .. n) /\ Cardinality(1 .. n) = n
  BY <1>1, FS_Interval, SMT
<1>8. place \in Surjection(filed, 1 .. n)
  BY <1>6, <1>7, FS_Injection DEF n
<1>9. \A k \in 1 .. n : \E s \in filed : PlaceOf(filed, p, s) = k
  BY <1>8 DEF Surjection
<1> QED
  BY <1>4, <1>5, <1>9 DEF n, Numbered

(* A function on 1 .. m is a sequence of length m. *)
LEMMA FunctionIsSeq ==
    ASSUME NEW T, NEW m \in Nat, NEW g \in [1 .. m -> T]
    PROVE  g \in Seq(T) /\ Len(g) = m
BY SMT

(* Q is q with every task moved to its place at the level of its priority. *)
Refiled(q, Q, prio) ==
    /\ \A s \in Slots(Q) : \E a \in Slots(q) :
          /\ a \in FiledAt(q, prio, s[1])
          /\ TaskAt(Q, s) = TaskAt(q, a)
          /\ s[2] = PlaceOf(FiledAt(q, prio, s[1]), s[1], a)
    /\ \A a \in Slots(q) : \E s \in Slots(Q) : TaskAt(Q, s) = TaskAt(q, a)

(* Where refresh_aging takes the task at a place from, and where it puts   *)
(* the one it finds at a place.                                            *)
LEMMA RefreshedPlaces ==
    ASSUME IsFiniteSet(Tasks),
           NEW q \in [Priorities -> Seq(Tasks)], NoDuplicates(q),
           NEW prio \in [Tasks -> Priorities]
    PROVE  /\ refresh_aging(q, prio) \in [Priorities -> Seq(Tasks)]
           /\ Refiled(q, refresh_aging(q, prio), prio)
<1> DEFINE Q == refresh_aging(q, prio)
           filed(p) == FiledAt(q, prio, p)
           n(p) == Cardinality(filed(p))
           place(p, s) == PlaceOf(filed(p), p, s)
           from(p, k) == CHOOSE s \in filed(p) : place(p, s) = k
<1>1. ASSUME NEW p \in Priorities
      PROVE  /\ filed(p) \in SUBSET Slots(q) /\ IsFiniteSet(filed(p)) /\ n(p) \in Nat
             /\ \A s \in filed(p) : place(p, s) \in 1 .. n(p)
             /\ \A s, r \in filed(p) : place(p, s) = place(p, r) => s = r
             /\ \A k \in 1 .. n(p) : \E s \in filed(p) : place(p, s) = k
  <2>1. filed(p) \in SUBSET Slots(q)
    BY DEF FiledAt
  <2>2. IsFiniteSet(filed(p)) /\ n(p) \in Nat
    BY <2>1, SlotsFinite, FS_Subset, FS_CardinalityType
  <2> HIDE DEF filed
  <2>3. Numbered(filed(p), p)
    BY <2>1, <2>2, PlaceOfBijective
  <2> QED
    BY <2>1, <2>2, <2>3 DEF Numbered
<1>2. ASSUME NEW p \in Priorities, NEW k \in 1 .. n(p)
      PROVE  from(p, k) \in filed(p) /\ place(p, from(p, k)) = k
  <2> HIDE DEF filed, n, place
  <2> QED
    BY <1>1
<1>3. Q = [p \in Priorities |-> [k \in 1 .. n(p) |-> TaskAt(q, from(p, k))]]
  BY DEF refresh_aging
<1> HIDE DEF Q, filed, n, place, from
<1>4. ASSUME NEW p \in Priorities
      PROVE  /\ Q[p] \in Seq(Tasks) /\ Len(Q[p]) = n(p)
             /\ \A k \in 1 .. n(p) : Q[p][k] = TaskAt(q, from(p, k))
  <2>1. \A k \in 1 .. n(p) : TaskAt(q, from(p, k)) \in Tasks
    BY <1>1, <1>2, SlotIsPlace
  <2>2. Q[p] = [k \in 1 .. n(p) |-> TaskAt(q, from(p, k))]
    BY <1>3
  <2>3. n(p) \in Nat
    BY <1>1
  <2>4. Q[p] \in [1 .. n(p) -> Tasks]
    BY <2>1, <2>2
  <2>5. Q[p] \in Seq(Tasks) /\ Len(Q[p]) = n(p)
    BY <2>3, <2>4, FunctionIsSeq
  <2> QED
    BY <2>2, <2>5
<1>5. Q \in [Priorities -> Seq(Tasks)]
  BY <1>3, <1>4
<1>6. ASSUME NEW s \in Slots(Q)
      PROVE  /\ from(s[1], s[2]) \in filed(s[1]) /\ from(s[1], s[2]) \in Slots(q)
             /\ TaskAt(Q, s) = TaskAt(q, from(s[1], s[2]))
             /\ s[2] = place(s[1], from(s[1], s[2]))
  <2>1. /\ s[1] \in Priorities /\ s[2] \in 1 .. Len(Q[s[1]])
        /\ TaskAt(Q, s) = Q[s[1]][s[2]]
    BY <1>5, SlotIsPlace
  <2>2. s[2] \in 1 .. n(s[1]) /\ TaskAt(Q, s) = TaskAt(q, from(s[1], s[2]))
    BY <1>4, <2>1
  <2> QED
    BY <1>1, <1>2, <2>1, <2>2, SMT
<1>7. ASSUME NEW a \in Slots(q)
      PROVE  \E s \in Slots(Q) : TaskAt(Q, s) = TaskAt(q, a)
  <2> DEFINE p == prio[TaskAt(q, a)]
             k == place(p, a)
  <2>1. p \in Priorities
    BY SlotIsPlace
  <2>2. a \in filed(p)
    BY DEF filed, FiledAt
  <2>3. k \in 1 .. n(p) /\ from(p, k) = a
    BY <1>1, <1>2, <2>1, <2>2, SMT
  <2> HIDE DEF p, k
  <2>4. k \in 1 .. Len(Q[p]) /\ Q[p][k] = TaskAt(q, a)
    BY <1>4, <2>1, <2>3
  <2>5. <<p, k>> \in Slots(Q) /\ TaskAt(Q, <<p, k>>) = Q[p][k]
    BY <1>5, <2>1, <2>4, PlaceIsSlot
  <2> QED
    BY <2>4, <2>5
<1>8. \A s \in Slots(Q) : \E a \in Slots(q) :
         a \in filed(s[1]) /\ TaskAt(Q, s) = TaskAt(q, a) /\ s[2] = place(s[1], a)
  BY <1>6
<1> QED
  BY <1>5, <1>7, <1>8 DEF Q, filed, place, Refiled

(* refresh_aging loses no task, duplicates none, and puts every task in    *)
(* the queue of its refreshed priority: the pop/push loop only moves       *)
(* tasks.                                                                  *)
THEOREM RefreshKeepsTasks ==
    ASSUME IsFiniteSet(Tasks),
           NEW q \in [Priorities -> Seq(Tasks)], NoDuplicates(q),
           NEW prio \in [Tasks -> Priorities]
    PROVE  /\ refresh_aging(q, prio) \in [Priorities -> Seq(Tasks)]
           /\ NoDuplicates(refresh_aging(q, prio))
           /\ QueuedTasks(refresh_aging(q, prio)) = QueuedTasks(q)
           /\ \A s \in Slots(refresh_aging(q, prio)) :
                 prio[TaskAt(refresh_aging(q, prio), s)] = s[1]
<1> DEFINE Q == refresh_aging(q, prio)
<1>1. Q \in [Priorities -> Seq(Tasks)] /\ Refiled(q, Q, prio)
  BY RefreshedPlaces
<1> HIDE DEF Q
<1>2. ASSUME NEW s \in Slots(Q)
      PROVE  prio[TaskAt(Q, s)] = s[1]
  BY <1>1 DEF FiledAt, Refiled
<1>3. NoDuplicates(Q)
  <2> SUFFICES ASSUME NEW s \in Slots(Q), NEW r \in Slots(Q), TaskAt(Q, s) = TaskAt(Q, r)
               PROVE  s = r
    BY DEF NoDuplicates
  <2>1. s[1] = r[1]
    <3>1. prio[TaskAt(Q, s)] = s[1] /\ prio[TaskAt(Q, r)] = r[1]
      BY <1>2
    <3> QED
      BY <3>1
  <2>2. s[2] = r[2]
    BY <1>1, <2>1, SMT DEF NoDuplicates, Refiled
  <2>3. s = <<s[1], s[2]>> /\ r = <<r[1], r[2]>>
    BY <1>1, SlotIsPlace
  <2> QED
    BY <2>1, <2>2, <2>3
<1>4. QueuedTasks(Q) = QueuedTasks(q)
  BY <1>1, SMT DEF QueuedTasks, Refiled
<1> QED
  BY <1>1, <1>2, <1>3, <1>4 DEF Q

(* Of two tasks refresh_aging files at one level, the one it meets first   *)
(* comes first.                                                            *)
THEOREM RefreshKeepsOrder ==
    ASSUME IsFiniteSet(Tasks),
           NEW q \in [Priorities -> Seq(Tasks)], NoDuplicates(q),
           NEW prio \in [Tasks -> Priorities],
           NEW a \in Slots(q), NEW b \in Slots(q),
           NEW s \in Slots(refresh_aging(q, prio)), NEW r \in Slots(refresh_aging(q, prio)),
           TaskAt(refresh_aging(q, prio), s) = TaskAt(q, a),
           TaskAt(refresh_aging(q, prio), r) = TaskAt(q, b),
           s[1] = r[1], FiledBefore(s[1], a, b)
    PROVE  s[2] < r[2]
<1> DEFINE Q == refresh_aging(q, prio)
           filed == FiledAt(q, prio, s[1])
<1>1. /\ a \in filed /\ s[2] = PlaceOf(filed, s[1], a)
      /\ b \in filed /\ r[2] = PlaceOf(filed, s[1], b)
  <2>0. Refiled(q, Q, prio)
    BY RefreshedPlaces
  <2> HIDE DEF Q, filed
  <2>1. PICK c \in Slots(q) : c \in filed /\ TaskAt(Q, s) = TaskAt(q, c) /\ s[2] = PlaceOf(filed, s[1], c)
    BY <2>0 DEF Refiled, Q, filed
  <2>2. PICK d \in Slots(q) : d \in filed /\ TaskAt(Q, r) = TaskAt(q, d) /\ r[2] = PlaceOf(filed, s[1], d)
    BY <2>0 DEF Refiled, Q, filed
  <2>3. c = a /\ d = b
    BY <2>1, <2>2 DEF NoDuplicates, Q
  <2> QED
    BY <2>1, <2>2, <2>3
<1>2. s[1] \in Priorities
  <2>1. Q \in [Priorities -> Seq(Tasks)]
    BY RefreshedPlaces
  <2> HIDE DEF Q
  <2>2. s \in Slots(Q)
    BY DEF Q
  <2> QED
    BY <2>1, <2>2, SlotIsPlace
<1>3. filed \in SUBSET Slots(q) /\ IsFiniteSet(filed)
  <2>1. filed \in SUBSET Slots(q)
    BY DEF FiledAt
  <2> QED
    BY <2>1, SlotsFinite, FS_Subset
<1> HIDE DEF filed
<1> QED
  BY <1>1, <1>2, <1>3, PlaceOfMonotone
-----------------------------------------------------------------------------
(* The queues, the counter and the accounts agree. *)
QueueInv(q, n, info) ==
    /\ q \in [Priorities -> Seq(Tasks)]
    /\ NoDuplicates(q)
    /\ info \in [Tasks -> SchedInfo]
    /\ \A t \in Tasks : info[t].in_ready_queue <=> t \in QueuedTasks(q)
    /\ n = Cardinality(QueuedTasks(q))
    /\ n \in Nat

(* The task states agree with the queues and the processor. *)
StatusInv(queued, status, cur) ==
    /\ status \in [Tasks -> {"Unborn", "Ready", "Running", "Blocked", "Stopped", "Exited"}]
    /\ cur \in Tasks \cup {NoTask}
    /\ \A t \in Tasks : status[t] = "Ready" <=> t \in queued
    /\ \A t \in Tasks : cur = t <=> status[t] = "Running"

HartInv ==
    /\ pc \in [Tasks -> {"user", "syscall", "tail", "continued"}]
    /\ sie \in BOOLEAN
    /\ timer_pending \in BOOLEAN

(* The inductive invariant. *)
IInv ==
    /\ QueueInv(ready_queues, ready_tasks, sched_info)
    /\ StatusInv(QueuedTasks(ready_queues), task_status, current)
    /\ HartInv

(* The inductive invariant implies what the run of the scheduler checks. *)
LEMMA IInvImplies ==
    IInv => TypeOK /\ ReadyIffQueuedOnce /\ BooksAgree /\ CurrentIsRunning
BY DEF IInv, QueueInv, StatusInv, HartInv, TypeOK, ReadyIffQueuedOnce, BooksAgree,
       CurrentIsRunning, NoDuplicates
-----------------------------------------------------------------------------
(* Waiting times divide into whole promotions. *)
LEMMA DivNat ==
    ASSUME NEW a \in Nat, NEW b \in Nat \ {0}
    PROVE  a \div b \in Nat
BY SMT

(* The longest wait the accounts tell apart is a number of ticks. *)
LEMMA WaitCapNat == WaitCap \in Nat
BY MaxPriorityAssumption, SchedulerAssumption, SMT DEF WaitCap

(* The updates of SchedInfo keep its type, and change the flag only where  *)
(* they say so.                                                            *)
LEMMA InfoTypes ==
    ASSUME NEW s \in SchedInfo
    PROVE  /\ on_enqueue(s) \in SchedInfo /\ on_enqueue(s).in_ready_queue
           /\ on_dispatch(s) \in SchedInfo /\ ~on_dispatch(s).in_ready_queue
           /\ on_block(s) \in SchedInfo /\ ~on_block(s).in_ready_queue
           /\ on_timer_tick(s) \in SchedInfo
           /\ on_timer_tick(s).in_ready_queue = s.in_ready_queue
<1>1. 0 \in 0 .. WaitCap /\ 0 \in 0 .. TIME_SLICE_TICKS
  BY WaitCapNat, SchedulerAssumption, SMT
<1>2. Min2(s.slice_ticks + 1, TIME_SLICE_TICKS) \in 0 .. TIME_SLICE_TICKS
  BY SchedulerAssumption, SMT DEF Min2, SchedInfo
<1> QED
  BY <1>1, <1>2 DEF SchedInfo, on_enqueue, on_dispatch, on_block, on_timer_tick

(* So do aging and set_priority. *)
LEMMA RefreshTypes ==
    ASSUME NEW s \in SchedInfo
    PROVE  /\ refresh_effective_priority(s) \in SchedInfo
           /\ refresh_effective_priority(s).in_ready_queue = s.in_ready_queue
           /\ \A p \in Priorities :
                 /\ set_base_priority(s, p) \in SchedInfo
                 /\ set_base_priority(s, p).in_ready_queue = s.in_ready_queue
<1>1. ASSUME NEW r \in SchedInfo
      PROVE  AgedPriority(r) \in Priorities
  <2>1. r.base_priority \in 0 .. MAX_PRIORITY /\ r.waited \in Nat
    BY WaitCapNat, SMT DEF SchedInfo, Priorities
  <2>2. r.waited \div AGING_INTERVAL_TICKS \in Nat
    BY <2>1, DivNat, SchedulerAssumption
  <2> QED
    BY <2>1, <2>2, MaxPriorityAssumption, SMT DEF AgedPriority, Min2, Priorities
<1>2. ASSUME NEW r \in SchedInfo
      PROVE  /\ refresh_effective_priority(r) \in SchedInfo
             /\ refresh_effective_priority(r).in_ready_queue = r.in_ready_queue
  BY <1>1 DEF refresh_effective_priority, SchedInfo
<1>3. ASSUME NEW p \in Priorities
      PROVE  /\ [s EXCEPT !.base_priority = p] \in SchedInfo
             /\ [s EXCEPT !.base_priority = p].in_ready_queue = s.in_ready_queue
  BY DEF SchedInfo
<1>4. ASSUME NEW p \in Priorities
      PROVE  /\ set_base_priority(s, p) \in SchedInfo
             /\ set_base_priority(s, p).in_ready_queue = s.in_ready_queue
  <2> DEFINE r == [s EXCEPT !.base_priority = p]
  <2>1. r \in SchedInfo /\ r.in_ready_queue = s.in_ready_queue
    BY <1>3
  <2>2. set_base_priority(s, p) = refresh_effective_priority(r)
    BY DEF set_base_priority
  <2> HIDE DEF r
  <2> QED
    BY <1>2, <2>1, <2>2
<1> QED
  BY <1>2, <1>4

(* SchedInfo::new of a priority in range. *)
LEMMA NewInfoType ==
    ASSUME NEW p \in Priorities
    PROVE  NewSchedInfo(p) \in SchedInfo /\ ~NewSchedInfo(p).in_ready_queue
BY WaitCapNat, SchedulerAssumption, SMT DEF NewSchedInfo, SchedInfo

(* Accounts may change as long as the flags do not. *)
LEMMA InfoChange ==
    ASSUME NEW q, NEW n, NEW info, QueueInv(q, n, info),
           NEW new \in [Tasks -> SchedInfo],
           \A t \in Tasks : new[t].in_ready_queue = info[t].in_ready_queue
    PROVE  QueueInv(q, n, new)
BY DEF QueueInv

(* TaskManager::add of a task that is not queued. *)
LEMMA AddTask ==
    ASSUME NEW q, NEW info, QueueInv(q, ready_tasks, info),
           NEW t \in Tasks, t \notin QueuedTasks(q), add_task(q, info, t)
    PROVE  /\ QueueInv(ready_queues', ready_tasks', sched_info')
           /\ QueuedTasks(ready_queues') = QueuedTasks(q) \cup {t}
<1> DEFINE p == Min2(info[t].effective_priority, MAX_PRIORITY)
<1>1. /\ info[t] \in SchedInfo /\ ~info[t].in_ready_queue
      /\ ready_tasks = Cardinality(QueuedTasks(q)) /\ ready_tasks \in Nat
      /\ q \in [Priorities -> Seq(Tasks)] /\ NoDuplicates(q)
      /\ info \in [Tasks -> SchedInfo]
  BY DEF QueueInv
<1>2. p \in Priorities
  BY <1>1, MaxPriorityAssumption, SMT DEF Min2, SchedInfo, Priorities
<1>3. /\ ready_queues' = push_back(q, p, t)
      /\ sched_info' = [info EXCEPT ![t] = on_enqueue(info[t])]
      /\ ready_tasks' = ready_tasks + 1
  BY <1>1 DEF add_task
<1> HIDE DEF p
<1>4. /\ ready_queues' \in [Priorities -> Seq(Tasks)]
      /\ NoDuplicates(ready_queues')
      /\ QueuedTasks(ready_queues') = QueuedTasks(q) \cup {t}
  BY <1>1, <1>2, <1>3, PushBack
<1>5. /\ sched_info' \in [Tasks -> SchedInfo]
      /\ \A u \in Tasks : sched_info'[u].in_ready_queue <=> u \in QueuedTasks(ready_queues')
  <2>1. on_enqueue(info[t]) \in SchedInfo /\ on_enqueue(info[t]).in_ready_queue
    BY <1>1, InfoTypes
  <2> QED
    BY <1>1, <1>3, <1>4, <2>1 DEF QueueInv
<1>6. ready_tasks' = Cardinality(QueuedTasks(ready_queues')) /\ ready_tasks' \in Nat
  <2>1. IsFiniteSet(QueuedTasks(q))
    BY <1>1, SlotsFinite, TasksAssumption
  <2>2. Cardinality(QueuedTasks(q) \cup {t}) = Cardinality(QueuedTasks(q)) + 1
    BY <2>1, FS_AddElement
  <2> QED
    BY <1>1, <1>3, <1>4, <2>2, SMT
<1> QED
  BY <1>4, <1>5, <1>6 DEF QueueInv

(* The refresh before a dispatch or a preemption check. *)
LEMMA Refresh ==
    ASSUME NEW info, QueueInv(ready_queues, ready_tasks, info)
    PROVE  /\ QueueInv(RefreshedQueues(info), ready_tasks, RefreshedInfo(info))
           /\ QueuedTasks(RefreshedQueues(info)) = QueuedTasks(ready_queues)
<1> DEFINE new == RefreshedInfo(info)
           prio == [t \in Tasks |-> new[t].effective_priority]
<1>1. /\ info \in [Tasks -> SchedInfo]
      /\ ready_queues \in [Priorities -> Seq(Tasks)] /\ NoDuplicates(ready_queues)
  BY DEF QueueInv
<1>2. /\ new \in [Tasks -> SchedInfo]
      /\ \A t \in Tasks : new[t].in_ready_queue = info[t].in_ready_queue
  BY <1>1, RefreshTypes DEF RefreshedInfo
<1>3. QueueInv(ready_queues, ready_tasks, new)
  BY <1>2, InfoChange
<1>4. RefreshedQueues(info) = refresh_aging(ready_queues, prio)
  BY DEF RefreshedQueues
<1> HIDE DEF new
<1>5. prio \in [Tasks -> Priorities]
  BY <1>2 DEF SchedInfo
<1> HIDE DEF prio
<1>6. /\ RefreshedQueues(info) \in [Priorities -> Seq(Tasks)]
      /\ NoDuplicates(RefreshedQueues(info))
      /\ QueuedTasks(RefreshedQueues(info)) = QueuedTasks(ready_queues)
  <2>1. IsFiniteSet(Tasks)
    BY TasksAssumption
  <2>2. /\ refresh_aging(ready_queues, prio) \in [Priorities -> Seq(Tasks)]
        /\ NoDuplicates(refresh_aging(ready_queues, prio))
        /\ QueuedTasks(refresh_aging(ready_queues, prio)) = QueuedTasks(ready_queues)
    BY <1>1, <1>5, <2>1, RefreshKeepsTasks
  <2> QED
    BY <1>4, <2>2
<1> QED
  BY <1>3, <1>6 DEF QueueInv, new

(* suspend_current_and_run_next: the current task is not queued, so it is  *)
(* pushed.                                                                 *)
LEMMA SuspendCurrent ==
    ASSUME NEW q, NEW info, QueueInv(q, ready_tasks, info),
           StatusInv(QueuedTasks(q), task_status, current),
           NEW t \in Tasks, current = t, suspend_current(q, info, t)
    PROVE  /\ QueueInv(ready_queues', ready_tasks', sched_info')
           /\ StatusInv(QueuedTasks(ready_queues'), task_status', current')
<1>1. t \notin QueuedTasks(q) /\ task_status[t] = "Running"
  BY DEF StatusInv
<1>2. /\ QueueInv(ready_queues', ready_tasks', sched_info')
      /\ QueuedTasks(ready_queues') = QueuedTasks(q) \cup {t}
  BY <1>1, AddTask DEF suspend_current
<1>3. StatusInv(QueuedTasks(q) \cup {t}, task_status', current')
  BY SchedulerAssumption DEF StatusInv, suspend_current
<1> QED
  BY <1>2, <1>3

(* wakeup_task of a task that is neither ready nor running. *)
LEMMA WakeupTask ==
    ASSUME IInv, NEW u \in Tasks, task_status[u] \notin {"Ready", "Running"},
           current' = current, wakeup_task(u)
    PROVE  /\ QueueInv(ready_queues', ready_tasks', sched_info')
           /\ StatusInv(QueuedTasks(ready_queues'), task_status', current')
<1>1. u \notin QueuedTasks(ready_queues)
  BY DEF IInv, StatusInv
<1>2. /\ QueueInv(ready_queues', ready_tasks', sched_info')
      /\ QueuedTasks(ready_queues') = QueuedTasks(ready_queues) \cup {u}
  BY <1>1, AddTask DEF wakeup_task, IInv
<1>3. StatusInv(QueuedTasks(ready_queues) \cup {u}, task_status', current')
  BY DEF IInv, StatusInv, wakeup_task
<1> QED
  BY <1>2, <1>3

(* The end of a preemption check without a switch. *)
LEMMA KeepCurrent ==
    ASSUME IInv, NEW info, QueueInv(ready_queues, ready_tasks, info),
           keep_current(RefreshedQueues(info), RefreshedInfo(info))
    PROVE  /\ QueueInv(ready_queues', ready_tasks', sched_info')
           /\ StatusInv(QueuedTasks(ready_queues'), task_status', current')
<1>1. /\ QueueInv(RefreshedQueues(info), ready_tasks, RefreshedInfo(info))
      /\ QueuedTasks(RefreshedQueues(info)) = QueuedTasks(ready_queues)
  BY Refresh
<1>2. /\ ready_queues' = RefreshedQueues(info)
      /\ sched_info' = RefreshedInfo(info)
      /\ ready_tasks' = ready_tasks /\ task_status' = task_status /\ current' = current
  BY DEF keep_current
<1> QED
  BY <1>1, <1>2 DEF IInv

(* The preemption check keeps the books whether or not it switches. *)
LEMMA CheckPreemptionKeeps ==
    ASSUME IInv, NEW info, QueueInv(ready_queues, ready_tasks, info),
           NEW t \in Tasks, current = t, CheckPreemption(info, t)
    PROVE  /\ QueueInv(ready_queues', ready_tasks', sched_info')
           /\ StatusInv(QueuedTasks(ready_queues'), task_status', current')
<1> DEFINE q == RefreshedQueues(info)
<1>1. CASE suspend_current(q, RefreshedInfo(info), t)
  <2>1. QueueInv(q, ready_tasks, RefreshedInfo(info)) /\ QueuedTasks(q) = QueuedTasks(ready_queues)
    BY Refresh
  <2>2. StatusInv(QueuedTasks(q), task_status, current)
    BY <2>1 DEF IInv
  <2> HIDE DEF q
  <2> QED
    BY <1>1, <2>1, <2>2, SuspendCurrent
<1>2. CASE keep_current(q, RefreshedInfo(info))
  BY <1>2, KeepCurrent
<1> QED
  BY <1>1, <1>2 DEF CheckPreemption
-----------------------------------------------------------------------------
(* initproc is the only task at the start, and it is queued. *)
LEMMA InitIInv == Init => IInv
<1> SUFFICES ASSUME Init PROVE IInv
  OBVIOUS
<1>1. /\ EmptyQueues \in [Priorities -> Seq(Tasks)]
      /\ Slots(EmptyQueues) = {}
  <2>1. /\ EmptyQueues \in [Priorities -> Seq(Tasks)]
        /\ \A p \in Priorities : Len(EmptyQueues[p]) = 0
    BY SMT DEF EmptyQueues
  <2>2. ASSUME NEW s \in Slots(EmptyQueues) PROVE FALSE
    BY <2>1, SlotIsPlace, SMT
  <2> QED
    BY <2>1, <2>2
<1>2. NoDuplicates(EmptyQueues) /\ QueuedTasks(EmptyQueues) = {}
  BY <1>1 DEF NoDuplicates, QueuedTasks
<1>3. InitTask \in Tasks /\ DEFAULT_PRIORITY \in Priorities /\ NoTask \notin Tasks
  BY SchedulerAssumption
<1>4. /\ ready_queues \in [Priorities -> Seq(Tasks)]
      /\ NoDuplicates(ready_queues)
      /\ QueuedTasks(ready_queues) = {InitTask}
  BY <1>1, <1>2, <1>3, PushBack DEF Init
<1>5. /\ sched_info \in [Tasks -> SchedInfo]
      /\ \A t \in Tasks : sched_info[t].in_ready_queue <=> t = InitTask
  <2>1. NewSchedInfo(DEFAULT_PRIORITY) \in SchedInfo /\ ~NewSchedInfo(DEFAULT_PRIORITY).in_ready_queue
    BY <1>3, NewInfoType
  <2>2. /\ on_enqueue(NewSchedInfo(DEFAULT_PRIORITY)) \in SchedInfo
        /\ on_enqueue(NewSchedInfo(DEFAULT_PRIORITY)).in_ready_queue
    BY <2>1, InfoTypes
  <2> QED
    BY <2>1, <2>2 DEF Init
<1>6. ready_tasks = Cardinality({InitTask}) /\ ready_tasks \in Nat
  BY FS_Singleton DEF Init
<1>7. QueueInv(ready_queues, ready_tasks, sched_info)
  BY <1>4, <1>5, <1>6 DEF QueueInv
<1>8. StatusInv({InitTask}, task_status, current)
  BY <1>3 DEF Init, StatusInv
<1>9. HartInv
  BY DEF Init, HartInv
<1> QED
  BY <1>4, <1>7, <1>8, <1>9 DEF IInv

(* run_tasks dispatches a queued task. *)
LEMMA FetchKeeps ==
    ASSUME IInv, Fetch
    PROVE  IInv'
<1> DEFINE q == RefreshedQueues(sched_info)
           info == RefreshedInfo(sched_info)
           p == highest_ready_priority(q)
           t == Head(q[p])
<1>1. /\ current = NoTask /\ ready_tasks # 0
      /\ ready_queues' = pop_front(q, p)
      /\ ready_tasks' = ready_tasks - 1
      /\ sched_info' = [info EXCEPT ![t] = on_dispatch(info[t])]
      /\ task_status' = [task_status EXCEPT ![t] = "Running"]
      /\ current' = t
      /\ UNCHANGED <<pc, sie, timer_pending>>
  BY DEF Fetch
<1>2. QueueInv(q, ready_tasks, info) /\ QueuedTasks(q) = QueuedTasks(ready_queues)
  BY Refresh DEF IInv
<1> HIDE DEF q, info
<1>3. /\ q \in [Priorities -> Seq(Tasks)] /\ NoDuplicates(q) /\ info \in [Tasks -> SchedInfo]
      /\ ready_tasks = Cardinality(QueuedTasks(q)) /\ ready_tasks \in Nat
  BY <1>2 DEF QueueInv
<1>4. IsFiniteSet(QueuedTasks(q)) /\ QueuedTasks(q) \subseteq Tasks
  BY <1>3, SlotsFinite, TasksAssumption
<1>5. QueuedTasks(q) # {}
  BY <1>1, <1>3, FS_EmptySet
<1>6. p \in Priorities /\ q[p] # << >>
  BY <1>3, <1>5, HighestReady
<1> HIDE DEF p
<1>7. /\ ready_queues' \in [Priorities -> Seq(Tasks)]
      /\ NoDuplicates(ready_queues')
      /\ t \in QueuedTasks(q)
      /\ QueuedTasks(ready_queues') = QueuedTasks(q) \ {t}
  BY <1>1, <1>3, <1>6, PopFront
<1> HIDE DEF t
<1>8. t \in Tasks
  BY <1>4, <1>7
<1>9. QueueInv(ready_queues', ready_tasks', sched_info')
  <2>1. on_dispatch(info[t]) \in SchedInfo /\ ~on_dispatch(info[t]).in_ready_queue
    BY <1>3, <1>8, InfoTypes
  <2>2. /\ sched_info' \in [Tasks -> SchedInfo]
        /\ \A u \in Tasks : sched_info'[u].in_ready_queue <=> u \in QueuedTasks(ready_queues')
    BY <1>1, <1>2, <1>3, <1>7, <1>8, <2>1 DEF QueueInv
  <2>3. Cardinality(QueuedTasks(q) \ {t}) = Cardinality(QueuedTasks(q)) - 1
    BY <1>4, <1>7, FS_RemoveElement
  <2>4. ready_tasks' = Cardinality(QueuedTasks(ready_queues')) /\ ready_tasks' \in Nat
    BY <1>1, <1>3, <1>7, <2>3, SMT
  <2> QED
    BY <1>7, <2>2, <2>4 DEF QueueInv
<1>10. StatusInv(QueuedTasks(ready_queues) \ {t}, task_status', current')
  BY <1>1, <1>2, <1>7, <1>8, SchedulerAssumption DEF IInv, StatusInv
<1>11. HartInv'
  BY <1>1 DEF IInv, HartInv
<1> QED
  BY <1>2, <1>7, <1>9, <1>10, <1>11 DEF IInv

(* Every step of the scheduler preserves the invariant. *)
LEMMA NextIInv == IInv /\ [Next]_vars => IInv'
<1> SUFFICES ASSUME IInv, [Next]_vars PROVE IInv'
  OBVIOUS
<1>0. /\ sched_info \in [Tasks -> SchedInfo]
      /\ QueueInv(ready_queues, ready_tasks, sched_info)
      /\ StatusInv(QueuedTasks(ready_queues), task_status, current)
  BY DEF IInv, QueueInv
<1>1. CASE Tick
  <2>1. /\ sched_info' \in [Tasks -> SchedInfo]
        /\ \A t \in Tasks : sched_info'[t].in_ready_queue = sched_info[t].in_ready_queue
    <3>1. \A t \in Tasks : Min2(sched_info[t].waited + 1, WaitCap) \in 0 .. WaitCap
      BY <1>0, WaitCapNat, SMT DEF SchedInfo, Min2
    <3> QED
      BY <1>0, <1>1, <3>1 DEF Tick, SchedInfo
  <2>2. QueueInv(ready_queues, ready_tasks, sched_info')
    BY <1>0, <2>1, InfoChange
  <2> QED
    BY <1>1, <2>2 DEF IInv, HartInv, Tick
<1>2. CASE Fetch
  BY <1>2, FetchKeeps
<1>3. ASSUME NEW t \in Tasks, NEW info, info = [sched_info EXCEPT ![t] = on_timer_tick(sched_info[t])]
      PROVE  QueueInv(ready_queues, ready_tasks, info)
  <2>1. /\ info \in [Tasks -> SchedInfo]
        /\ \A u \in Tasks : info[u].in_ready_queue = sched_info[u].in_ready_queue
    BY <1>0, <1>3, InfoTypes
  <2> QED
    BY <1>0, <2>1, InfoChange
<1>4. ASSUME NEW t \in Tasks, TimerFromUser(t) PROVE IInv'
  <2> DEFINE info == [sched_info EXCEPT ![t] = on_timer_tick(sched_info[t])]
  <2>1. QueueInv(ready_queues, ready_tasks, info)
    BY <1>3
  <2>2. CheckPreemption(info, t) /\ current = t
    BY <1>4 DEF TimerFromUser
  <2> HIDE DEF info
  <2>3. HartInv'
    BY <1>4 DEF TimerFromUser, IInv, HartInv
  <2> QED
    BY <2>1, <2>2, <2>3, CheckPreemptionKeeps DEF IInv
<1>5. ASSUME NEW t \in Tasks, TimerFromKernel(t) PROVE IInv'
  <2> DEFINE info == [sched_info EXCEPT ![t] = on_timer_tick(sched_info[t])]
  <2>1. QueueInv(ready_queues, ready_tasks, info)
    BY <1>3
  <2>2. keep_current(RefreshedQueues(info), RefreshedInfo(info))
    BY <1>5 DEF TimerFromKernel
  <2> HIDE DEF info
  <2>3. HartInv'
    BY <1>5 DEF TimerFromKernel, IInv, HartInv
  <2> QED
    BY <2>1, <2>2, <2>3, KeepCurrent DEF IInv
<1>6. CASE TimerFromIdle
  BY <1>6 DEF TimerFromIdle, IInv, HartInv
<1>7. ASSUME NEW t \in Tasks, DeviceWakeup(t) PROVE IInv'
  <2>1. HartInv'
    BY <1>7 DEF DeviceWakeup, IInv, HartInv
  <2> QED
    BY <1>7, <2>1, WakeupTask DEF DeviceWakeup, IInv
<1>8. ASSUME NEW t \in Tasks, Syscall(t) \/ UserException(t) \/ TrapReturn(t) PROVE IInv'
  BY <1>8 DEF Syscall, UserException, TrapReturn, IInv, HartInv
<1>9. ASSUME NEW t \in Tasks, Yield(t) PROVE IInv'
  BY <1>0, <1>9, SuspendCurrent DEF Yield, IInv, HartInv
<1>10. ASSUME NEW t \in Tasks, Block(t) \/ Exit(t) PROVE IInv'
  <2>1. /\ current = t
        /\ current' = NoTask /\ UNCHANGED <<ready_queues, ready_tasks, pc, sie, timer_pending>>
        /\ sched_info' = [sched_info EXCEPT ![t] = on_block(sched_info[t])]
        /\ \E st \in {"Blocked", "Exited"} : task_status' = [task_status EXCEPT ![t] = st]
    BY <1>10 DEF Block, Exit
  <2>2. ~sched_info[t].in_ready_queue
    BY <1>0, <2>1 DEF QueueInv, StatusInv
  <2>3. /\ sched_info' \in [Tasks -> SchedInfo]
        /\ \A u \in Tasks : sched_info'[u].in_ready_queue = sched_info[u].in_ready_queue
    <3>1. on_block(sched_info[t]) \in SchedInfo /\ ~on_block(sched_info[t]).in_ready_queue
      BY <1>0, InfoTypes
    <3>2. on_block(sched_info[t]).in_ready_queue = sched_info[t].in_ready_queue
      BY <1>0, <2>2, <3>1 DEF SchedInfo
    <3> QED
      BY <1>0, <2>1, <3>1, <3>2
  <2>4. QueueInv(ready_queues, ready_tasks, sched_info')
    BY <1>0, <2>3, InfoChange
  <2>5. StatusInv(QueuedTasks(ready_queues), task_status', current')
    BY <1>0, <2>1, SchedulerAssumption DEF StatusInv
  <2>6. HartInv'
    BY <2>1 DEF IInv, HartInv
  <2> QED
    BY <2>1, <2>4, <2>5, <2>6 DEF IInv
<1>11. ASSUME NEW t \in Tasks, Stop(t) PROVE IInv'
  <2>1. StatusInv(QueuedTasks(ready_queues), task_status', current')
    BY <1>0, <1>11, SchedulerAssumption DEF StatusInv, Stop
  <2>2. HartInv'
    BY <1>11 DEF Stop, IInv, HartInv
  <2> QED
    BY <1>11, <2>1, <2>2 DEF Stop, IInv
<1>12. ASSUME NEW t \in Tasks, SyscallReturn(t) PROVE IInv'
  <2>1. HartInv'
    BY <1>12 DEF SyscallReturn, IInv, HartInv
  <2> QED
    BY <1>0, <1>12, <2>1, CheckPreemptionKeeps DEF SyscallReturn, IInv
<1>13. ASSUME NEW t \in Tasks, NEW u \in Tasks, SyscallWakeup(t, u) \/ Continue(t, u) PROVE IInv'
  <2>1. HartInv'
    BY <1>13 DEF SyscallWakeup, Continue, IInv, HartInv
  <2> QED
    BY <1>13, <2>1, WakeupTask DEF SyscallWakeup, Continue, IInv
<1>14. ASSUME NEW t \in Tasks, NEW u \in Tasks, CreateTask(t, u) PROVE IInv'
  <2> DEFINE info == [sched_info EXCEPT ![u] = NewSchedInfo(sched_info[t].base_priority)]
  <2>1. /\ task_status[u] = "Unborn" /\ u \notin QueuedTasks(ready_queues)
        /\ task_status' = [task_status EXCEPT ![u] = "Ready"]
        /\ add_task(ready_queues, info, u)
        /\ UNCHANGED <<current, pc, sie, timer_pending>>
    BY <1>0, <1>14 DEF CreateTask, StatusInv
  <2>2. sched_info[t].base_priority \in Priorities
    BY <1>0 DEF SchedInfo
  <2>3. /\ info \in [Tasks -> SchedInfo]
        /\ \A v \in Tasks : info[v].in_ready_queue = sched_info[v].in_ready_queue
    <3>1. /\ NewSchedInfo(sched_info[t].base_priority) \in SchedInfo
          /\ ~NewSchedInfo(sched_info[t].base_priority).in_ready_queue
      BY <2>2, NewInfoType
    <3>2. NewSchedInfo(sched_info[t].base_priority).in_ready_queue = sched_info[u].in_ready_queue
      BY <1>0, <2>1, <3>1 DEF QueueInv, SchedInfo
    <3> QED
      BY <1>0, <3>1, <3>2
  <2> HIDE DEF info
  <2>4. QueueInv(ready_queues, ready_tasks, info)
    BY <1>0, <2>3, InfoChange
  <2>5. /\ QueueInv(ready_queues', ready_tasks', sched_info')
        /\ QueuedTasks(ready_queues') = QueuedTasks(ready_queues) \cup {u}
    BY <2>1, <2>4, AddTask
  <2>6. StatusInv(QueuedTasks(ready_queues) \cup {u}, task_status', current')
    BY <1>0, <2>1 DEF StatusInv
  <2>7. HartInv'
    BY <2>1 DEF IInv, HartInv
  <2> QED
    BY <2>5, <2>6, <2>7 DEF IInv
<1>15. ASSUME NEW t \in Tasks, NEW pid \in Processes,
              GetSchedStats(t, pid) \/ \E p \in SettablePriorities : SetPriority(t, pid, p)
       PROVE  IInv'
  <2>1. /\ sched_info' \in [Tasks -> SchedInfo]
        /\ \A u \in Tasks : sched_info'[u].in_ready_queue = sched_info[u].in_ready_queue
    BY <1>0, <1>15, RefreshTypes, SchedulerAssumption, SMT DEF GetSchedStats, SetPriority
  <2>2. QueueInv(ready_queues, ready_tasks, sched_info')
    BY <1>0, <2>1, InfoChange
  <2> QED
    BY <1>15, <2>2 DEF GetSchedStats, SetPriority, IInv, HartInv
<1>16. CASE UNCHANGED vars
  BY <1>16 DEF vars, IInv, HartInv
<1> QED
  BY <1>1, <1>2, <1>4, <1>5, <1>6, <1>7, <1>8, <1>9, <1>10, <1>11, <1>12, <1>13, <1>14,
     <1>15, <1>16 DEF Next, TimerInterrupt, KernelStep
-----------------------------------------------------------------------------
(* The inductive invariant holds in every reachable state. *)
THEOREM Invariant == Spec => []IInv
BY InitIInv, NextIInv, PTL DEF Spec

(* Every field of the scheduler keeps its type: priorities stay within the *)
(* array of queues, the counter does not go below zero.                    *)
THEOREM TypeCorrect == Spec => []TypeOK
BY Invariant, IInvImplies, PTL

(* A ready task is in exactly one place of the queues, and nothing else is *)
(* in them, whatever TaskManager, the traps and the system calls do.       *)
THEOREM NoTaskLostOrDuplicated == Spec => []ReadyIffQueuedOnce
BY Invariant, IInvImplies, PTL

(* The flag in_ready_queue and the counter ready_tasks agree with the      *)
(* queues: the expect and debug_assert of priority.rs and task.rs hold.    *)
THEOREM FlagsAndCounterExact == Spec => []BooksAgree
BY Invariant, IInvImplies, PTL

(* PROCESSOR.current is the one task whose status is Running. *)
THEOREM OneRunning == Spec => []CurrentIsRunning
BY Invariant, IInvImplies, PTL
-----------------------------------------------------------------------------
(* A longer wait is at least as many promotions. *)
LEMMA DivMonotone ==
    ASSUME NEW a \in Nat, NEW b \in Nat, NEW k \in Nat \ {0}, a <= b
    PROVE  a \div k <= b \div k /\ 0 \div k = 0
<1> DEFINE x == a \div k
           y == b \div k
<1>1. /\ x \in Nat /\ y \in Nat
      /\ k * x <= a /\ b < k * y + k
  BY SMT
<1> HIDE DEF x, y
<1>2. ASSUME x > y PROVE FALSE
  <2>1. x - y - 1 \in Nat
    BY <1>1, <1>2, SMT
  <2>2. k * (x - y - 1) >= 0 /\ k * (x - y - 1) = k * x - k * y - k
    BY <1>1, <2>1, SMT
  <2>3. k * x \in Nat /\ k * y \in Nat
    BY <1>1, SMT
  <2> QED
    BY <1>1, <2>2, <2>3, SMT
<1>3. x <= y
  BY <1>1, <1>2, SMT
<1>4. 0 \div k = 0
  BY SMT
<1> QED
  BY <1>3, <1>4 DEF x, y

(* Aging never lowers a priority, and does nothing to one who just came. *)
LEMMA AgedBounds ==
    ASSUME NEW r \in SchedInfo
    PROVE  /\ AgedPriority(r) \in Priorities
           /\ r.base_priority <= AgedPriority(r)
           /\ r.waited = 0 => AgedPriority(r) = r.base_priority
<1>1. r.base_priority \in 0 .. MAX_PRIORITY /\ r.waited \in Nat
  BY WaitCapNat, SMT DEF SchedInfo, Priorities
<1>2. r.waited \div AGING_INTERVAL_TICKS \in Nat /\ 0 \div AGING_INTERVAL_TICKS = 0
  BY <1>1, DivNat, DivMonotone, SchedulerAssumption, SMT
<1> QED
  BY <1>1, <1>2, MaxPriorityAssumption, SMT DEF AgedPriority, Min2, Priorities

(* It raises the longer waiter at least as far as the other. *)
LEMMA AgedMonotone ==
    ASSUME NEW r \in SchedInfo, NEW s \in SchedInfo,
           r.base_priority = s.base_priority, r.waited <= s.waited
    PROVE  AgedPriority(r) <= AgedPriority(s)
<1>1. /\ r.base_priority \in 0 .. MAX_PRIORITY /\ r.waited \in Nat
      /\ s.base_priority \in 0 .. MAX_PRIORITY /\ s.waited \in Nat
  BY WaitCapNat, SMT DEF SchedInfo, Priorities
<1>2. /\ r.waited \div AGING_INTERVAL_TICKS \in Nat
      /\ s.waited \div AGING_INTERVAL_TICKS \in Nat
      /\ r.waited \div AGING_INTERVAL_TICKS <= s.waited \div AGING_INTERVAL_TICKS
  BY <1>1, DivNat, DivMonotone, SchedulerAssumption
<1> QED
  BY <1>1, <1>2, MaxPriorityAssumption, SMT DEF AgedPriority, Min2

(* A task that is not queued has not waited and has its own priority: what *)
(* on_dispatch, on_block and set_base_priority leave.                      *)
Rested(info) ==
    \A t \in Tasks : ~info[t].in_ready_queue =>
        info[t].waited = 0 /\ info[t].effective_priority = info[t].base_priority

(* The level of a queued task whose base priority cannot have been changed *)
(* lies between that priority and what its wait has lifted it to.          *)
LevelsFit(q, info) ==
    \A s \in Slots(q) :
        LET i == info[TaskAt(q, s)] IN
        i.base_priority \notin SettablePriorities =>
            i.base_priority <= s[1] /\ s[1] <= AgedPriority(i)

(* Of two such tasks with the same base priority the one that has waited   *)
(* longer comes first: it is on a higher level, or before the other on the *)
(* same level.                                                             *)
WaitersInOrder(q, info) ==
    \A s, r \in Slots(q) :
        LET i == info[TaskAt(q, s)]
            j == info[TaskAt(q, r)]
        IN  i.base_priority = j.base_priority /\ i.waited > j.waited
              => \/ i.base_priority \in SettablePriorities
                 \/ s[1] > r[1]
                 \/ s[1] = r[1] /\ s[2] < r[2]

(* What keeps the order of dispatch right, beside IInv. *)
OrderInv(q, info) == Rested(info) /\ LevelsFit(q, info) /\ WaitersInOrder(q, info)

(* After the refresh every task is on the level of its aged priority. *)
LEMMA RefreshedLevels ==
    ASSUME NEW info, QueueInv(ready_queues, ready_tasks, info)
    PROVE  \A s \in Slots(RefreshedQueues(info)) :
              /\ TaskAt(RefreshedQueues(info), s) \in QueuedTasks(ready_queues)
              /\ TaskAt(RefreshedQueues(info), s) \in Tasks
              /\ s[1] = AgedPriority(info[TaskAt(RefreshedQueues(info), s)])
<1> DEFINE new == RefreshedInfo(info)
           prio == [t \in Tasks |-> new[t].effective_priority]
           Q == RefreshedQueues(info)
<1>1. /\ info \in [Tasks -> SchedInfo]
      /\ ready_queues \in [Priorities -> Seq(Tasks)] /\ NoDuplicates(ready_queues)
      /\ \A t \in Tasks : info[t].in_ready_queue <=> t \in QueuedTasks(ready_queues)
  BY DEF QueueInv
<1>2. new \in [Tasks -> SchedInfo]
  BY <1>1, RefreshTypes DEF RefreshedInfo
<1>3. ASSUME NEW t \in QueuedTasks(ready_queues), t \in Tasks
      PROVE  new[t].effective_priority = AgedPriority(info[t])
  <2>1. new[t] = refresh_effective_priority(info[t]) /\ info[t].in_ready_queue
    BY <1>1, <1>3 DEF RefreshedInfo
  <2> QED
    BY <1>1, <1>3, <2>1 DEF refresh_effective_priority, SchedInfo
<1>4. Q = refresh_aging(ready_queues, prio)
  BY DEF RefreshedQueues
<1> HIDE DEF new
<1>5. prio \in [Tasks -> Priorities] /\ \A t \in Tasks : prio[t] = new[t].effective_priority
  BY <1>2 DEF SchedInfo
<1> HIDE DEF prio, Q
<1>6. /\ Q \in [Priorities -> Seq(Tasks)]
      /\ QueuedTasks(Q) = QueuedTasks(ready_queues)
      /\ \A s \in Slots(Q) : prio[TaskAt(Q, s)] = s[1]
  <2>1. IsFiniteSet(Tasks)
    BY TasksAssumption
  <2> QED
    BY <1>1, <1>4, <1>5, <2>1, RefreshKeepsTasks
<1>7. ASSUME NEW s \in Slots(Q)
      PROVE  /\ TaskAt(Q, s) \in QueuedTasks(ready_queues)
             /\ TaskAt(Q, s) \in Tasks
             /\ s[1] = AgedPriority(info[TaskAt(Q, s)])
  <2>1. TaskAt(Q, s) \in QueuedTasks(ready_queues)
    BY <1>6 DEF QueuedTasks
  <2>2. TaskAt(Q, s) \in Tasks
    BY <1>6, SlotIsPlace
  <2> QED
    BY <1>3, <1>5, <1>6, <2>1, <2>2
<1> QED
  BY <1>7 DEF Q

(* Accounts may change where the waits stay as they are and a priority     *)
(* changes to a settable one only.                                         *)
LEMMA OrderInfoChange ==
    ASSUME NEW q \in [Priorities -> Seq(Tasks)], NEW info \in [Tasks -> SchedInfo],
           OrderInv(q, info),
           NEW new \in [Tasks -> SchedInfo], Rested(new),
           \A t \in Tasks :
              /\ new[t].waited = info[t].waited
              /\ \/ new[t].base_priority = info[t].base_priority
                 \/ new[t].base_priority \in SettablePriorities
    PROVE  OrderInv(q, new)
<1>1. LevelsFit(q, new)
  <2> SUFFICES ASSUME NEW s \in Slots(q),
                      new[TaskAt(q, s)].base_priority \notin SettablePriorities
               PROVE  /\ new[TaskAt(q, s)].base_priority <= s[1]
                      /\ s[1] <= AgedPriority(new[TaskAt(q, s)])
    BY DEF LevelsFit
  <2>1. TaskAt(q, s) \in Tasks
    BY SlotIsPlace
  <2>2. /\ new[TaskAt(q, s)].waited = info[TaskAt(q, s)].waited
        /\ new[TaskAt(q, s)].base_priority = info[TaskAt(q, s)].base_priority
    BY <2>1
  <2>3. AgedPriority(new[TaskAt(q, s)]) = AgedPriority(info[TaskAt(q, s)])
    BY <2>2 DEF AgedPriority
  <2> QED
    BY <2>2, <2>3 DEF OrderInv, LevelsFit
<1>2. WaitersInOrder(q, new)
  <2> SUFFICES ASSUME NEW s \in Slots(q), NEW r \in Slots(q),
                      new[TaskAt(q, s)].base_priority = new[TaskAt(q, r)].base_priority,
                      new[TaskAt(q, s)].waited > new[TaskAt(q, r)].waited,
                      new[TaskAt(q, s)].base_priority \notin SettablePriorities
               PROVE  s[1] > r[1] \/ (s[1] = r[1] /\ s[2] < r[2])
    BY DEF WaitersInOrder
  <2>1. TaskAt(q, s) \in Tasks /\ TaskAt(q, r) \in Tasks
    BY SlotIsPlace
  <2> QED
    BY <2>1 DEF OrderInv, WaitersInOrder
<1> QED
  BY <1>1, <1>2 DEF OrderInv

(* TaskManager::add puts a task that has not waited behind those of its    *)
(* level.                                                                  *)
LEMMA OrderAddTask ==
    ASSUME NEW q, NEW info, QueueInv(q, ready_tasks, info), OrderInv(q, info),
           NEW t \in Tasks, t \notin QueuedTasks(q), add_task(q, info, t)
    PROVE  OrderInv(ready_queues', sched_info')
<1> DEFINE p == Min2(info[t].effective_priority, MAX_PRIORITY)
           last == <<p, Len(q[p]) + 1>>
           Q == ready_queues'
           new == sched_info'
<1>1. /\ info[t] \in SchedInfo /\ ~info[t].in_ready_queue
      /\ q \in [Priorities -> Seq(Tasks)]
      /\ info \in [Tasks -> SchedInfo]
  BY DEF QueueInv
<1>2. p \in Priorities /\ p = info[t].base_priority
  <2>1. info[t].effective_priority = info[t].base_priority
    BY <1>1 DEF OrderInv, Rested
  <2>2. info[t].effective_priority \in 0 .. MAX_PRIORITY
    BY <1>1 DEF SchedInfo, Priorities
  <2> QED
    BY <2>1, <2>2, MaxPriorityAssumption, SMT DEF Min2, Priorities
<1>3. /\ Q = push_back(q, p, t)
      /\ new = [info EXCEPT ![t] = on_enqueue(info[t])]
  BY <1>1 DEF add_task
<1> HIDE DEF p
<1>4. /\ Slots(Q) = Slots(q) \cup {last}
      /\ \A s \in Slots(q) : TaskAt(Q, s) = TaskAt(q, s)
      /\ TaskAt(Q, last) = t
  <2> HIDE DEF Q
  <2> QED
    BY <1>1, <1>2, <1>3, PushBackSlots, SMT
<1>5. /\ new[t] \in SchedInfo /\ new[t].in_ready_queue
      /\ new[t].waited = 0 /\ new[t].base_priority = p
      /\ \A u \in Tasks : u # t => new[u] = info[u]
  <2>1. on_enqueue(info[t]) \in SchedInfo /\ on_enqueue(info[t]).in_ready_queue
    BY <1>1, InfoTypes
  <2>2. on_enqueue(info[t]).waited = 0 /\ on_enqueue(info[t]).base_priority = p
    BY <1>1, <1>2 DEF on_enqueue, SchedInfo
  <2> QED
    BY <1>1, <1>3, <2>1, <2>2
<1>6. ASSUME NEW s \in Slots(q)
      PROVE  /\ TaskAt(q, s) \in Tasks /\ TaskAt(q, s) # t
             /\ s[1] \in Priorities /\ s[2] \in 1 .. Len(q[s[1]])
             /\ info[TaskAt(q, s)] \in SchedInfo
             /\ TaskAt(Q, s) = TaskAt(q, s) /\ new[TaskAt(q, s)] = info[TaskAt(q, s)]
  <2>1. /\ TaskAt(q, s) \in Tasks /\ s[1] \in Priorities /\ s[2] \in 1 .. Len(q[s[1]])
    BY <1>1, SlotIsPlace
  <2>2. TaskAt(q, s) # t
    BY DEF QueuedTasks
  <2> QED
    BY <1>1, <1>4, <1>5, <2>1, <2>2
<1>7. last[1] = p /\ last[2] = Len(q[p]) + 1 /\ Len(q[p]) \in Nat
  BY <1>1, <1>2, SMT
<1> HIDE DEF last, Q, new
<1>8. Rested(new)
  BY <1>5 DEF OrderInv, Rested
<1>9. LevelsFit(Q, new)
  <2>1. ASSUME NEW s \in Slots(q), new[TaskAt(Q, s)].base_priority \notin SettablePriorities
        PROVE  /\ new[TaskAt(Q, s)].base_priority <= s[1]
               /\ s[1] <= AgedPriority(new[TaskAt(Q, s)])
    BY <1>6, <2>1 DEF OrderInv, LevelsFit
  <2>2. AgedPriority(new[t]) = p /\ p <= p
    BY <1>2, <1>5, AgedBounds DEF Priorities
  <2> QED
    BY <1>4, <1>5, <1>7, <2>1, <2>2, SMT DEF LevelsFit
<1>10. WaitersInOrder(Q, new)
  <2> SUFFICES ASSUME NEW s \in Slots(Q), NEW r \in Slots(Q),
                      new[TaskAt(Q, s)].base_priority = new[TaskAt(Q, r)].base_priority,
                      new[TaskAt(Q, s)].waited > new[TaskAt(Q, r)].waited,
                      new[TaskAt(Q, s)].base_priority \notin SettablePriorities
               PROVE  s[1] > r[1] \/ (s[1] = r[1] /\ s[2] < r[2])
    BY DEF WaitersInOrder
  <2>1. CASE s \in Slots(q) /\ r \in Slots(q)
    BY <1>6, <2>1 DEF OrderInv, WaitersInOrder
  <2>2. CASE s = last
    <3>1. new[TaskAt(Q, r)].waited \in Nat
      BY <1>4, <1>5, <1>6, WaitCapNat, SMTT(30) DEF SchedInfo
    <3> QED
      BY <1>4, <1>5, <2>2, <3>1, SMTT(30)
  <2>3. CASE s \in Slots(q) /\ r = last
    <3>1. p <= s[1]
      BY <1>4, <1>5, <1>6, <2>3 DEF OrderInv, LevelsFit
    <3>2. s[1] = p => s[2] < last[2]
      BY <1>6, <1>7, <2>3, SMTT(30)
    <3> QED
      BY <1>2, <1>6, <1>7, <2>3, <3>1, <3>2, SMTT(30) DEF Priorities
  <2> QED
    BY <1>4, <2>1, <2>2, <2>3
<1> QED
  BY <1>8, <1>9, <1>10 DEF OrderInv, Q, new

(* The refresh lifts the longer waiter at least as far, and meets it first *)
(* where it lifts both to one level.                                       *)
LEMMA OrderRefresh ==
    ASSUME NEW info, QueueInv(ready_queues, ready_tasks, info), OrderInv(ready_queues, info)
    PROVE  OrderInv(RefreshedQueues(info), RefreshedInfo(info))
<1> DEFINE new == RefreshedInfo(info)
           prio == [t \in Tasks |-> new[t].effective_priority]
           Q == RefreshedQueues(info)
<1>1. /\ info \in [Tasks -> SchedInfo]
      /\ ready_queues \in [Priorities -> Seq(Tasks)] /\ NoDuplicates(ready_queues)
      /\ \A t \in Tasks : info[t].in_ready_queue <=> t \in QueuedTasks(ready_queues)
  BY DEF QueueInv
<1>2. /\ new \in [Tasks -> SchedInfo]
      /\ \A t \in Tasks : /\ new[t].waited = info[t].waited
                          /\ new[t].base_priority = info[t].base_priority
                          /\ AgedPriority(new[t]) = AgedPriority(info[t])
  <2>1. new \in [Tasks -> SchedInfo]
    BY <1>1, RefreshTypes DEF RefreshedInfo
  <2>2. ASSUME NEW t \in Tasks
        PROVE  /\ new[t].waited = info[t].waited
               /\ new[t].base_priority = info[t].base_priority
    BY <1>1 DEF RefreshedInfo, refresh_effective_priority, SchedInfo
  <2>3. ASSUME NEW t \in Tasks
        PROVE  AgedPriority(new[t]) = AgedPriority(info[t])
    BY <2>2 DEF AgedPriority
  <2> QED
    BY <2>1, <2>2, <2>3
<1>3. Rested(new)
  <2>1. \A t \in Tasks : t \notin QueuedTasks(ready_queues) => new[t] = info[t]
    BY DEF RefreshedInfo
  <2>2. \A t \in Tasks : new[t].in_ready_queue = info[t].in_ready_queue
    BY <1>1, RefreshTypes DEF RefreshedInfo
  <2> QED
    BY <1>1, <2>1, <2>2 DEF OrderInv, Rested
<1>4. \A s \in Slots(Q) :
         /\ TaskAt(Q, s) \in QueuedTasks(ready_queues)
         /\ TaskAt(Q, s) \in Tasks
         /\ s[1] = AgedPriority(info[TaskAt(Q, s)])
  BY RefreshedLevels
<1>5. Q = refresh_aging(ready_queues, prio)
  BY DEF RefreshedQueues
<1> HIDE DEF new
<1>6. prio \in [Tasks -> Priorities]
  BY <1>2 DEF SchedInfo
<1> HIDE DEF prio, Q
<1>7. LevelsFit(Q, new)
  <2> SUFFICES ASSUME NEW s \in Slots(Q)
               PROVE  /\ new[TaskAt(Q, s)].base_priority <= s[1]
                      /\ s[1] <= AgedPriority(new[TaskAt(Q, s)])
    BY DEF LevelsFit
  <2>1. new[TaskAt(Q, s)] \in SchedInfo /\ s[1] = AgedPriority(new[TaskAt(Q, s)])
    BY <1>2, <1>4
  <2>2. s[1] \in Priorities /\ new[TaskAt(Q, s)].base_priority <= s[1]
    BY <2>1, AgedBounds
  <2> QED
    BY <2>1, <2>2, SMT DEF Priorities
<1>8. WaitersInOrder(Q, new)
  <2> SUFFICES ASSUME NEW s \in Slots(Q), NEW r \in Slots(Q),
                      new[TaskAt(Q, s)].base_priority = new[TaskAt(Q, r)].base_priority,
                      new[TaskAt(Q, s)].waited > new[TaskAt(Q, r)].waited,
                      new[TaskAt(Q, s)].base_priority \notin SettablePriorities
               PROVE  s[1] > r[1] \/ (s[1] = r[1] /\ s[2] < r[2])
    BY DEF WaitersInOrder
  <2> DEFINE t == TaskAt(Q, s)
             u == TaskAt(Q, r)
  <2>1. /\ t \in Tasks /\ u \in Tasks
        /\ info[t] \in SchedInfo /\ info[u] \in SchedInfo
        /\ s[1] = AgedPriority(info[t]) /\ r[1] = AgedPriority(info[u])
        /\ info[t].base_priority = info[u].base_priority
        /\ info[t].waited > info[u].waited
        /\ info[t].base_priority \notin SettablePriorities
    BY <1>1, <1>2, <1>4
  <2>2. PICK a \in Slots(ready_queues), b \in Slots(ready_queues) :
           TaskAt(ready_queues, a) = t /\ TaskAt(ready_queues, b) = u
    BY <1>4 DEF QueuedTasks
  <2>3. /\ a[1] \in Priorities /\ b[1] \in Priorities
        /\ s[1] \in Priorities /\ r[1] \in Priorities
    BY <1>1, <2>1, SlotIsPlace, AgedBounds
  <2>4. r[1] <= s[1]
    <3>1. info[u].waited <= info[t].waited
      BY <2>1, WaitCapNat, SMTT(30) DEF SchedInfo
    <3> QED
      BY <2>1, <3>1, AgedMonotone
  <2>5. /\ a[1] <= s[1] /\ b[1] <= r[1]
        /\ a[1] > b[1] \/ (a[1] = b[1] /\ a[2] < b[2])
    BY <2>1, <2>2, SMTT(30) DEF OrderInv, LevelsFit, WaitersInOrder
  <2>6. ASSUME s[1] = r[1] PROVE s[2] < r[2]
    <3>1. FiledBefore(s[1], a, b)
      BY <2>3, <2>5, <2>6, SMT DEF FiledBefore, Priorities
    <3>2. IsFiniteSet(Tasks)
      BY TasksAssumption
    <3> HIDE DEF t, u
    <3>3. TaskAt(Q, s) = TaskAt(ready_queues, a) /\ TaskAt(Q, r) = TaskAt(ready_queues, b)
      BY <2>2 DEF t, u
    <3> QED
      BY <1>1, <1>5, <1>6, <2>6, <3>1, <3>2, <3>3, RefreshKeepsOrder
  <2> QED
    BY <2>3, <2>4, <2>6, SMT DEF Priorities
<1> QED
  BY <1>3, <1>7, <1>8 DEF OrderInv, Q, new

(* The dispatch of the first task of a level. *)
LEMMA OrderPopFront ==
    ASSUME NEW q, NEW info, QueueInv(q, ready_tasks, info), OrderInv(q, info),
           NEW p \in Priorities, q[p] # << >>, NEW t, t = Head(q[p]), t \in Tasks
    PROVE  OrderInv(pop_front(q, p), [info EXCEPT ![t] = on_dispatch(info[t])])
<1> DEFINE Q == pop_front(q, p)
           new == [info EXCEPT ![t] = on_dispatch(info[t])]
<1>1. /\ q \in [Priorities -> Seq(Tasks)] /\ NoDuplicates(q)
      /\ info \in [Tasks -> SchedInfo]
  BY DEF QueueInv
<1>2. /\ <<p, 1>> \in Slots(q) /\ TaskAt(q, <<p, 1>>) = t
      /\ \A s \in Slots(Q) : /\ Behind(p, s) \in Slots(q) /\ Behind(p, s) # <<p, 1>>
                             /\ TaskAt(q, Behind(p, s)) = TaskAt(Q, s)
      /\ Q \in [Priorities -> Seq(Tasks)]
  BY <1>1, PopFrontSlots
<1>3. Rested(new)
  BY <1>1, SMT DEF OrderInv, Rested, on_dispatch, SchedInfo
<1> HIDE DEF Q
<1>4. ASSUME NEW s \in Slots(Q)
      PROVE  /\ Behind(p, s) \in Slots(q) /\ Behind(p, s)[1] = s[1]
             /\ Behind(p, s)[2] = IF s[1] = p THEN s[2] + 1 ELSE s[2]
             /\ TaskAt(q, Behind(p, s)) = TaskAt(Q, s) /\ s[2] \in Nat
             /\ new[TaskAt(Q, s)] = info[TaskAt(q, Behind(p, s))]
  <2>1. /\ TaskAt(Q, s) \in Tasks /\ s[1] \in Priorities /\ s[2] \in 1 .. Len(Q[s[1]])
    BY <1>2, SlotIsPlace
  <2>2. s[2] \in Nat
    BY <1>2, <2>1, SMT
  <2>3. TaskAt(Q, s) # t
    BY <1>1, <1>2 DEF NoDuplicates
  <2>4. new[TaskAt(Q, s)] = info[TaskAt(Q, s)]
    BY <1>1, <2>1, <2>3
  <2> QED
    BY <1>2, <2>2, <2>4 DEF Behind
<1> HIDE DEF new
<1>5. LevelsFit(Q, new)
  BY <1>4 DEF OrderInv, LevelsFit
<1>6. WaitersInOrder(Q, new)
  <2> SUFFICES ASSUME NEW s \in Slots(Q), NEW r \in Slots(Q),
                      new[TaskAt(Q, s)].base_priority = new[TaskAt(Q, r)].base_priority,
                      new[TaskAt(Q, s)].waited > new[TaskAt(Q, r)].waited,
                      new[TaskAt(Q, s)].base_priority \notin SettablePriorities
               PROVE  s[1] > r[1] \/ (s[1] = r[1] /\ s[2] < r[2])
    BY DEF WaitersInOrder
  <2> DEFINE a == Behind(p, s)
             b == Behind(p, r)
  <2>0. /\ a \in Slots(q) /\ b \in Slots(q)
        /\ info[TaskAt(q, a)] = new[TaskAt(Q, s)] /\ info[TaskAt(q, b)] = new[TaskAt(Q, r)]
    BY <1>4
  <2>1. a[1] > b[1] \/ (a[1] = b[1] /\ a[2] < b[2])
    <3> HIDE DEF a, b, Q
    <3>1. WaitersInOrder(q, info)
      BY DEF OrderInv
    <3> QED
      BY <2>0, <3>1 DEF WaitersInOrder
  <2> HIDE DEF a, b
  <2>2. /\ a[1] = s[1] /\ a[2] = (IF s[1] = p THEN s[2] + 1 ELSE s[2]) /\ s[2] \in Nat
        /\ b[1] = r[1] /\ b[2] = (IF r[1] = p THEN r[2] + 1 ELSE r[2]) /\ r[2] \in Nat
    BY <1>4 DEF a, b
  <2> QED
    BY <2>1, <2>2, SMT
<1> QED
  BY <1>3, <1>5, <1>6 DEF OrderInv, Q, new

(* What a preemption check does to the order, whether or not it switches. *)
LEMMA OrderCheckPreemption ==
    ASSUME IInv, NEW info, QueueInv(ready_queues, ready_tasks, info),
           OrderInv(ready_queues, info),
           NEW t \in Tasks, current = t, CheckPreemption(info, t)
    PROVE  OrderInv(ready_queues', sched_info')
<1> DEFINE q == RefreshedQueues(info)
           new == RefreshedInfo(info)
<1>1. /\ QueueInv(q, ready_tasks, new) /\ QueuedTasks(q) = QueuedTasks(ready_queues)
      /\ OrderInv(q, new)
  BY Refresh, OrderRefresh
<1>2. CASE suspend_current(q, new, t)
  <2>1. t \notin QueuedTasks(q)
    BY <1>1 DEF IInv, StatusInv
  <2>2. add_task(q, new, t)
    BY <1>2 DEF suspend_current
  <2> HIDE DEF q, new
  <2> QED
    BY <1>1, <2>1, <2>2, OrderAddTask
<1>3. CASE keep_current(q, new)
  <2>1. ready_queues' = q /\ sched_info' = new
    BY <1>3 DEF keep_current
  <2> HIDE DEF q, new
  <2> QED
    BY <1>1, <2>1
<1> QED
  BY <1>2, <1>3 DEF CheckPreemption

(* The queues are in order at the start: only initproc is there. *)
LEMMA InitOrder == Init => OrderInv(ready_queues, sched_info)
<1> SUFFICES ASSUME Init PROVE OrderInv(ready_queues, sched_info)
  OBVIOUS
<1>1. EmptyQueues \in [Priorities -> Seq(Tasks)] /\ Slots(EmptyQueues) = {}
  <2>1. /\ EmptyQueues \in [Priorities -> Seq(Tasks)]
        /\ \A p \in Priorities : Len(EmptyQueues[p]) = 0
    BY SMT DEF EmptyQueues
  <2>2. ASSUME NEW s \in Slots(EmptyQueues) PROVE FALSE
    BY <2>1, SlotIsPlace, SMT
  <2> QED
    BY <2>1, <2>2
<1>2. EmptyQueues[DEFAULT_PRIORITY] = << >>
  BY SchedulerAssumption DEF EmptyQueues
<1>3. /\ Slots(ready_queues) = {<<DEFAULT_PRIORITY, 1>>}
      /\ TaskAt(ready_queues, <<DEFAULT_PRIORITY, 1>>) = InitTask
  <2>1. Len(EmptyQueues[DEFAULT_PRIORITY]) + 1 = 1
    BY <1>2, SMT
  <2>2. ready_queues = push_back(EmptyQueues, DEFAULT_PRIORITY, InitTask)
    BY DEF Init
  <2>3. InitTask \in Tasks /\ DEFAULT_PRIORITY \in Priorities
    BY SchedulerAssumption
  <2>4. LET Q == push_back(EmptyQueues, DEFAULT_PRIORITY, InitTask)
            last == <<DEFAULT_PRIORITY, Len(EmptyQueues[DEFAULT_PRIORITY]) + 1>>
        IN  Slots(Q) = Slots(EmptyQueues) \cup {last} /\ TaskAt(Q, last) = InitTask
    BY ONLY <1>1, <2>3, PushBackSlots, SMT
  <2> QED
    BY <1>1, <2>1, <2>2, <2>4
<1>4. Rested(sched_info)
  BY DEF Init, Rested, NewSchedInfo, on_enqueue
<1>5. /\ sched_info[InitTask] \in SchedInfo /\ sched_info[InitTask].waited = 0
      /\ sched_info[InitTask].base_priority = DEFAULT_PRIORITY
  <2>1. sched_info \in [Tasks -> SchedInfo]
    BY InitIInv DEF IInv, QueueInv
  <2> QED
    BY <2>1, SchedulerAssumption DEF Init, NewSchedInfo, on_enqueue
<1>6. LevelsFit(ready_queues, sched_info)
  <2>1. AgedPriority(sched_info[InitTask]) = DEFAULT_PRIORITY
    BY <1>5, AgedBounds
  <2> QED
    BY <1>3, <1>5, <2>1, SchedulerAssumption, SMT DEF LevelsFit, Priorities
<1>7. WaitersInOrder(ready_queues, sched_info)
  BY <1>3, <1>5, SMT DEF WaitersInOrder
<1> QED
  BY <1>4, <1>6, <1>7 DEF OrderInv

(* Every step of the scheduler keeps the queues in order. *)
LEMMA NextOrder ==
    IInv /\ OrderInv(ready_queues, sched_info) /\ [Next]_vars
       => OrderInv(ready_queues, sched_info)'
<1> SUFFICES ASSUME IInv, OrderInv(ready_queues, sched_info), [Next]_vars
             PROVE  OrderInv(ready_queues', sched_info')
  OBVIOUS
<1>0. /\ sched_info \in [Tasks -> SchedInfo] /\ ready_queues \in [Priorities -> Seq(Tasks)]
      /\ QueueInv(ready_queues, ready_tasks, sched_info)
      /\ StatusInv(QueuedTasks(ready_queues), task_status, current)
  BY DEF IInv, QueueInv
<1>1. CASE Tick
  <2>1. ASSUME NEW t \in Tasks
        PROVE  /\ sched_info[t] \in SchedInfo
               /\ sched_info'[t] = IF sched_info[t].in_ready_queue
                     THEN [sched_info[t] EXCEPT !.waited = Min2(sched_info[t].waited + 1, WaitCap)]
                     ELSE sched_info[t]
    BY <1>0, <1>1 DEF Tick
  <2>2. sched_info' \in [Tasks -> SchedInfo] /\ ready_queues' = ready_queues
    <3>1. \A t \in Tasks : Min2(sched_info[t].waited + 1, WaitCap) \in 0 .. WaitCap
      BY <1>0, WaitCapNat, SMT DEF SchedInfo, Min2
    <3> QED
      BY <1>0, <1>1, <3>1 DEF Tick, SchedInfo
  <2>3. ASSUME NEW s \in Slots(ready_queues)
        PROVE  LET t == TaskAt(ready_queues, s) IN
               /\ t \in Tasks
               /\ sched_info'[t].base_priority = sched_info[t].base_priority
               /\ sched_info'[t].waited = Min2(sched_info[t].waited + 1, WaitCap)
               /\ sched_info[t].waited \in 0 .. WaitCap
    <3> DEFINE t == TaskAt(ready_queues, s)
    <3>1. t \in Tasks /\ t \in QueuedTasks(ready_queues)
      BY <1>0, SlotIsPlace DEF QueuedTasks
    <3>2. sched_info[t].in_ready_queue
      BY <1>0, <3>1 DEF QueueInv
    <3> QED
      BY <2>1, <3>1, <3>2 DEF SchedInfo
  <2>4. Rested(sched_info')
    BY <2>1 DEF OrderInv, Rested, SchedInfo
  <2>5. LevelsFit(ready_queues, sched_info')
    <3> SUFFICES ASSUME NEW s \in Slots(ready_queues),
                        sched_info'[TaskAt(ready_queues, s)].base_priority \notin SettablePriorities
                 PROVE  /\ sched_info'[TaskAt(ready_queues, s)].base_priority <= s[1]
                        /\ s[1] <= AgedPriority(sched_info'[TaskAt(ready_queues, s)])
      BY DEF LevelsFit
    <3> DEFINE t == TaskAt(ready_queues, s)
    <3>1. /\ t \in Tasks /\ s[1] \in Priorities
          /\ sched_info'[t].base_priority = sched_info[t].base_priority
          /\ sched_info[t].waited <= sched_info'[t].waited
      BY <1>0, <2>3, SlotIsPlace, WaitCapNat, SMT DEF Min2
    <3>2. AgedPriority(sched_info[t]) <= AgedPriority(sched_info'[t])
      BY <1>0, <2>2, <3>1, AgedMonotone
    <3>3. AgedPriority(sched_info[t]) \in Priorities /\ AgedPriority(sched_info'[t]) \in Priorities
      BY <1>0, <2>2, <3>1, AgedBounds
    <3>4. sched_info[t].base_priority <= s[1] /\ s[1] <= AgedPriority(sched_info[t])
      BY <3>1 DEF OrderInv, LevelsFit
    <3> HIDE DEF t
    <3>5. s[1] <= AgedPriority(sched_info'[t])
      BY <3>1, <3>2, <3>3, <3>4, SMT DEF Priorities
    <3> QED
      BY <3>1, <3>4, <3>5 DEF t
  <2>6. WaitersInOrder(ready_queues, sched_info')
    <3> SUFFICES ASSUME NEW s \in Slots(ready_queues), NEW r \in Slots(ready_queues),
                        sched_info'[TaskAt(ready_queues, s)].base_priority
                           = sched_info'[TaskAt(ready_queues, r)].base_priority,
                        sched_info'[TaskAt(ready_queues, s)].waited
                           > sched_info'[TaskAt(ready_queues, r)].waited,
                        sched_info'[TaskAt(ready_queues, s)].base_priority \notin SettablePriorities
                 PROVE  s[1] > r[1] \/ (s[1] = r[1] /\ s[2] < r[2])
      BY DEF WaitersInOrder
    <3>1. sched_info[TaskAt(ready_queues, s)].waited > sched_info[TaskAt(ready_queues, r)].waited
      BY <2>3, WaitCapNat, SMT DEF Min2
    <3> QED
      BY <2>3, <3>1 DEF OrderInv, WaitersInOrder
  <2> QED
    BY <2>2, <2>4, <2>5, <2>6 DEF OrderInv
<1>2. CASE Fetch
  <2> DEFINE q == RefreshedQueues(sched_info)
             info == RefreshedInfo(sched_info)
             p == highest_ready_priority(q)
             t == Head(q[p])
  <2>1. /\ ready_tasks # 0
        /\ ready_queues' = pop_front(q, p)
        /\ sched_info' = [info EXCEPT ![t] = on_dispatch(info[t])]
    BY <1>2 DEF Fetch
  <2>2. QueueInv(q, ready_tasks, info) /\ OrderInv(q, info)
    BY <1>0, Refresh, OrderRefresh
  <2> HIDE DEF q, info
  <2>3. q \in [Priorities -> Seq(Tasks)] /\ QueuedTasks(q) # {}
    BY <2>1, <2>2, FS_EmptySet DEF QueueInv
  <2>4. p \in Priorities /\ q[p] # << >>
    BY <2>3, HighestReady
  <2> HIDE DEF p
  <2>5. t \in Tasks
    BY <2>3, <2>4, SMT
  <2> HIDE DEF t
  <2>6. OrderInv(pop_front(q, p), [info EXCEPT ![t] = on_dispatch(info[t])])
    BY <2>2, <2>4, <2>5, OrderPopFront DEF t
  <2> QED
    BY <2>1, <2>6
<1>3. ASSUME NEW t \in Tasks, current = t,
             NEW info, info = [sched_info EXCEPT ![t] = on_timer_tick(sched_info[t])]
      PROVE  QueueInv(ready_queues, ready_tasks, info) /\ OrderInv(ready_queues, info)
  <2>1. /\ info \in [Tasks -> SchedInfo]
        /\ \A u \in Tasks : /\ info[u].in_ready_queue = sched_info[u].in_ready_queue
                            /\ info[u].waited = sched_info[u].waited
                            /\ info[u].base_priority = sched_info[u].base_priority
                            /\ info[u].effective_priority = sched_info[u].effective_priority
    <3>1. on_timer_tick(sched_info[t]) \in SchedInfo
      BY <1>0, InfoTypes
    <3>2. /\ on_timer_tick(sched_info[t]).in_ready_queue = sched_info[t].in_ready_queue
          /\ on_timer_tick(sched_info[t]).waited = sched_info[t].waited
          /\ on_timer_tick(sched_info[t]).base_priority = sched_info[t].base_priority
          /\ on_timer_tick(sched_info[t]).effective_priority = sched_info[t].effective_priority
      BY <1>0 DEF on_timer_tick, SchedInfo
    <3> QED
      BY <1>0, <1>3, <3>1, <3>2
  <2>2. Rested(info)
    BY <2>1 DEF OrderInv, Rested
  <2> QED
    BY <1>0, <2>1, <2>2, InfoChange, OrderInfoChange
<1>4. ASSUME NEW t \in Tasks, TimerFromUser(t) PROVE OrderInv(ready_queues', sched_info')
  <2> DEFINE info == [sched_info EXCEPT ![t] = on_timer_tick(sched_info[t])]
  <2>1. CheckPreemption(info, t) /\ current = t
    BY <1>4 DEF TimerFromUser
  <2>2. QueueInv(ready_queues, ready_tasks, info) /\ OrderInv(ready_queues, info)
    BY <1>3, <2>1
  <2> HIDE DEF info
  <2> QED
    BY <2>1, <2>2, OrderCheckPreemption
<1>5. ASSUME NEW t \in Tasks, TimerFromKernel(t) PROVE OrderInv(ready_queues', sched_info')
  <2> DEFINE info == [sched_info EXCEPT ![t] = on_timer_tick(sched_info[t])]
  <2>1. ready_queues' = RefreshedQueues(info) /\ sched_info' = RefreshedInfo(info) /\ current = t
    BY <1>5 DEF TimerFromKernel, keep_current
  <2>2. QueueInv(ready_queues, ready_tasks, info) /\ OrderInv(ready_queues, info)
    BY <1>3, <2>1
  <2> HIDE DEF info
  <2>3. OrderInv(RefreshedQueues(info), RefreshedInfo(info))
    BY <2>2, OrderRefresh
  <2> QED
    BY <2>1, <2>3
<1>6. ASSUME NEW t \in Tasks, task_status[t] \notin {"Ready", "Running"}, wakeup_task(t)
      PROVE  OrderInv(ready_queues', sched_info')
  <2>1. t \notin QueuedTasks(ready_queues)
    BY <1>0, <1>6 DEF StatusInv
  <2> QED
    BY <1>0, <1>6, <2>1, OrderAddTask DEF wakeup_task
<1>7. ASSUME NEW t \in Tasks, DeviceWakeup(t) PROVE OrderInv(ready_queues', sched_info')
  BY <1>6, <1>7 DEF DeviceWakeup
<1>8. ASSUME NEW t \in Tasks, Yield(t) PROVE OrderInv(ready_queues', sched_info')
  <2>1. t \notin QueuedTasks(ready_queues) /\ add_task(ready_queues, sched_info, t)
    BY <1>0, <1>8 DEF Yield, suspend_current, StatusInv
  <2> QED
    BY <1>0, <2>1, OrderAddTask
<1>9. ASSUME NEW t \in Tasks, Block(t) \/ Exit(t) PROVE OrderInv(ready_queues', sched_info')
  <2>1. /\ current = t /\ ready_queues' = ready_queues
        /\ sched_info' = [sched_info EXCEPT ![t] = on_block(sched_info[t])]
    BY <1>9 DEF Block, Exit
  <2>2. ~sched_info[t].in_ready_queue
    BY <1>0, <2>1 DEF QueueInv, StatusInv
  <2>3. /\ sched_info[t].waited = 0
        /\ sched_info[t].effective_priority = sched_info[t].base_priority
    BY <2>2 DEF OrderInv, Rested
  <2>4. /\ on_block(sched_info[t]) \in SchedInfo
        /\ on_block(sched_info[t]).waited = sched_info[t].waited
        /\ on_block(sched_info[t]).base_priority = sched_info[t].base_priority
        /\ on_block(sched_info[t]).effective_priority = sched_info[t].base_priority
    <3>1. on_block(sched_info[t]) \in SchedInfo
      BY <1>0, InfoTypes
    <3> QED
      BY <1>0, <3>1 DEF on_block, SchedInfo
  <2>5. /\ sched_info' \in [Tasks -> SchedInfo]
        /\ \A u \in Tasks : /\ sched_info'[u].waited = sched_info[u].waited
                            /\ sched_info'[u].base_priority = sched_info[u].base_priority
    BY <1>0, <2>1, <2>4
  <2>6. Rested(sched_info')
    BY <1>0, <2>1, <2>3, <2>4 DEF OrderInv, Rested
  <2> QED
    BY <1>0, <2>1, <2>5, <2>6, OrderInfoChange
<1>10. ASSUME NEW t \in Tasks, SyscallReturn(t) PROVE OrderInv(ready_queues', sched_info')
  BY <1>0, <1>10, OrderCheckPreemption DEF SyscallReturn
<1>11. ASSUME NEW t \in Tasks, NEW u \in Tasks, SyscallWakeup(t, u) \/ Continue(t, u)
       PROVE  OrderInv(ready_queues', sched_info')
  BY <1>6, <1>11 DEF SyscallWakeup, Continue
<1>12. ASSUME NEW t \in Tasks, NEW u \in Tasks, CreateTask(t, u)
       PROVE  OrderInv(ready_queues', sched_info')
  <2> DEFINE fresh == NewSchedInfo(sched_info[t].base_priority)
             info == [sched_info EXCEPT ![u] = fresh]
  <2>1. /\ u \notin QueuedTasks(ready_queues)
        /\ add_task(ready_queues, info, u)
    BY <1>0, <1>12 DEF CreateTask, StatusInv
  <2>2. sched_info[t].base_priority \in Priorities
    BY <1>0 DEF SchedInfo
  <2>3. fresh \in SchedInfo /\ ~fresh.in_ready_queue
    BY <2>2, NewInfoType
  <2>4. fresh.waited = 0 /\ fresh.effective_priority = fresh.base_priority
    BY DEF NewSchedInfo
  <2> HIDE DEF fresh
  <2>5. /\ info \in [Tasks -> SchedInfo]
        /\ \A v \in Tasks : v # u => info[v] = sched_info[v]
        /\ info[u] = fresh
    BY <1>0, <2>3
  <2> HIDE DEF info
  <2>6. ~sched_info[u].in_ready_queue
    BY <1>0, <2>1 DEF QueueInv
  <2>7. QueueInv(ready_queues, ready_tasks, info)
    BY <1>0, <2>1, <2>3, <2>5 DEF QueueInv
  <2>8. \A s \in Slots(ready_queues) :
           info[TaskAt(ready_queues, s)] = sched_info[TaskAt(ready_queues, s)]
    <3>1. \A s \in Slots(ready_queues) :
             TaskAt(ready_queues, s) \in Tasks /\ TaskAt(ready_queues, s) # u
      BY <1>0, <2>1, SlotIsPlace DEF QueuedTasks
    <3> QED
      BY <2>5, <3>1
  <2>9. OrderInv(ready_queues, info)
    <3>1. Rested(info)
      BY <2>3, <2>4, <2>5 DEF OrderInv, Rested
    <3>2. LevelsFit(ready_queues, info)
      BY <2>8 DEF OrderInv, LevelsFit
    <3>3. WaitersInOrder(ready_queues, info)
      BY <2>8 DEF OrderInv, WaitersInOrder
    <3> QED
      BY <3>1, <3>2, <3>3 DEF OrderInv
  <2> QED
    BY <2>1, <2>7, <2>9, OrderAddTask
<1>13. ASSUME NEW s \in SchedInfo
       PROVE  /\ refresh_effective_priority(s).waited = s.waited
              /\ refresh_effective_priority(s).base_priority = s.base_priority
              /\ ~s.in_ready_queue =>
                    refresh_effective_priority(s).effective_priority = s.base_priority
  BY DEF refresh_effective_priority, SchedInfo
<1>14. ASSUME NEW t \in Tasks, NEW pid \in Processes, GetSchedStats(t, pid)
       PROVE  OrderInv(ready_queues', sched_info')
  <2>1. /\ ready_queues' = ready_queues
        /\ sched_info' \in [Tasks -> SchedInfo]
        /\ \A u \in Tasks : \/ sched_info'[u] = sched_info[u]
                            \/ sched_info'[u] = refresh_effective_priority(sched_info[u])
    BY <1>0, <1>14, RefreshTypes DEF GetSchedStats
  <2>2. \A u \in Tasks : /\ sched_info'[u].waited = sched_info[u].waited
                         /\ sched_info'[u].base_priority = sched_info[u].base_priority
    BY <1>0, <1>13, <2>1
  <2>3. \A u \in Tasks : sched_info'[u].in_ready_queue = sched_info[u].in_ready_queue
    BY <1>0, <2>1, RefreshTypes
  <2>4. Rested(sched_info')
    <3> SUFFICES ASSUME NEW u \in Tasks, ~sched_info'[u].in_ready_queue
                 PROVE  /\ sched_info'[u].waited = 0
                        /\ sched_info'[u].effective_priority = sched_info'[u].base_priority
      BY DEF Rested
    <3>1. sched_info[u] \in SchedInfo /\ ~sched_info[u].in_ready_queue
      BY <1>0, <2>3
    <3>2. /\ sched_info[u].waited = 0
          /\ sched_info[u].effective_priority = sched_info[u].base_priority
      BY <3>1 DEF OrderInv, Rested
    <3>3. sched_info'[u].effective_priority = sched_info[u].base_priority
      BY <1>13, <2>1, <3>1, <3>2
    <3> QED
      BY <2>2, <3>2, <3>3
  <2> QED
    BY <1>0, <2>1, <2>2, <2>4, OrderInfoChange
<1>15. ASSUME NEW t \in Tasks, NEW pid \in Processes, NEW p \in SettablePriorities,
              SetPriority(t, pid, p)
       PROVE  OrderInv(ready_queues', sched_info')
  <2>0. p \in Priorities
    BY SchedulerAssumption
  <2>1. /\ ready_queues' = ready_queues
        /\ sched_info' \in [Tasks -> SchedInfo]
        /\ \A u \in Tasks : \/ sched_info'[u] = sched_info[u]
                            \/ sched_info'[u] = set_base_priority(sched_info[u], p)
    BY <1>0, <1>15, <2>0, RefreshTypes DEF SetPriority
  <2>2. ASSUME NEW s \in SchedInfo
        PROVE  /\ set_base_priority(s, p).waited = s.waited
               /\ set_base_priority(s, p).base_priority = p
               /\ ~s.in_ready_queue => set_base_priority(s, p).effective_priority = p
    <3> DEFINE r == [s EXCEPT !.base_priority = p]
    <3>1. /\ r \in SchedInfo /\ r.waited = s.waited /\ r.base_priority = p
          /\ r.in_ready_queue = s.in_ready_queue
      BY <2>0 DEF SchedInfo
    <3>2. set_base_priority(s, p) = refresh_effective_priority(r)
      BY DEF set_base_priority
    <3> HIDE DEF r
    <3> QED
      BY <1>13, <3>1, <3>2
  <2>3. \A u \in Tasks : /\ sched_info'[u].waited = sched_info[u].waited
                         /\ \/ sched_info'[u].base_priority = sched_info[u].base_priority
                            \/ sched_info'[u].base_priority \in SettablePriorities
    BY <1>0, <2>1, <2>2, SMTT(30)
  <2>4. ASSUME NEW u \in Tasks
        PROVE  sched_info'[u].in_ready_queue = sched_info[u].in_ready_queue
    <3>1. set_base_priority(sched_info[u], p).in_ready_queue = sched_info[u].in_ready_queue
      BY <1>0, <2>0, RefreshTypes
    <3> QED
      BY <2>1, <3>1
  <2>5. Rested(sched_info')
    <3> SUFFICES ASSUME NEW u \in Tasks, ~sched_info'[u].in_ready_queue
                 PROVE  /\ sched_info'[u].waited = 0
                        /\ sched_info'[u].effective_priority = sched_info'[u].base_priority
      BY DEF Rested
    <3>1. sched_info[u] \in SchedInfo /\ ~sched_info[u].in_ready_queue
      BY <1>0, <2>4
    <3>2. /\ sched_info[u].waited = 0
          /\ sched_info[u].effective_priority = sched_info[u].base_priority
      BY <3>1 DEF OrderInv, Rested
    <3>3. sched_info'[u].effective_priority = sched_info'[u].base_priority
      BY <2>1, <2>2, <3>1, <3>2
    <3> QED
      BY <2>3, <3>2, <3>3
  <2> QED
    BY <1>0, <2>1, <2>3, <2>5, OrderInfoChange
<1>16. ASSUME UNCHANGED <<ready_queues, sched_info>> PROVE OrderInv(ready_queues', sched_info')
  BY <1>16
<1>17. CASE TimerFromIdle \/ UNCHANGED vars
  BY <1>16, <1>17 DEF TimerFromIdle, vars
<1>18. ASSUME NEW t \in Tasks, Syscall(t) \/ UserException(t) \/ TrapReturn(t) \/ Stop(t)
       PROVE  OrderInv(ready_queues', sched_info')
  BY <1>16, <1>18 DEF Syscall, UserException, TrapReturn, Stop
<1> QED
  BY <1>1, <1>2, <1>4, <1>5, <1>7, <1>8, <1>9, <1>10, <1>11, <1>12, <1>14, <1>15, <1>17, <1>18
  DEF Next, TimerInterrupt, KernelStep

(* Nobody is filed above the highest level that is not empty. *)
LEMMA HighestIsBound ==
    ASSUME NEW q \in [Priorities -> Seq(Tasks)], NEW s \in Slots(q)
    PROVE  s[1] \in Priorities /\ s[1] <= highest_ready_priority(q)
<1>1. s[1] \in Priorities /\ s[2] \in 1 .. Len(q[s[1]])
  BY SlotIsPlace
<1>2. q[s[1]] # << >>
  BY <1>1, SMT
<1>3. TaskAt(q, s) \in QueuedTasks(q)
  BY DEF QueuedTasks
<1>4. /\ highest_ready_priority(q) \in Priorities
      /\ \A r \in Priorities : r > highest_ready_priority(q) => q[r] = << >>
  BY <1>3, HighestReady
<1> QED
  BY <1>1, <1>2, <1>4, MaxPriorityAssumption, SMT DEF Priorities

(* The refresh finds every ready task's aged priority: none is above the   *)
(* highest level after it.                                                 *)
LEMMA RefreshedHighest ==
    ASSUME NEW info, QueueInv(ready_queues, ready_tasks, info),
           NEW u \in QueuedTasks(ready_queues)
    PROVE  /\ u \in Tasks /\ info[u] \in SchedInfo
           /\ AgedPriority(info[u]) <= highest_ready_priority(RefreshedQueues(info))
           /\ highest_ready_priority(RefreshedQueues(info)) \in Priorities
<1> DEFINE Q == RefreshedQueues(info)
<1>1. /\ Q \in [Priorities -> Seq(Tasks)] /\ u \in QueuedTasks(Q)
      /\ info \in [Tasks -> SchedInfo]
  BY Refresh DEF QueueInv
<1>2. PICK s \in Slots(Q) : TaskAt(Q, s) = u
  BY <1>1 DEF QueuedTasks
<1>3. u \in Tasks /\ s[1] = AgedPriority(info[u])
  BY <1>2, RefreshedLevels
<1> HIDE DEF Q
<1>4. s[1] <= highest_ready_priority(Q) /\ highest_ready_priority(Q) \in Priorities
  BY <1>1, HighestIsBound, HighestReady
<1> QED
  BY <1>1, <1>3, <1>4 DEF Q

(* The queues are always in order. *)
THEOREM OrderInvariant == Spec => []OrderInv(ready_queues, sched_info)
BY Invariant, InitOrder, NextOrder, PTL DEF Spec

(* A check that leaves the processor with t found nobody above it and a    *)
(* slice that is not used up, or nobody ready.                             *)
LEMMA CheckKeepsByRight ==
    ASSUME IInv, NEW info, QueueInv(ready_queues, ready_tasks, info), Rested(info),
           NEW t \in Tasks, current = t, current' = t, CheckPreemption(info, t),
           NEW u \in Tasks, task_status[u] = "Ready"
    PROVE  /\ u # t
           /\ AgedPriority(info[u]) <= info[t].base_priority
           /\ sched_info'[t].slice_ticks < TIME_SLICE_TICKS
<1> DEFINE q == RefreshedQueues(info)
<1>1. /\ u \in QueuedTasks(ready_queues) /\ t \notin QueuedTasks(ready_queues)
      /\ info \in [Tasks -> SchedInfo] /\ ready_tasks = Cardinality(QueuedTasks(ready_queues))
      /\ \A v \in Tasks : info[v].in_ready_queue <=> v \in QueuedTasks(ready_queues)
      /\ NoTask # t
  BY SchedulerAssumption DEF IInv, QueueInv, StatusInv
<1>2. ready_tasks # 0
  <2>1. IsFiniteSet(QueuedTasks(ready_queues))
    BY TasksAssumption, SlotsFinite DEF QueueInv
  <2> QED
    BY <1>1, <2>1, FS_EmptySet
<1>3. keep_current(q, RefreshedInfo(info)) /\ ~should_preempt(q, info, t)
  BY <1>1 DEF CheckPreemption, suspend_current
<1>4. sched_info'[t] = info[t]
  BY <1>1, <1>3 DEF keep_current, RefreshedInfo
<1>5. info[t].effective_priority = info[t].base_priority
  BY <1>1 DEF Rested
<1>6. /\ AgedPriority(info[u]) <= highest_ready_priority(q)
      /\ highest_ready_priority(q) \in Priorities /\ AgedPriority(info[u]) \in Priorities
  BY <1>1, RefreshedHighest, AgedBounds
<1> HIDE DEF q
<1>7. /\ info[t].base_priority \in Int /\ info[t].slice_ticks \in Int
      /\ TIME_SLICE_TICKS \in Int /\ highest_ready_priority(q) \in Int
      /\ AgedPriority(info[u]) \in Int
  BY <1>1, <1>6, SchedulerAssumption, SMT DEF SchedInfo, Priorities
<1>8. /\ ~(info[t].slice_ticks >= TIME_SLICE_TICKS)
      /\ ~(highest_ready_priority(q) > info[t].effective_priority)
  BY <1>2, <1>3 DEF should_preempt
<1>9. highest_ready_priority(q) <= info[t].base_priority /\ info[t].slice_ticks < TIME_SLICE_TICKS
  BY <1>5, <1>7, <1>8, SMTT(30)
<1>10. AgedPriority(info[u]) <= info[t].base_priority
  BY <1>6, <1>7, <1>9, SMT
<1> QED
  BY <1>1, <1>4, <1>9, <1>10

(* A step that keeps the processor at a check does so by right. *)
LEMMA StepKeepsByRight ==
    ASSUME IInv, OrderInv(ready_queues, sched_info), [Next]_vars
    PROVE  KeepsProcessorByRight
<1> SUFFICES ASSUME NEW t \in Tasks, current = t, current' = t,
                    \/ pc[t] = "user" /\ pc'[t] = "tail" /\ timer_pending /\ ~timer_pending'
                    \/ pc[t] = "syscall" /\ pc'[t] = "tail",
                    NEW u \in Tasks, task_status[u] = "Ready"
             PROVE  /\ AgedPriority(sched_info[u]) <= sched_info[t].base_priority
                    /\ sched_info'[t].slice_ticks < TIME_SLICE_TICKS
  BY DEF KeepsProcessorByRight
<1>1. /\ pc \in [Tasks -> {"user", "syscall", "tail", "continued"}]
      /\ sched_info \in [Tasks -> SchedInfo]
      /\ QueueInv(ready_queues, ready_tasks, sched_info) /\ Rested(sched_info)
      /\ t # NoTask
  BY SchedulerAssumption DEF IInv, HartInv, QueueInv, OrderInv
<1>2. CASE TimerFromUser(t)
  <2> DEFINE info == [sched_info EXCEPT ![t] = on_timer_tick(sched_info[t])]
  <2>1. CheckPreemption(info, t)
    BY <1>2 DEF TimerFromUser
  <2>2. /\ on_timer_tick(sched_info[t]) \in SchedInfo
        /\ on_timer_tick(sched_info[t]).in_ready_queue = sched_info[t].in_ready_queue
    BY <1>1, InfoTypes
  <2>3. /\ on_timer_tick(sched_info[t]).base_priority = sched_info[t].base_priority
        /\ on_timer_tick(sched_info[t]).effective_priority = sched_info[t].effective_priority
        /\ on_timer_tick(sched_info[t]).waited = sched_info[t].waited
    BY <1>1 DEF on_timer_tick, SchedInfo
  <2>4. /\ info \in [Tasks -> SchedInfo]
        /\ info[t] = on_timer_tick(sched_info[t])
        /\ \A v \in Tasks : v # t => info[v] = sched_info[v]
    BY <1>1, <2>2
  <2> HIDE DEF info
  <2>5. QueueInv(ready_queues, ready_tasks, info) /\ Rested(info)
    <3>1. \A v \in Tasks : info[v].in_ready_queue = sched_info[v].in_ready_queue
      BY <2>2, <2>4
    <3>2. QueueInv(ready_queues, ready_tasks, info)
      BY <1>1, <2>4, <3>1, InfoChange
    <3>3. Rested(info)
      BY <1>1, <2>2, <2>3, <2>4 DEF Rested
    <3> QED
      BY <3>2, <3>3
  <2>6. /\ u # t
        /\ AgedPriority(info[u]) <= info[t].base_priority
        /\ sched_info'[t].slice_ticks < TIME_SLICE_TICKS
    BY <2>1, <2>5, CheckKeepsByRight
  <2> QED
    BY <2>3, <2>4, <2>6
<1>3. CASE SyscallReturn(t)
  BY <1>1, <1>3, CheckKeepsByRight DEF SyscallReturn
<1>4. Next
  BY DEF vars
<1>5. ~Tick /\ ~Fetch /\ ~TimerFromIdle
  BY <1>1 DEF Tick, Fetch, TimerFromIdle
<1>6. \A v \in Tasks : ~DeviceWakeup(v)
  BY <1>1, SMT DEF DeviceWakeup
<1>7. \A v \in Tasks : /\ ~TimerFromKernel(v) /\ ~Syscall(v) /\ ~UserException(v) /\ ~Yield(v)
                       /\ ~Block(v) /\ ~Stop(v) /\ ~Exit(v) /\ ~TrapReturn(v)
  <2> SUFFICES ASSUME NEW v \in Tasks
               PROVE  /\ ~TimerFromKernel(v) /\ ~Syscall(v) /\ ~UserException(v) /\ ~Yield(v)
                      /\ ~Block(v) /\ ~Stop(v) /\ ~Exit(v) /\ ~TrapReturn(v)
    OBVIOUS
  <2>1. ~TimerFromKernel(v) /\ ~Yield(v) /\ ~Block(v) /\ ~Exit(v)
    BY <1>1 DEF TimerFromKernel, Yield, Block, Exit
  <2>2. ~Syscall(v) /\ ~UserException(v) /\ ~Stop(v) /\ ~TrapReturn(v)
    BY <1>1 DEF Syscall, UserException, Stop, TrapReturn
  <2> QED
    BY <2>1, <2>2
<1>8. \A v, w \in Tasks : ~SyscallWakeup(v, w) /\ ~CreateTask(v, w) /\ ~Continue(v, w)
  BY <1>1 DEF SyscallWakeup, CreateTask, Continue
<1>9. \A v \in Tasks : \A pid \in Processes :
         ~GetSchedStats(v, pid) /\ \A p \in SettablePriorities : ~SetPriority(v, pid, p)
  BY <1>1 DEF GetSchedStats, SetPriority
<1>10. \E v \in Tasks : TimerFromUser(v) \/ SyscallReturn(v)
  BY <1>4, <1>5, <1>6, <1>7, <1>8, <1>9 DEF Next, TimerInterrupt, KernelStep
<1> QED
  BY <1>2, <1>3, <1>10 DEF TimerFromUser, SyscallReturn

(* No priority inversion survives a preemption check: a task that goes     *)
(* back to user code from a timer interrupt or a system call has at least  *)
(* the aged priority of every ready task, and time left in its slice.      *)
THEOREM NoInversion == Spec => NoInversionAfterCheck
<1>1. IInv /\ OrderInv(ready_queues, sched_info) /\ [Next]_vars => [KeepsProcessorByRight]_vars
  BY StepKeepsByRight
<1> QED
  BY <1>1, Invariant, OrderInvariant, PTL DEF Spec, NoInversionAfterCheck

(* The task the processor goes to has waited longest among the ready tasks *)
(* of its unchanged base priority, and none has a higher aged priority.    *)
LEMMA FetchTakes ==
    ASSUME IInv, OrderInv(ready_queues, sched_info), Fetch
    PROVE  /\ current' \in QueuedTasks(ready_queues) /\ current' \in Tasks
           /\ \A u \in QueuedTasks(ready_queues) :
                 /\ u \in Tasks
                 /\ AgedPriority(sched_info[u]) <= AgedPriority(sched_info[current'])
                 /\ /\ sched_info[u].base_priority = sched_info[current'].base_priority
                    /\ sched_info[u].base_priority \notin SettablePriorities
                    => sched_info[u].waited <= sched_info[current'].waited
<1> DEFINE q == RefreshedQueues(sched_info)
           info == RefreshedInfo(sched_info)
           p == highest_ready_priority(q)
           t == Head(q[p])
<1>1. ready_tasks # 0 /\ current' = t
  BY DEF Fetch
<1>2. /\ QueueInv(ready_queues, ready_tasks, sched_info)
      /\ QueueInv(q, ready_tasks, info) /\ OrderInv(q, info)
      /\ QueuedTasks(q) = QueuedTasks(ready_queues)
  BY Refresh, OrderRefresh DEF IInv
<1>3. \A s \in Slots(q) : /\ TaskAt(q, s) \in Tasks
                          /\ s[1] = AgedPriority(sched_info[TaskAt(q, s)])
  BY <1>2, RefreshedLevels
<1>4. /\ sched_info \in [Tasks -> SchedInfo]
      /\ \A u \in Tasks : /\ info[u].waited = sched_info[u].waited
                          /\ info[u].base_priority = sched_info[u].base_priority
  <2>1. sched_info \in [Tasks -> SchedInfo]
    BY <1>2 DEF QueueInv
  <2>2. \A u \in Tasks : info[u] \in {sched_info[u], refresh_effective_priority(sched_info[u])}
    BY DEF RefreshedInfo
  <2>3. \A r \in SchedInfo : /\ refresh_effective_priority(r).waited = r.waited
                             /\ refresh_effective_priority(r).base_priority = r.base_priority
    BY DEF refresh_effective_priority, SchedInfo
  <2> HIDE DEF info
  <2> QED
    BY <2>1, <2>2, <2>3
<1> HIDE DEF q, info
<1>5. q \in [Priorities -> Seq(Tasks)] /\ QueuedTasks(q) # {}
  BY <1>1, <1>2, FS_EmptySet DEF QueueInv
<1>6. p \in Priorities /\ q[p] # << >>
  BY <1>5, HighestReady
<1> HIDE DEF p
<1>7. <<p, 1>> \in Slots(q) /\ TaskAt(q, <<p, 1>>) = t
  BY <1>5, <1>6, PopFrontSlots
<1>8. /\ t \in QueuedTasks(ready_queues) /\ t \in Tasks
      /\ p = AgedPriority(sched_info[t])
  <2>1. TaskAt(q, <<p, 1>>) \in QueuedTasks(q)
    BY <1>7 DEF QueuedTasks
  <2> HIDE DEF t
  <2>2. <<p, 1>>[1] = AgedPriority(sched_info[TaskAt(q, <<p, 1>>)])
    BY <1>3, <1>7
  <2> QED
    BY <1>2, <1>3, <1>7, <2>1, <2>2
<1> HIDE DEF t
<1>9. ASSUME NEW u \in QueuedTasks(ready_queues)
      PROVE  /\ u \in Tasks
             /\ AgedPriority(sched_info[u]) <= AgedPriority(sched_info[t])
             /\ /\ sched_info[u].base_priority = sched_info[t].base_priority
                /\ sched_info[u].base_priority \notin SettablePriorities
                => sched_info[u].waited <= sched_info[t].waited
  <2>1. PICK s \in Slots(q) : TaskAt(q, s) = u
    BY <1>2 DEF QueuedTasks
  <2>2. /\ u \in Tasks /\ s[1] = AgedPriority(sched_info[u])
        /\ s[1] \in Priorities /\ s[2] \in Nat \ {0}
    BY <1>3, <1>5, <2>1, SlotIsPlace, SMT
  <2>3. s[1] <= p
    BY <1>5, HighestIsBound DEF p
  <2>4. ASSUME sched_info[u].base_priority = sched_info[t].base_priority,
               sched_info[u].base_priority \notin SettablePriorities,
               ~(sched_info[u].waited <= sched_info[t].waited)
        PROVE  FALSE
    <3>1. sched_info[u].waited > sched_info[t].waited
      BY <1>4, <1>8, <2>2, <2>4, WaitCapNat, SMTT(30) DEF SchedInfo
    <3>2. /\ info[TaskAt(q, s)].base_priority = info[TaskAt(q, <<p, 1>>)].base_priority
          /\ info[TaskAt(q, s)].waited > info[TaskAt(q, <<p, 1>>)].waited
          /\ info[TaskAt(q, s)].base_priority \notin SettablePriorities
      BY <1>4, <1>7, <1>8, <2>1, <2>2, <2>4, <3>1
    <3>3. s[1] > <<p, 1>>[1] \/ (s[1] = <<p, 1>>[1] /\ s[2] < <<p, 1>>[2])
      BY <1>2, <1>7, <3>2 DEF OrderInv, WaitersInOrder
    <3>4. s[1] > p \/ s[2] < 1
      BY <3>3
    <3> QED
      BY <1>6, <2>2, <2>3, <3>4, SMTT(30) DEF Priorities
  <2> QED
    BY <1>8, <2>2, <2>3, <2>4
<1> QED
  BY <1>1, <1>8, <1>9

(* Only the idle loop gives the processor to a task. *)
LEMMA OnlyFetchDispatches ==
    ASSUME [Next]_vars, current = NoTask, current' # NoTask
    PROVE  Fetch
<1>1. Next
  BY DEF vars
<1>2. ~Tick /\ ~TimerFromIdle
  BY DEF Tick, TimerFromIdle
<1>3. \A v \in Tasks : v # NoTask
  BY SchedulerAssumption
<1>4. \A v \in Tasks : ~DeviceWakeup(v) /\ ~TimerFromUser(v) /\ ~TimerFromKernel(v)
  BY <1>3 DEF DeviceWakeup, TimerFromUser, TimerFromKernel
<1>5. \A v \in Tasks : ~KernelStep(v)
  BY <1>3 DEF KernelStep, Syscall, UserException, Yield, Block, SyscallReturn, Stop, Exit,
     TrapReturn, SyscallWakeup, CreateTask, Continue, GetSchedStats, SetPriority
<1> QED
  BY <1>1, <1>2, <1>4, <1>5 DEF Next, TimerInterrupt

(* Aging and the moves between the queues never let a task overtake one    *)
(* of the same unchanged base priority that has waited longer.             *)
THEOREM NoOvertaking == Spec => LongestWaiterFirst
<1>1. IInv /\ OrderInv(ready_queues, sched_info) /\ [Next]_vars
         => [DispatchesLongestWaiter]_vars
  <2> SUFFICES ASSUME IInv, OrderInv(ready_queues, sched_info), [Next]_vars,
                      NEW t \in Tasks, NEW u \in Tasks,
                      current = NoTask, current' = u, sched_info[t].in_ready_queue,
                      sched_info[t].base_priority = sched_info[u].base_priority,
                      sched_info[t].base_priority \notin SettablePriorities
               PROVE  sched_info[t].waited <= sched_info[u].waited
    BY DEF DispatchesLongestWaiter
  <2>1. Fetch
    BY OnlyFetchDispatches, SchedulerAssumption
  <2>2. t \in QueuedTasks(ready_queues)
    BY DEF IInv, QueueInv
  <2> QED
    BY <2>1, <2>2, FetchTakes
<1> QED
  BY <1>1, Invariant, OrderInvariant, PTL DEF Spec, LongestWaiterFirst
-----------------------------------------------------------------------------
(***************************************************************************)
(* The refinement of SchedulingPolicy.                                     *)
(***************************************************************************)
Bases(info) == [t \in Tasks |-> info[t].base_priority]
Waits(info) == [t \in Tasks |-> info[t].waited]
ReadyOnes(status) == {t \in Tasks : status[t] = "Ready"}

(* A step that changes none of them is a stutter of the policy. *)
PolicyStutter ==
    /\ Bases(sched_info') = Bases(sched_info) /\ Waits(sched_info') = Waits(sched_info)
    /\ ReadyOnes(task_status') = ReadyOnes(task_status) /\ current' = current

(* A step that changes none of what the policy speaks of. *)
LEMMA PolicyStutters == PolicyStutter => UNCHANGED Policy!vars
BY DEF PolicyStutter, Bases, Waits, ReadyOnes, Policy!vars

(* Accounts compare by their entries. *)
LEMMA SameAccounts ==
    ASSUME NEW info, NEW new,
           \A t \in Tasks : /\ new[t].base_priority = info[t].base_priority
                            /\ new[t].waited = info[t].waited
    PROVE  Bases(new) = Bases(info) /\ Waits(new) = Waits(info)
BY DEF Bases, Waits

(* The refresh leaves what the policy sees. *)
LEMMA RefreshUnseen ==
    ASSUME NEW info \in [Tasks -> SchedInfo]
    PROVE  \A t \in Tasks : /\ RefreshedInfo(info)[t].base_priority = info[t].base_priority
                            /\ RefreshedInfo(info)[t].waited = info[t].waited
<1>1. \A t \in Tasks :
         RefreshedInfo(info)[t] \in {info[t], refresh_effective_priority(info[t])}
  BY DEF RefreshedInfo
<1>2. \A r \in SchedInfo : /\ refresh_effective_priority(r).waited = r.waited
                           /\ refresh_effective_priority(r).base_priority = r.base_priority
  BY DEF refresh_effective_priority, SchedInfo
<1> QED
  BY <1>1, <1>2

(* Queueing a task leaves what the policy sees: it had not waited. *)
LEMMA AddTaskUnseen ==
    ASSUME NEW q, NEW info \in [Tasks -> SchedInfo], Rested(info),
           NEW t \in Tasks, add_task(q, info, t)
    PROVE  Bases(sched_info') = Bases(info) /\ Waits(sched_info') = Waits(info)
<1>1. CASE info[t].in_ready_queue
  BY <1>1 DEF add_task
<1>2. CASE ~info[t].in_ready_queue
  <2>1. sched_info' = [info EXCEPT ![t] = on_enqueue(info[t])] /\ info[t].waited = 0
    BY <1>2 DEF add_task, Rested
  <2>2. /\ on_enqueue(info[t]).base_priority = info[t].base_priority
        /\ on_enqueue(info[t]).waited = 0
    BY DEF on_enqueue, SchedInfo
  <2> QED
    BY <2>1, <2>2, SameAccounts
<1> QED
  BY <1>1, <1>2

(* The processor is given up; S is {} or the task itself. *)
LEMMA PolicyReleases ==
    ASSUME NEW t \in Tasks, current = t, current' = NoTask,
           NEW S \in SUBSET {t}, ReadyOnes(task_status') = ReadyOnes(task_status) \cup S,
           Bases(sched_info') = Bases(sched_info), Waits(sched_info') = Waits(sched_info)
    PROVE  Policy!Next
<1>1. Policy!Release(t)
  BY DEF Bases, Waits, ReadyOnes, Policy!Release
<1> QED
  BY <1>1 DEF Policy!Next

(* A preemption check is a stutter or gives the processor up. *)
LEMMA PolicyCheck ==
    ASSUME IInv, NEW info \in [Tasks -> SchedInfo], Rested(info),
           Bases(info) = Bases(sched_info), Waits(info) = Waits(sched_info),
           NEW t \in Tasks, current = t, CheckPreemption(info, t)
    PROVE  PolicyStutter \/ Policy!Next
<1> DEFINE q == RefreshedQueues(info)
           new == RefreshedInfo(info)
<1>1. Bases(new) = Bases(info) /\ Waits(new) = Waits(info)
  BY RefreshUnseen, SameAccounts
<1>2. new \in [Tasks -> SchedInfo] /\ Rested(new)
  <2>1. new \in [Tasks -> SchedInfo]
    BY RefreshTypes DEF RefreshedInfo
  <2>2. ASSUME NEW u \in Tasks, ~new[u].in_ready_queue
        PROVE  new[u].waited = 0 /\ new[u].effective_priority = new[u].base_priority
    <3>1. \/ new[u] = info[u]
          \/ new[u] = refresh_effective_priority(info[u])
      BY DEF RefreshedInfo
    <3>2. ~info[u].in_ready_queue
      BY <2>2, <3>1, RefreshTypes
    <3>3. info[u].waited = 0 /\ info[u].effective_priority = info[u].base_priority
      BY <3>2 DEF Rested
    <3>4. /\ refresh_effective_priority(info[u]).waited = info[u].waited
          /\ refresh_effective_priority(info[u]).base_priority = info[u].base_priority
          /\ refresh_effective_priority(info[u]).effective_priority = info[u].base_priority
      BY <3>2 DEF refresh_effective_priority, SchedInfo
    <3> HIDE DEF new
    <3> QED
      BY <3>1, <3>3, <3>4
  <2> HIDE DEF new
  <2> QED
    BY <2>1, <2>2 DEF Rested
<1> HIDE DEF q, new
<1>3. CASE keep_current(q, new)
  BY <1>1, <1>3 DEF keep_current, PolicyStutter
<1>4. CASE suspend_current(q, new, t)
  <2>1. Bases(sched_info') = Bases(new) /\ Waits(sched_info') = Waits(new)
    BY <1>2, <1>4, AddTaskUnseen DEF suspend_current
  <2>2. ReadyOnes(task_status') = ReadyOnes(task_status) \cup {t} /\ current' = NoTask
    BY <1>4 DEF suspend_current, ReadyOnes, IInv, StatusInv
  <2> QED
    BY <1>1, <2>1, <2>2, PolicyReleases
<1> QED
  BY <1>3, <1>4 DEF CheckPreemption, q, new

(* A task that is neither ready nor running becomes ready. *)
LEMMA PolicyMakesReady ==
    ASSUME IInv, Rested(sched_info),
           NEW u \in Tasks, task_status[u] \notin {"Ready", "Running"},
           wakeup_task(u), current' = current
    PROVE  Policy!Next
<1>1. Bases(sched_info') = Bases(sched_info) /\ Waits(sched_info') = Waits(sched_info)
  BY AddTaskUnseen DEF wakeup_task, IInv, QueueInv
<1>2. /\ ReadyOnes(task_status') = ReadyOnes(task_status) \cup {u}
      /\ u \notin ReadyOnes(task_status) /\ current # u
  BY DEF wakeup_task, ReadyOnes, IInv, StatusInv
<1>3. Policy!MakeReady(u)
  BY <1>1, <1>2 DEF Bases, Waits, ReadyOnes, Policy!MakeReady
<1> QED
  BY <1>3 DEF Policy!Next

(* Every step of the scheduler is a step of the policy or a stutter. *)
LEMMA PolicyStep ==
    ASSUME IInv, OrderInv(ready_queues, sched_info), [Next]_vars
    PROVE  Policy!Next \/ UNCHANGED Policy!vars
<1> SUFFICES Policy!Next \/ PolicyStutter
  BY PolicyStutters
<1>0. /\ sched_info \in [Tasks -> SchedInfo] /\ Rested(sched_info)
      /\ task_status \in [Tasks -> {"Unborn", "Ready", "Running", "Blocked", "Stopped", "Exited"}]
      /\ \A t \in Tasks : task_status[t] = "Ready" <=> sched_info[t].in_ready_queue
      /\ \A t \in Tasks : task_status[t] = "Ready" <=> t \in QueuedTasks(ready_queues)
      /\ \A t \in Tasks : current = t <=> task_status[t] = "Running"
  BY DEF IInv, QueueInv, StatusInv, OrderInv
<1>1. CASE Tick
  <2>1. \A t \in Tasks :
           /\ sched_info'[t].base_priority = sched_info[t].base_priority
           /\ sched_info'[t].waited = IF t \in ReadyOnes(task_status)
                 THEN Min2(sched_info[t].waited + 1, WaitCap) ELSE sched_info[t].waited
    BY <1>0, <1>1 DEF Tick, SchedInfo, ReadyOnes
  <2>2. Bases(sched_info') = Bases(sched_info)
    BY <2>1 DEF Bases
  <2>3. Waits(sched_info') = [t \in Tasks |-> IF t \in ReadyOnes(task_status)
           THEN Policy!Min2(Waits(sched_info)[t] + 1, MAX_PRIORITY * AGING_INTERVAL_TICKS)
           ELSE Waits(sched_info)[t]]
    BY <2>1 DEF Waits, WaitCap, Min2, Policy!Min2
  <2>4. Policy!Age
    BY <1>1, <2>2, <2>3 DEF Tick, Bases, Waits, ReadyOnes, Policy!Age
  <2> QED
    BY <2>4 DEF Policy!Next
<1>2. CASE Fetch
  <2> DEFINE info == RefreshedInfo(sched_info)
  <2>1. PICK t : /\ current = NoTask /\ current' = t
                 /\ sched_info' = [info EXCEPT ![t] = on_dispatch(info[t])]
                 /\ task_status' = [task_status EXCEPT ![t] = "Running"]
    BY <1>2 DEF Fetch
  <2>2. /\ t \in Tasks /\ t \in ReadyOnes(task_status)
        /\ \A u \in ReadyOnes(task_status) :
              AgedPriority(sched_info[u]) <= AgedPriority(sched_info[t])
    BY <1>0, <1>2, <2>1, FetchTakes DEF ReadyOnes
  <2>3. /\ info \in [Tasks -> SchedInfo]
        /\ \A u \in Tasks : /\ info[u].base_priority = sched_info[u].base_priority
                            /\ info[u].waited = sched_info[u].waited
    <3>1. info \in [Tasks -> SchedInfo]
      BY <1>0, RefreshTypes DEF RefreshedInfo
    <3> QED
      BY <1>0, <3>1, RefreshUnseen
  <2> HIDE DEF info
  <2>4. /\ on_dispatch(info[t]).base_priority = info[t].base_priority
        /\ on_dispatch(info[t]).waited = 0
    BY <2>2, <2>3 DEF on_dispatch, SchedInfo
  <2>5. Bases(sched_info') = Bases(sched_info)
    BY <2>1, <2>2, <2>3, <2>4 DEF Bases
  <2>6. Waits(sched_info') = [Waits(sched_info) EXCEPT ![t] = 0]
    BY <2>1, <2>2, <2>3, <2>4 DEF Waits
  <2>7. ReadyOnes(task_status') = ReadyOnes(task_status) \ {t}
    BY <1>0, <2>1, <2>2 DEF ReadyOnes
  <2>8. \A u \in Tasks : Policy!Aged(u) = AgedPriority(sched_info[u])
    BY DEF Policy!Aged, AgedPriority, Policy!Min2, Min2
  <2>9. \A u \in ReadyOnes(task_status) : Policy!Aged(u) <= Policy!Aged(t)
    BY <2>2, <2>8 DEF ReadyOnes
  <2>10. Policy!Dispatch(t)
    BY <2>1, <2>2, <2>5, <2>6, <2>7, <2>9 DEF Bases, Waits, ReadyOnes, Policy!Dispatch
  <2> QED
    BY <2>2, <2>10 DEF Policy!Next
<1>3. ASSUME NEW t \in Tasks, NEW info,
             info = [sched_info EXCEPT ![t] = on_timer_tick(sched_info[t])]
      PROVE  /\ info \in [Tasks -> SchedInfo] /\ Rested(info)
             /\ Bases(info) = Bases(sched_info) /\ Waits(info) = Waits(sched_info)
  <2>1. /\ on_timer_tick(sched_info[t]) \in SchedInfo
        /\ on_timer_tick(sched_info[t]).in_ready_queue = sched_info[t].in_ready_queue
    BY <1>0, InfoTypes
  <2>2. /\ on_timer_tick(sched_info[t]).waited = sched_info[t].waited
        /\ on_timer_tick(sched_info[t]).base_priority = sched_info[t].base_priority
        /\ on_timer_tick(sched_info[t]).effective_priority = sched_info[t].effective_priority
    BY <1>0, SMT DEF on_timer_tick, SchedInfo
  <2>3. info \in [Tasks -> SchedInfo] /\ Rested(info)
    BY <1>0, <1>3, <2>1, <2>2 DEF Rested
  <2>4. \A u \in Tasks : /\ info[u].base_priority = sched_info[u].base_priority
                         /\ info[u].waited = sched_info[u].waited
    BY <1>0, <1>3, <2>2
  <2> QED
    BY <2>3, <2>4, SameAccounts
<1>4. ASSUME NEW t \in Tasks, TimerFromUser(t) PROVE Policy!Next \/ PolicyStutter
  <2> DEFINE info == [sched_info EXCEPT ![t] = on_timer_tick(sched_info[t])]
  <2>1. CheckPreemption(info, t) /\ current = t
    BY <1>4 DEF TimerFromUser
  <2>2. /\ info \in [Tasks -> SchedInfo] /\ Rested(info)
        /\ Bases(info) = Bases(sched_info) /\ Waits(info) = Waits(sched_info)
    BY <1>3
  <2> HIDE DEF info
  <2> QED
    BY <2>1, <2>2, PolicyCheck
<1>5. ASSUME NEW t \in Tasks, TimerFromKernel(t) PROVE PolicyStutter
  <2> DEFINE info == [sched_info EXCEPT ![t] = on_timer_tick(sched_info[t])]
  <2>1. /\ sched_info' = RefreshedInfo(info) /\ task_status' = task_status
        /\ current' = current
    BY <1>5 DEF TimerFromKernel, keep_current
  <2>2. /\ info \in [Tasks -> SchedInfo]
        /\ Bases(info) = Bases(sched_info) /\ Waits(info) = Waits(sched_info)
    BY <1>3
  <2> HIDE DEF info
  <2>3. Bases(sched_info') = Bases(info) /\ Waits(sched_info') = Waits(info)
    BY <2>1, <2>2, RefreshUnseen, SameAccounts
  <2> QED
    BY <2>1, <2>2, <2>3 DEF PolicyStutter
<1>6. ASSUME NEW t \in Tasks, SyscallReturn(t) PROVE Policy!Next \/ PolicyStutter
  BY <1>0, <1>6, PolicyCheck DEF SyscallReturn
<1>7. ASSUME NEW t \in Tasks, Yield(t) PROVE Policy!Next
  <2>1. /\ current = t /\ current' = NoTask
        /\ task_status' = [task_status EXCEPT ![t] = "Ready"]
        /\ add_task(ready_queues, sched_info, t)
    BY <1>7 DEF Yield, suspend_current
  <2>2. ReadyOnes(task_status') = ReadyOnes(task_status) \cup {t}
    BY <1>0, <2>1 DEF ReadyOnes
  <2> QED
    BY <1>0, <2>1, <2>2, AddTaskUnseen, PolicyReleases
<1>8. ASSUME NEW t \in Tasks, Block(t) \/ Exit(t) \/ Stop(t) PROVE Policy!Next
  <2>1. /\ current = t /\ current' = NoTask
        /\ \E st \in {"Blocked", "Exited", "Stopped"} :
              task_status' = [task_status EXCEPT ![t] = st]
        /\ \/ sched_info' = [sched_info EXCEPT ![t] = on_block(sched_info[t])]
           \/ sched_info' = sched_info
    BY <1>8 DEF Block, Exit, Stop
  <2>2. ReadyOnes(task_status') = ReadyOnes(task_status) \cup {}
    BY <1>0, <2>1 DEF ReadyOnes
  <2>3. /\ on_block(sched_info[t]).base_priority = sched_info[t].base_priority
        /\ on_block(sched_info[t]).waited = sched_info[t].waited
    BY <1>0, SMT DEF on_block, SchedInfo
  <2>4. \A u \in Tasks : /\ sched_info'[u].base_priority = sched_info[u].base_priority
                         /\ sched_info'[u].waited = sched_info[u].waited
    BY <1>0, <2>1, <2>3
  <2>5. Bases(sched_info') = Bases(sched_info) /\ Waits(sched_info') = Waits(sched_info)
    BY <2>4, SameAccounts
  <2>6. {} \in SUBSET {t}
    OBVIOUS
  <2> QED
    BY ONLY <2>1, <2>2, <2>5, <2>6, PolicyReleases
<1>9. ASSUME NEW u \in Tasks, DeviceWakeup(u) PROVE Policy!Next
  BY <1>0, <1>9, PolicyMakesReady DEF DeviceWakeup
<1>10. ASSUME NEW t \in Tasks, NEW u \in Tasks, SyscallWakeup(t, u) \/ Continue(t, u)
       PROVE  Policy!Next
  BY <1>0, <1>10, PolicyMakesReady DEF SyscallWakeup, Continue
<1>11. ASSUME NEW t \in Tasks, NEW u \in Tasks, CreateTask(t, u) PROVE Policy!Next
  <2> DEFINE fresh == NewSchedInfo(sched_info[t].base_priority)
             info == [sched_info EXCEPT ![u] = fresh]
  <2>1. /\ current = t /\ current' = t /\ task_status[u] = "Unborn"
        /\ task_status' = [task_status EXCEPT ![u] = "Ready"]
        /\ add_task(ready_queues, info, u)
    BY <1>11 DEF CreateTask
  <2>2. /\ fresh \in SchedInfo /\ fresh.waited = 0
        /\ fresh.base_priority = sched_info[t].base_priority
        /\ fresh.effective_priority = fresh.base_priority
    <3>1. sched_info[t].base_priority \in Priorities
      BY <1>0 DEF SchedInfo
    <3> QED
      BY <3>1, NewInfoType DEF NewSchedInfo
  <2> HIDE DEF fresh
  <2>3. info \in [Tasks -> SchedInfo] /\ Rested(info)
    BY <1>0, <2>2 DEF Rested
  <2>4. sched_info[u].waited = 0 /\ u # t
    BY <1>0, <2>1 DEF Rested
  <2>5. /\ Bases(info) = [Bases(sched_info) EXCEPT ![u] = Bases(sched_info)[t]]
        /\ Waits(info) = Waits(sched_info)
    BY <1>0, <2>2, <2>4 DEF Bases, Waits
  <2> HIDE DEF info
  <2>6. Bases(sched_info') = Bases(info) /\ Waits(sched_info') = Waits(info)
    BY <2>1, <2>3, AddTaskUnseen
  <2>7. ReadyOnes(task_status') = ReadyOnes(task_status) \cup {u} /\ u \notin ReadyOnes(task_status)
    BY <1>0, <2>1 DEF ReadyOnes
  <2>8. t # NoTask
    BY SchedulerAssumption
  <2>9. Policy!MakeReady(u)
    BY <2>1, <2>4, <2>5, <2>6, <2>7, <2>8 DEF Bases, Waits, ReadyOnes, Policy!MakeReady
  <2> QED
    BY <2>9 DEF Policy!Next
<1>12. ASSUME NEW t \in Tasks, NEW pid \in Processes, GetSchedStats(t, pid)
       PROVE  PolicyStutter
  <2>1. /\ task_status' = task_status /\ current' = current
        /\ \A u \in Tasks : \/ sched_info'[u] = sched_info[u]
                            \/ sched_info'[u] = refresh_effective_priority(sched_info[u])
    BY <1>12 DEF GetSchedStats
  <2>2. \A r \in SchedInfo : /\ refresh_effective_priority(r).waited = r.waited
                             /\ refresh_effective_priority(r).base_priority = r.base_priority
    BY DEF refresh_effective_priority, SchedInfo
  <2>3. \A u \in Tasks : /\ sched_info'[u].base_priority = sched_info[u].base_priority
                         /\ sched_info'[u].waited = sched_info[u].waited
    BY <1>0, <2>1, <2>2, SMT
  <2> QED
    BY <2>1, <2>3, SameAccounts DEF PolicyStutter
<1>13. ASSUME NEW t \in Tasks, NEW pid \in Processes, NEW p \in SettablePriorities,
              SetPriority(t, pid, p)
       PROVE  Policy!Next
  <2> DEFINE T == {u \in Tasks : ProcessOf[u] = pid /\ task_status[u] \notin {"Unborn", "Exited"}}
  <2>0. p \in 0 .. MAX_PRIORITY
    BY SchedulerAssumption DEF Priorities
  <2>1. /\ task_status' = task_status /\ current' = current
        /\ \A u \in Tasks : sched_info'[u] = IF u \in T THEN set_base_priority(sched_info[u], p)
                                                        ELSE sched_info[u]
    BY <1>13 DEF SetPriority
  <2>2. ASSUME NEW r \in SchedInfo
        PROVE  /\ set_base_priority(r, p).waited = r.waited
               /\ set_base_priority(r, p).base_priority = p
    <3> DEFINE rr == [r EXCEPT !.base_priority = p]
    <3>1. rr \in SchedInfo /\ rr.waited = r.waited /\ rr.base_priority = p
      BY <2>0 DEF SchedInfo, Priorities
    <3>2. set_base_priority(r, p) = refresh_effective_priority(rr)
      BY DEF set_base_priority
    <3> HIDE DEF rr
    <3> QED
      BY <3>1, <3>2 DEF refresh_effective_priority, SchedInfo
  <2>3. T \in SUBSET Tasks
    OBVIOUS
  <2> HIDE DEF T
  <2>4. Waits(sched_info') = Waits(sched_info)
    BY <1>0, <2>1, <2>2, SMTT(30) DEF Waits
  <2>5. Bases(sched_info') = [u \in Tasks |-> IF u \in T THEN p ELSE Bases(sched_info)[u]]
    BY <1>0, <2>1, <2>2, SMT DEF Bases
  <2>6. Policy!SetPriority(T, p)
    BY <2>1, <2>4, <2>5 DEF Bases, Waits, ReadyOnes, Policy!SetPriority
  <2> QED
    BY <2>0, <2>3, <2>6 DEF Policy!Next
<1>14. ASSUME UNCHANGED <<sched_info, task_status, current>> PROVE PolicyStutter
  BY <1>14 DEF PolicyStutter
<1>15. CASE TimerFromIdle \/ UNCHANGED vars
  BY <1>14, <1>15 DEF TimerFromIdle, vars
<1>16. ASSUME NEW t \in Tasks, Syscall(t) \/ UserException(t) \/ TrapReturn(t)
       PROVE  PolicyStutter
  BY <1>14, <1>16 DEF Syscall, UserException, TrapReturn
<1> QED
  BY <1>1, <1>2, <1>4, <1>5, <1>6, <1>7, <1>8, <1>9, <1>10, <1>11, <1>12, <1>13, <1>15, <1>16
  DEF Next, TimerInterrupt, KernelStep

(* The queues, the flag, the counter and the lazily refreshed priorities   *)
(* implement the scheduling policy: the processor goes to a ready task of  *)
(* highest aged priority, and no task becomes or stops being ready any     *)
(* other way than the policy says.                                         *)
THEOREM SchedulerImplementsPolicy == Spec => ImplementsPolicy
<1>1. Init => Policy!Init
  BY SchedulerAssumption, SMT DEF Init, Policy!Init, NewSchedInfo, on_enqueue
<1>2. IInv /\ OrderInv(ready_queues, sched_info) /\ [Next]_vars => [Policy!Next]_(Policy!vars)
  BY PolicyStep
<1> QED
  BY <1>1, <1>2, Invariant, OrderInvariant, PTL DEF Spec, ImplementsPolicy, Policy!Spec
-----------------------------------------------------------------------------
(* Sleeping tasks.  A task that the timer wakes before it blocks is        *)
(* blocked in the queue, with its flag off; the other flags agree with the *)
(* queues, and the counter does.                                           *)
SleepQueues(q, n, info, status) ==
    /\ q \in [Priorities -> Seq(Tasks)]
    /\ NoDuplicates(q)
    /\ info \in [Tasks -> SchedInfo]
    /\ \A t \in Tasks : info[t].in_ready_queue <=> t \in QueuedTasks(q) /\ status[t] # "Blocked"
    /\ n = Cardinality(QueuedTasks(q))
    /\ n \in Nat

(* A task has a timer from add_timer until check_timer queues it, and is   *)
(* then arming it or blocked; a task that runs is queued only while it     *)
(* arms a timer that has expired already.                                  *)
SleepTasks(queued, status, cur, at, dom, arm) ==
    /\ status \in [Tasks -> {"Unborn", "Ready", "Running", "Blocked", "Stopped", "Exited"}]
    /\ cur \in Tasks \cup {NoTask} /\ at \in [Tasks -> {"user", "syscall", "tail", "continued"}]
    /\ queued \subseteq Tasks /\ dom \subseteq Tasks /\ arm \in Tasks \cup {NoTask}
    /\ dom \cap queued = {}
    /\ \A t \in queued : status[t] \in {"Ready", "Blocked"} /\ (cur = t => arm = t)
    /\ \A t \in Tasks : cur = t => status[t] \in {"Ready", "Running"}
    /\ \A t \in dom : t = arm \/ status[t] = "Blocked"
    /\ \A t \in Tasks : t = arm \/ status[t] = "Blocked" => t \in dom \cup queued
    /\ arm # NoTask => arm = cur /\ at[cur] = "syscall"

SleepIInv ==
    /\ SleepQueues(ready_queues, ready_tasks, sched_info, task_status)
    /\ SleepTasks(QueuedTasks(ready_queues), task_status, current, pc, DOMAIN timers, arming)

(* TaskManager::add of a task that is not queued, and is made Ready. *)
LEMMA SleepAdd ==
    ASSUME NEW q, NEW info, SleepQueues(q, ready_tasks, info, task_status),
           NEW t \in Tasks, t \notin QueuedTasks(q), add_task(q, info, t),
           task_status \in [Tasks -> {"Unborn", "Ready", "Running", "Blocked", "Stopped", "Exited"}],
           task_status' = [task_status EXCEPT ![t] = "Ready"]
    PROVE  /\ SleepQueues(ready_queues', ready_tasks', sched_info', task_status')
           /\ QueuedTasks(ready_queues') = QueuedTasks(q) \cup {t}
<1> DEFINE p == Min2(info[t].effective_priority, MAX_PRIORITY)
<1>1. /\ info[t] \in SchedInfo /\ ~info[t].in_ready_queue
      /\ ready_tasks = Cardinality(QueuedTasks(q)) /\ ready_tasks \in Nat
      /\ q \in [Priorities -> Seq(Tasks)] /\ NoDuplicates(q)
      /\ info \in [Tasks -> SchedInfo]
  BY DEF SleepQueues
<1>2. p \in Priorities
  BY <1>1, MaxPriorityAssumption, SMT DEF Min2, SchedInfo, Priorities
<1>3. /\ ready_queues' = push_back(q, p, t)
      /\ sched_info' = [info EXCEPT ![t] = on_enqueue(info[t])]
      /\ ready_tasks' = ready_tasks + 1
  BY <1>1 DEF add_task
<1> HIDE DEF p
<1>4. /\ ready_queues' \in [Priorities -> Seq(Tasks)]
      /\ NoDuplicates(ready_queues')
      /\ QueuedTasks(ready_queues') = QueuedTasks(q) \cup {t}
  BY <1>1, <1>2, <1>3, PushBack
<1>5. /\ sched_info' \in [Tasks -> SchedInfo]
      /\ \A u \in Tasks : sched_info'[u].in_ready_queue
                             <=> u \in QueuedTasks(ready_queues') /\ task_status'[u] # "Blocked"
  <2>1. on_enqueue(info[t]) \in SchedInfo /\ on_enqueue(info[t]).in_ready_queue
    BY <1>1, InfoTypes
  <2>2. /\ task_status'[t] = "Ready" /\ sched_info'[t] = on_enqueue(info[t])
        /\ \A u \in Tasks : u # t => task_status'[u] = task_status[u] /\ sched_info'[u] = info[u]
    BY <1>1, <1>3
  <2>3. sched_info' \in [Tasks -> SchedInfo]
    BY <1>1, <1>3, <2>1
  <2> QED
    BY <1>4, <2>1, <2>2, <2>3 DEF SleepQueues
<1>6. ready_tasks' = Cardinality(QueuedTasks(ready_queues')) /\ ready_tasks' \in Nat
  <2>1. IsFiniteSet(QueuedTasks(q))
    BY <1>1, SlotsFinite, TasksAssumption
  <2>2. Cardinality(QueuedTasks(q) \cup {t}) = Cardinality(QueuedTasks(q)) + 1
    BY <2>1, FS_AddElement
  <2> QED
    BY <1>1, <1>3, <1>4, <2>2, SMT
<1> QED
  BY <1>4, <1>5, <1>6 DEF SleepQueues

(* The refresh before a dispatch or a preemption check. *)
LEMMA SleepRefresh ==
    ASSUME NEW info, NEW status, SleepQueues(ready_queues, ready_tasks, info, status)
    PROVE  /\ SleepQueues(RefreshedQueues(info), ready_tasks, RefreshedInfo(info), status)
           /\ QueuedTasks(RefreshedQueues(info)) = QueuedTasks(ready_queues)
<1> DEFINE new == RefreshedInfo(info)
           prio == [t \in Tasks |-> new[t].effective_priority]
<1>1. /\ info \in [Tasks -> SchedInfo]
      /\ ready_queues \in [Priorities -> Seq(Tasks)] /\ NoDuplicates(ready_queues)
  BY DEF SleepQueues
<1>2. /\ new \in [Tasks -> SchedInfo]
      /\ \A t \in Tasks : new[t].in_ready_queue = info[t].in_ready_queue
  BY <1>1, RefreshTypes DEF RefreshedInfo
<1>3. RefreshedQueues(info) = refresh_aging(ready_queues, prio)
  BY DEF RefreshedQueues
<1> HIDE DEF new
<1>4. prio \in [Tasks -> Priorities]
  BY <1>2 DEF SchedInfo
<1> HIDE DEF prio
<1>5. /\ RefreshedQueues(info) \in [Priorities -> Seq(Tasks)]
      /\ NoDuplicates(RefreshedQueues(info))
      /\ QueuedTasks(RefreshedQueues(info)) = QueuedTasks(ready_queues)
  <2>1. IsFiniteSet(Tasks)
    BY TasksAssumption
  <2>2. /\ refresh_aging(ready_queues, prio) \in [Priorities -> Seq(Tasks)]
        /\ NoDuplicates(refresh_aging(ready_queues, prio))
        /\ QueuedTasks(refresh_aging(ready_queues, prio)) = QueuedTasks(ready_queues)
    BY <1>1, <1>4, <2>1, RefreshKeepsTasks
  <2> QED
    BY <1>3, <2>2
<1> QED
  BY <1>2, <1>5 DEF SleepQueues, new

(* Accounts may change as long as the flags do not. *)
LEMMA SleepInfoChange ==
    ASSUME NEW q, NEW n, NEW info, NEW status, SleepQueues(q, n, info, status),
           NEW new \in [Tasks -> SchedInfo],
           \A t \in Tasks : new[t].in_ready_queue = info[t].in_ready_queue
    PROVE  SleepQueues(q, n, new, status)
BY DEF SleepQueues

(* suspend_current_and_run_next of a task that arms no timer. *)
LEMMA SleepSuspend ==
    ASSUME NEW q, NEW info, NEW t \in Tasks, NEW dom,
           NEW at \in [Tasks -> {"user", "syscall", "tail", "continued"}],
           SleepQueues(q, ready_tasks, info, task_status),
           SleepTasks(QueuedTasks(q), task_status, current, pc, dom, NoTask),
           current = t, suspend_current(q, info, t)
    PROVE  /\ SleepQueues(ready_queues', ready_tasks', sched_info', task_status')
           /\ SleepTasks(QueuedTasks(ready_queues'), task_status', current', at, dom, NoTask)
<1>1. NoTask \notin Tasks
  BY SchedulerAssumption
<1>2. /\ task_status \in [Tasks -> {"Unborn", "Ready", "Running", "Blocked", "Stopped", "Exited"}]
      /\ t \notin QueuedTasks(q) /\ t \notin dom /\ task_status[t] # "Blocked"
  BY <1>1 DEF SleepTasks
<1>3. /\ current' = NoTask /\ task_status' = [task_status EXCEPT ![t] = "Ready"]
      /\ add_task(q, info, t)
  BY DEF suspend_current
<1>4. /\ SleepQueues(ready_queues', ready_tasks', sched_info', task_status')
      /\ QueuedTasks(ready_queues') = QueuedTasks(q) \cup {t}
  BY <1>2, <1>3, SleepAdd
<1>5. /\ task_status'[t] = "Ready" /\ \A u \in Tasks : u # t => task_status'[u] = task_status[u]
      /\ task_status' \in [Tasks -> {"Unborn", "Ready", "Running", "Blocked", "Stopped", "Exited"}]
  BY <1>2, <1>3
<1>6. SleepTasks(QueuedTasks(q) \cup {t}, task_status', NoTask, at, dom, NoTask)
  BY <1>1, <1>2, <1>5, SMT DEF SleepTasks
<1> QED
  BY <1>3, <1>4, <1>6

(* The preemption check, whether or not it switches; the task that arms a  *)
(* timer is not checked.                                                   *)
LEMMA SleepCheck ==
    ASSUME NEW info, NEW t \in Tasks, NEW dom,
           NEW at \in [Tasks -> {"user", "syscall", "tail", "continued"}],
           SleepQueues(ready_queues, ready_tasks, info, task_status),
           SleepTasks(QueuedTasks(ready_queues), task_status, current, pc, dom, NoTask),
           current = t, CheckPreemption(info, t)
    PROVE  /\ SleepQueues(ready_queues', ready_tasks', sched_info', task_status')
           /\ SleepTasks(QueuedTasks(ready_queues'), task_status', current', at, dom, NoTask)
<1> DEFINE q == RefreshedQueues(info)
<1>1. /\ SleepQueues(q, ready_tasks, RefreshedInfo(info), task_status)
      /\ QueuedTasks(q) = QueuedTasks(ready_queues)
  BY SleepRefresh
<1>2. SleepTasks(QueuedTasks(q), task_status, current, pc, dom, NoTask)
  BY <1>1
<1>3. suspend_current(q, RefreshedInfo(info), t) \/ keep_current(q, RefreshedInfo(info))
  BY DEF CheckPreemption
<1> HIDE DEF q
<1>4. CASE suspend_current(q, RefreshedInfo(info), t)
  BY <1>1, <1>2, <1>4, SleepSuspend
<1>5. CASE keep_current(q, RefreshedInfo(info))
  <2>1. /\ ready_queues' = q /\ sched_info' = RefreshedInfo(info)
        /\ ready_tasks' = ready_tasks /\ task_status' = task_status /\ current' = current
    BY <1>5 DEF keep_current
  <2>2. SleepTasks(QueuedTasks(q), task_status, current, at, dom, NoTask)
    BY <1>2 DEF SleepTasks
  <2> QED
    BY <1>1, <2>1, <2>2
<1> QED
  BY <1>3, <1>4, <1>5

(* run_tasks takes a queued task; none arms a timer then. *)
LEMMA SleepFetch ==
    ASSUME SleepIInv, Fetch, UNCHANGED <<timers, arming>>
    PROVE  SleepIInv'
<1> DEFINE q == RefreshedQueues(sched_info)
           info == RefreshedInfo(sched_info)
           p == highest_ready_priority(q)
           t == Head(q[p])
<1>1. /\ current = NoTask /\ ready_tasks # 0
      /\ ready_queues' = pop_front(q, p)
      /\ ready_tasks' = ready_tasks - 1
      /\ sched_info' = [info EXCEPT ![t] = on_dispatch(info[t])]
      /\ task_status' = [task_status EXCEPT ![t] = "Running"]
      /\ current' = t /\ pc' = pc
  BY DEF Fetch
<1>2. /\ SleepQueues(q, ready_tasks, info, task_status)
      /\ QueuedTasks(q) = QueuedTasks(ready_queues)
  BY SleepRefresh DEF SleepIInv
<1> HIDE DEF q, info
<1>3. /\ q \in [Priorities -> Seq(Tasks)] /\ NoDuplicates(q) /\ info \in [Tasks -> SchedInfo]
      /\ ready_tasks = Cardinality(QueuedTasks(q)) /\ ready_tasks \in Nat
  BY <1>2 DEF SleepQueues
<1>4. IsFiniteSet(QueuedTasks(q)) /\ QueuedTasks(q) \subseteq Tasks
  BY <1>3, SlotsFinite, TasksAssumption
<1>5. QueuedTasks(q) # {}
  BY <1>1, <1>3, FS_EmptySet
<1>6. p \in Priorities /\ q[p] # << >>
  BY <1>3, <1>5, HighestReady
<1> HIDE DEF p
<1>7. /\ ready_queues' \in [Priorities -> Seq(Tasks)]
      /\ NoDuplicates(ready_queues')
      /\ t \in QueuedTasks(q)
      /\ QueuedTasks(ready_queues') = QueuedTasks(q) \ {t}
  BY <1>1, <1>3, <1>6, PopFront
<1> HIDE DEF t
<1>8. t \in Tasks /\ NoTask \notin Tasks
  BY <1>4, <1>7, SchedulerAssumption
<1>9. SleepTasks(QueuedTasks(q), task_status, NoTask, pc, DOMAIN timers, arming) /\ arming = NoTask
  BY <1>1, <1>2, <1>8 DEF SleepIInv, SleepTasks
<1>10. /\ task_status \in [Tasks -> {"Unborn", "Ready", "Running", "Blocked", "Stopped", "Exited"}]
       /\ task_status'[t] = "Running" /\ \A u \in Tasks : u # t => task_status'[u] = task_status[u]
       /\ task_status' \in [Tasks -> {"Unborn", "Ready", "Running", "Blocked", "Stopped", "Exited"}]
  <2>1. task_status \in [Tasks -> {"Unborn", "Ready", "Running", "Blocked", "Stopped", "Exited"}]
    BY <1>9 DEF SleepTasks
  <2> QED
    BY <1>1, <1>8, <2>1
<1>11. SleepQueues(ready_queues', ready_tasks', sched_info', task_status')
  <2>1. on_dispatch(info[t]) \in SchedInfo /\ ~on_dispatch(info[t]).in_ready_queue
    BY <1>3, <1>8, InfoTypes
  <2>2. /\ sched_info' \in [Tasks -> SchedInfo] /\ ~sched_info'[t].in_ready_queue
        /\ \A u \in Tasks : u # t => sched_info'[u] = info[u]
    BY <1>1, <1>3, <1>8, <2>1
  <2>3. \A u \in Tasks : sched_info'[u].in_ready_queue
                            <=> u \in QueuedTasks(ready_queues') /\ task_status'[u] # "Blocked"
    BY <1>2, <1>7, <1>10, <2>2 DEF SleepQueues
  <2>4. Cardinality(QueuedTasks(q) \ {t}) = Cardinality(QueuedTasks(q)) - 1
    BY <1>4, <1>7, FS_RemoveElement
  <2>5. ready_tasks' = Cardinality(QueuedTasks(ready_queues')) /\ ready_tasks' \in Nat
    <3>1. ready_tasks - 1 \in Nat
      BY <1>1, <1>3, SMT
    <3> QED
      BY <1>1, <1>3, <1>7, <2>4, <3>1
  <2> QED
    BY <1>7, <2>2, <2>3, <2>5 DEF SleepQueues
<1>12. SleepTasks(QueuedTasks(q) \ {t}, task_status', t, pc, DOMAIN timers, NoTask)
  BY <1>7, <1>8, <1>9, <1>10 DEF SleepTasks
<1> QED
  BY <1>1, <1>7, <1>9, <1>11, <1>12 DEF SleepIInv

(* check_timer queues a task whose timer has expired: one that is blocked, *)
(* or the one that has not blocked yet.                                    *)
LEMMA SleepCheckTimer ==
    ASSUME SleepIInv, NEW t \in Tasks, CheckTimer(t)
    PROVE  SleepIInv'
<1> DEFINE Q == QueuedTasks(ready_queues)
           dom == DOMAIN timers
<1>1. /\ t \in dom /\ task_status' = [task_status EXCEPT ![t] = "Ready"]
      /\ add_task(ready_queues, sched_info, t)
      /\ DOMAIN timers' = dom \ {t}
      /\ current' = current /\ pc' = pc /\ arming' = arming
  BY DEF CheckTimer, wakeup_task, Expired
<1>2. SleepQueues(ready_queues, ready_tasks, sched_info, task_status)
  BY DEF SleepIInv
<1>3. SleepTasks(Q, task_status, current, pc, dom, arming)
  BY DEF SleepIInv
<1> HIDE DEF Q, dom
<1>4. /\ task_status \in [Tasks -> {"Unborn", "Ready", "Running", "Blocked", "Stopped", "Exited"}]
      /\ t \notin Q
  BY <1>1, <1>3 DEF SleepTasks
<1>5. /\ SleepQueues(ready_queues', ready_tasks', sched_info', task_status')
      /\ QueuedTasks(ready_queues') = Q \cup {t}
  BY <1>1, <1>2, <1>4, SleepAdd DEF Q
<1>6. /\ task_status'[t] = "Ready" /\ \A u \in Tasks : u # t => task_status'[u] = task_status[u]
      /\ task_status' \in [Tasks -> {"Unborn", "Ready", "Running", "Blocked", "Stopped", "Exited"}]
  BY <1>1, <1>4
<1>7. SleepTasks(Q \cup {t}, task_status', current, pc, dom \ {t}, arming)
  BY <1>1, <1>3, <1>6, SMT DEF SleepTasks
<1> QED
  BY <1>1, <1>5, <1>7 DEF SleepIInv

(* The rest of the timer interrupt. *)
LEMMA SleepTimerTick ==
    ASSUME SleepIInv, TimerTick
    PROVE  SleepIInv'
<1>1. timers' = timers /\ arming' = arming
  BY DEF TimerTick
<1>2. /\ SleepQueues(ready_queues, ready_tasks, sched_info, task_status)
      /\ SleepTasks(QueuedTasks(ready_queues), task_status, current, pc, DOMAIN timers, arming)
      /\ sched_info \in [Tasks -> SchedInfo]
  BY DEF SleepIInv, SleepQueues
<1>3. CASE TimerFromIdle
  <2>1. /\ ready_queues' = ready_queues /\ ready_tasks' = ready_tasks /\ sched_info' = sched_info
        /\ task_status' = task_status /\ current' = current /\ pc' = pc
    BY <1>3 DEF TimerFromIdle
  <2> QED
    BY <1>1, <1>2, <2>1 DEF SleepIInv
<1>4. ASSUME NEW t \in Tasks, NEW info, info = [sched_info EXCEPT ![t] = on_timer_tick(@)]
      PROVE  SleepQueues(ready_queues, ready_tasks, info, task_status)
  <2>1. /\ on_timer_tick(sched_info[t]) \in SchedInfo
        /\ on_timer_tick(sched_info[t]).in_ready_queue = sched_info[t].in_ready_queue
    BY <1>2, InfoTypes
  <2>2. /\ info \in [Tasks -> SchedInfo] /\ info[t] = on_timer_tick(sched_info[t])
        /\ \A u \in Tasks : u # t => info[u] = sched_info[u]
    BY <1>2, <1>4, <2>1
  <2>3. \A u \in Tasks : info[u].in_ready_queue = sched_info[u].in_ready_queue
    BY <2>1, <2>2
  <2> QED
    BY <1>2, <2>2, <2>3, SleepInfoChange
<1>5. ASSUME NEW t \in Tasks, TimerFromUser(t) PROVE SleepIInv'
  <2>1. PICK info : info = [sched_info EXCEPT ![t] = on_timer_tick(@)]
    OBVIOUS
  <2>2. /\ current = t /\ pc[t] = "user" /\ CheckPreemption(info, t)
        /\ pc' = [pc EXCEPT ![t] = "tail"]
    BY <1>5, <2>1 DEF TimerFromUser
  <2>3. arming = NoTask /\ pc' \in [Tasks -> {"user", "syscall", "tail", "continued"}]
    <3>1. "user" # "syscall"
      OBVIOUS
    <3> QED
      BY <1>2, <2>2, <3>1 DEF SleepTasks
  <2>4. SleepQueues(ready_queues, ready_tasks, info, task_status)
    BY <1>4, <2>1
  <2>5. SleepTasks(QueuedTasks(ready_queues), task_status, current, pc, DOMAIN timers, NoTask)
    BY <1>2, <2>3
  <2>6. /\ SleepQueues(ready_queues', ready_tasks', sched_info', task_status')
        /\ SleepTasks(QueuedTasks(ready_queues'), task_status', current', pc', DOMAIN timers, NoTask)
    BY <2>2, <2>3, <2>4, <2>5, SleepCheck
  <2> QED
    BY <1>1, <2>3, <2>6 DEF SleepIInv
<1>6. ASSUME NEW t \in Tasks, TimerFromKernel(t) PROVE SleepIInv'
  <2>1. PICK info : info = [sched_info EXCEPT ![t] = on_timer_tick(@)]
    OBVIOUS
  <2>2. keep_current(RefreshedQueues(info), RefreshedInfo(info)) /\ pc' = pc
    BY <1>6, <2>1 DEF TimerFromKernel
  <2>3. /\ SleepQueues(RefreshedQueues(info), ready_tasks, RefreshedInfo(info), task_status)
        /\ QueuedTasks(RefreshedQueues(info)) = QueuedTasks(ready_queues)
    BY <1>4, <2>1, SleepRefresh
  <2>4. /\ ready_queues' = RefreshedQueues(info) /\ sched_info' = RefreshedInfo(info)
        /\ ready_tasks' = ready_tasks /\ task_status' = task_status /\ current' = current
    BY <2>2 DEF keep_current
  <2> QED
    BY <1>1, <1>2, <2>2, <2>3, <2>4 DEF SleepIInv
<1> QED
  BY <1>3, <1>5, <1>6 DEF TimerTick, TimerInterrupt

(* The first half of sys_sleep puts the running task into the heap, the    *)
(* second blocks it, queued or not.                                        *)
LEMMA SleepCall ==
    ASSUME SleepIInv, NEW t \in Tasks, SleepBlock(t) \/ \E d \in SleepTicks : AddTimer(t, d)
    PROVE  SleepIInv'
<1> DEFINE Q == QueuedTasks(ready_queues)
           dom == DOMAIN timers
<1>1. /\ SleepQueues(ready_queues, ready_tasks, sched_info, task_status)
      /\ SleepTasks(Q, task_status, current, pc, dom, arming)
      /\ sched_info \in [Tasks -> SchedInfo]
  BY DEF SleepIInv, SleepQueues
<1>2. NoTask \notin Tasks
  BY SchedulerAssumption
<1>3. CASE SleepBlock(t)
  <2>1. /\ arming = t /\ current' = NoTask /\ arming' = NoTask /\ timers' = timers
        /\ task_status' = [task_status EXCEPT ![t] = "Blocked"]
        /\ sched_info' = [sched_info EXCEPT ![t] = on_block(@)]
        /\ ready_queues' = ready_queues /\ ready_tasks' = ready_tasks /\ pc' = pc
    BY <1>3 DEF SleepBlock, Block
  <2>2. on_block(sched_info[t]) \in SchedInfo /\ ~on_block(sched_info[t]).in_ready_queue
    BY <1>1, InfoTypes
  <2>3. /\ task_status'[t] = "Blocked" /\ \A u \in Tasks : u # t => task_status'[u] = task_status[u]
        /\ task_status' \in [Tasks -> {"Unborn", "Ready", "Running", "Blocked", "Stopped", "Exited"}]
    <3>1. task_status \in [Tasks -> {"Unborn", "Ready", "Running", "Blocked", "Stopped", "Exited"}]
      BY <1>1 DEF SleepTasks
    <3> QED
      BY <2>1, <3>1
  <2>4. /\ sched_info' \in [Tasks -> SchedInfo] /\ ~sched_info'[t].in_ready_queue
        /\ \A u \in Tasks : u # t => sched_info'[u] = sched_info[u]
    BY <1>1, <2>1, <2>2
  <2>5. SleepQueues(ready_queues', ready_tasks', sched_info', task_status')
    BY <1>1, <2>1, <2>3, <2>4 DEF SleepQueues
  <2> HIDE DEF Q, dom
  <2>6. SleepTasks(Q, task_status', NoTask, pc, dom, NoTask)
    BY <1>1, <1>2, <2>1, <2>3, SMT DEF SleepTasks
  <2> QED
    BY <2>1, <2>5, <2>6 DEF SleepIInv, Q, dom
<1>4. ASSUME NEW d \in SleepTicks, AddTimer(t, d) PROVE SleepIInv'
  <2>1. /\ current = t /\ pc[t] = "syscall" /\ arming = NoTask /\ arming' = t
        /\ DOMAIN timers' = dom \cup {t}
        /\ ready_queues' = ready_queues /\ ready_tasks' = ready_tasks /\ sched_info' = sched_info
        /\ task_status' = task_status /\ current' = current /\ pc' = pc
    BY <1>4 DEF AddTimer, vars
  <2> HIDE DEF Q, dom
  <2>2. SleepTasks(Q, task_status, current, pc, dom \cup {t}, t)
    BY <1>1, <1>2, <2>1, SMT DEF SleepTasks
  <2> QED
    BY <1>1, <2>1, <2>2 DEF SleepIInv, Q, dom
<1> QED
  BY <1>3, <1>4

(* A step that changes neither the queues nor what the tasks are, but for  *)
(* where the current one is, which arms no timer.                          *)
LEMMA SleepSame ==
    ASSUME SleepIInv, UNCHANGED <<ready_queues, ready_tasks, task_status, current>>,
           DOMAIN timers' = DOMAIN timers, arming' = arming,
           sched_info' \in [Tasks -> SchedInfo],
           \A t \in Tasks : sched_info'[t].in_ready_queue = sched_info[t].in_ready_queue,
           \/ pc' = pc
           \/ arming = NoTask /\ pc' \in [Tasks -> {"user", "syscall", "tail", "continued"}]
    PROVE  SleepIInv'
<1>1. SleepQueues(ready_queues, ready_tasks, sched_info', task_status)
  BY SleepInfoChange DEF SleepIInv
<1>2. SleepTasks(QueuedTasks(ready_queues), task_status, current, pc', DOMAIN timers, arming)
  BY DEF SleepIInv, SleepTasks
<1> QED
  BY <1>1, <1>2 DEF SleepIInv

(* What a task that arms no timer does. *)
LEMMA SleepTaskStep ==
    ASSUME SleepIInv, arming = NoTask, UNCHANGED <<timers, arming>>, NEW t \in Tasks,
           \/ Syscall(t) \/ Yield(t) \/ SyscallReturn(t) \/ TrapReturn(t)
           \/ \E u \in Tasks : CreateTask(t, u)
           \/ \E pid \in Processes, p \in SettablePriorities : SetPriority(t, pid, p)
    PROVE  SleepIInv'
<1>1. /\ SleepQueues(ready_queues, ready_tasks, sched_info, task_status)
      /\ SleepTasks(QueuedTasks(ready_queues), task_status, current, pc, DOMAIN timers, NoTask)
      /\ sched_info \in [Tasks -> SchedInfo]
      /\ pc \in [Tasks -> {"user", "syscall", "tail", "continued"}]
      /\ task_status \in [Tasks -> {"Unborn", "Ready", "Running", "Blocked", "Stopped", "Exited"}]
  BY DEF SleepIInv, SleepQueues, SleepTasks
<1>2. NoTask \notin Tasks
  BY SchedulerAssumption
<1>3. CASE Syscall(t) \/ TrapReturn(t)
  <2>1. /\ UNCHANGED <<ready_queues, ready_tasks, sched_info, task_status, current>>
        /\ pc' \in [Tasks -> {"user", "syscall", "tail", "continued"}]
    BY <1>1, <1>3 DEF Syscall, TrapReturn
  <2> QED
    BY <1>1, <2>1, SleepSame
<1>4. CASE Yield(t)
  <2>1. current = t /\ suspend_current(ready_queues, sched_info, t) /\ pc' = pc
    BY <1>4 DEF Yield
  <2>2. /\ SleepQueues(ready_queues', ready_tasks', sched_info', task_status')
        /\ SleepTasks(QueuedTasks(ready_queues'), task_status', current', pc, DOMAIN timers, NoTask)
    BY <1>1, <2>1, SleepSuspend
  <2> QED
    BY <2>1, <2>2 DEF SleepIInv
<1>5. CASE SyscallReturn(t)
  <2>1. current = t /\ CheckPreemption(sched_info, t) /\ pc' = [pc EXCEPT ![t] = "tail"]
    BY <1>5 DEF SyscallReturn
  <2>2. pc' \in [Tasks -> {"user", "syscall", "tail", "continued"}]
    BY <1>1, <2>1
  <2>3. /\ SleepQueues(ready_queues', ready_tasks', sched_info', task_status')
        /\ SleepTasks(QueuedTasks(ready_queues'), task_status', current', pc', DOMAIN timers, NoTask)
    BY <1>1, <2>1, <2>2, SleepCheck
  <2> QED
    BY <2>3 DEF SleepIInv
<1>6. ASSUME NEW u \in Tasks, CreateTask(t, u) PROVE SleepIInv'
  <2> DEFINE Q == QueuedTasks(ready_queues)
             dom == DOMAIN timers
             new == NewSchedInfo(sched_info[t].base_priority)
             info == [sched_info EXCEPT ![u] = new]
  <2>1. /\ current = t /\ task_status[u] = "Unborn"
        /\ task_status' = [task_status EXCEPT ![u] = "Ready"]
        /\ add_task(ready_queues, info, u) /\ current' = current /\ pc' = pc
    BY <1>6 DEF CreateTask
  <2>2. new \in SchedInfo /\ ~new.in_ready_queue
    <3>1. sched_info[t].base_priority \in Priorities
      BY <1>1 DEF SchedInfo
    <3> QED
      BY <3>1, NewInfoType
  <2> HIDE DEF new
  <2>3. info \in [Tasks -> SchedInfo] /\ info[u] = new /\ \A v \in Tasks : v # u => info[v] = sched_info[v]
    BY <1>1, <2>2
  <2> HIDE DEF info
  <2>4. u \notin Q /\ u \notin dom /\ u # current
    <3>1. "Unborn" \notin {"Ready", "Running", "Blocked"}
      OBVIOUS
    <3> QED
      BY <1>1, <1>2, <2>1, <3>1 DEF SleepTasks
  <2>5. SleepQueues(ready_queues, ready_tasks, info, task_status)
    BY <1>1, <2>2, <2>3, <2>4 DEF SleepQueues
  <2>6. /\ SleepQueues(ready_queues', ready_tasks', sched_info', task_status')
        /\ QueuedTasks(ready_queues') = Q \cup {u}
    BY <1>1, <2>1, <2>4, <2>5, SleepAdd
  <2>7. /\ task_status'[u] = "Ready" /\ \A v \in Tasks : v # u => task_status'[v] = task_status[v]
        /\ task_status' \in [Tasks -> {"Unborn", "Ready", "Running", "Blocked", "Stopped", "Exited"}]
    BY <1>1, <2>1
  <2> HIDE DEF Q, dom
  <2>8. SleepTasks(Q \cup {u}, task_status', current, pc, dom, NoTask)
    BY <1>1, <1>2, <2>4, <2>7, SMT DEF SleepTasks, Q, dom
  <2> QED
    BY <2>1, <2>6, <2>8 DEF SleepIInv, dom
<1>7. ASSUME NEW pid \in Processes, NEW p \in SettablePriorities, SetPriority(t, pid, p)
      PROVE  SleepIInv'
  <2>1. /\ UNCHANGED <<ready_queues, ready_tasks, task_status, current, pc>>
        /\ sched_info' = [u \in Tasks |->
              IF ProcessOf[u] = pid /\ task_status[u] \notin {"Unborn", "Exited"}
              THEN set_base_priority(sched_info[u], p) ELSE sched_info[u]]
    BY <1>7 DEF SetPriority
  <2>2. p \in Priorities
    BY SchedulerAssumption
  <2>3. \A u \in Tasks : /\ set_base_priority(sched_info[u], p) \in SchedInfo
                          /\ set_base_priority(sched_info[u], p).in_ready_queue = sched_info[u].in_ready_queue
    BY <1>1, <2>2, RefreshTypes
  <2>4. /\ sched_info' \in [Tasks -> SchedInfo]
        /\ \A u \in Tasks : sched_info'[u].in_ready_queue = sched_info[u].in_ready_queue
    BY <1>1, <2>1, <2>3
  <2> QED
    BY <2>1, <2>4, SleepSame
<1> QED
  BY <1>3, <1>4, <1>5, <1>6, <1>7

(* initproc is queued, and nobody sleeps. *)
LEMMA SleepInitKeeps == SleepInit => SleepIInv
<1> SUFFICES ASSUME SleepInit PROVE SleepIInv
  OBVIOUS
<1>1. IInv /\ arming = NoTask /\ DOMAIN timers = {} /\ NoTask \notin Tasks
  BY InitIInv, SchedulerAssumption DEF SleepInit
<1>2. /\ QueueInv(ready_queues, ready_tasks, sched_info)
      /\ StatusInv(QueuedTasks(ready_queues), task_status, current)
      /\ pc \in [Tasks -> {"user", "syscall", "tail", "continued"}]
  BY <1>1 DEF IInv, HartInv
<1>3. current = NoTask /\ \A t \in Tasks : task_status[t] \in {"Ready", "Unborn"}
  BY DEF SleepInit, Init
<1>4. SleepQueues(ready_queues, ready_tasks, sched_info, task_status)
  <2>1. \A t \in Tasks : task_status[t] # "Blocked"
    BY <1>3
  <2> QED
    BY <1>2, <2>1 DEF QueueInv, SleepQueues
<1>5. QueuedTasks(ready_queues) \subseteq Tasks
  BY <1>2, SlotsFinite, TasksAssumption DEF QueueInv
<1>6. SleepTasks(QueuedTasks(ready_queues), task_status, NoTask, pc, {}, NoTask)
  <2>1. "Blocked" \notin {"Ready", "Unborn"}
    OBVIOUS
  <2> QED
    BY <1>1, <1>2, <1>3, <1>5, <2>1 DEF StatusInv, SleepTasks
<1> QED
  BY <1>1, <1>3, <1>4, <1>6 DEF SleepIInv

(* Every step of the sleeping tasks preserves the invariant. *)
LEMMA SleepNextKeeps == SleepIInv /\ [SleepNext]_svars => SleepIInv'
<1> SUFFICES ASSUME SleepIInv, [SleepNext]_svars PROVE SleepIInv'
  OBVIOUS
<1>0. sched_info \in [Tasks -> SchedInfo]
  BY DEF SleepIInv, SleepQueues
<1>1. CASE SleepTick
  <2>1. /\ UNCHANGED <<ready_queues, ready_tasks, task_status, current>> /\ pc' = pc
        /\ DOMAIN timers' = DOMAIN timers /\ arming' = arming
        /\ sched_info' = [t \in Tasks |->
              IF sched_info[t].in_ready_queue
              THEN [sched_info[t] EXCEPT !.waited = Min2(@ + 1, WaitCap)] ELSE sched_info[t]]
    BY <1>1 DEF SleepTick, Tick
  <2>2. ASSUME NEW s \in SchedInfo
        PROVE  /\ [s EXCEPT !.waited = Min2(@ + 1, WaitCap)] \in SchedInfo
               /\ [s EXCEPT !.waited = Min2(@ + 1, WaitCap)].in_ready_queue = s.in_ready_queue
    <3>1. Min2(s.waited + 1, WaitCap) \in 0 .. WaitCap
      BY WaitCapNat, SMT DEF SchedInfo, Min2
    <3> QED
      BY <3>1 DEF SchedInfo
  <2>3. /\ sched_info' \in [Tasks -> SchedInfo]
        /\ \A t \in Tasks : sched_info'[t].in_ready_queue = sched_info[t].in_ready_queue
    BY <1>0, <2>1, <2>2
  <2> QED
    BY <2>1, <2>3, SleepSame
<1>2. CASE OtherStep
  <2>1. timers' = timers /\ arming' = arming
    BY <1>2 DEF OtherStep
  <2>2. CASE Fetch
    BY <2>1, <2>2, SleepFetch
  <2>3. CASE ~Fetch
    <3>1. arming = NoTask
      BY <1>2, <2>3 DEF OtherStep
    <3>2. PICK t \in Tasks :
             \/ Syscall(t) \/ Yield(t) \/ SyscallReturn(t) \/ TrapReturn(t)
             \/ \E u \in Tasks : CreateTask(t, u)
             \/ \E pid \in Processes, p \in SettablePriorities : SetPriority(t, pid, p)
      BY <1>2, <2>3 DEF OtherStep
    <3> QED
      BY <2>1, <3>1, <3>2, SleepTaskStep
  <2> QED
    BY <2>2, <2>3
<1>3. CASE UNCHANGED svars
  BY <1>3 DEF svars, vars, SleepIInv
<1>4. ASSUME NEW t \in Tasks, CheckTimer(t) PROVE SleepIInv'
  BY <1>4, SleepCheckTimer
<1>5. ASSUME NEW t \in Tasks, SleepBlock(t) \/ \E d \in SleepTicks : AddTimer(t, d) PROVE SleepIInv'
  BY <1>5, SleepCall
<1> QED
  BY <1>1, <1>2, <1>3, <1>4, <1>5, SleepTimerTick DEF SleepNext

(* A sleeping task is never forgotten, even when the timer interrupt comes *)
(* between add_timer and block_current_task of sys_sleep, and never queued *)
(* twice or queued beside a timer that would queue it again, for any       *)
(* tasks, sleeps, slices and priorities.                                   *)
THEOREM SleepersNeverLost == SleepSpec => [](NoLostSleeper /\ SleeperQueuedOnce)
<1>1. SleepIInv => NoLostSleeper /\ SleeperQueuedOnce
  BY DEF SleepIInv, SleepQueues, SleepTasks, NoLostSleeper, SleeperQueuedOnce, NoDuplicates
<1> QED
  BY <1>1, SleepInitKeeps, SleepNextKeeps, PTL DEF SleepSpec
=============================================================================
