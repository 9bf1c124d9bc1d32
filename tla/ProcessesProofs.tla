-------------------------- MODULE ProcessesProofs --------------------------
(***************************************************************************)
(* Identifiers of threads and of processes are exact, for any number of    *)
(* control blocks and any bound on the identifiers: the thread table of a  *)
(* process (Threads) and the tree of processes (ProcessTree), both on the  *)
(* lemmas about RecycleAllocator that come first.  Last, the marks of      *)
(* stopped processes (JobControl) agree with their threads.                *)
(***************************************************************************)
EXTENDS Threads, ProcessTree, Integers, FiniteSetTheorems, TLAPS

(* Zenon proves what needs no arithmetic; the other leaves cite SMT. *)
USE ZenonT(30)

Distinct(s) == \A i, j \in DOMAIN s : s[i] = s[j] => i = j

(* An allocator that started at lo: the identifiers given back are among   *)
(* those given out, each once.                                             *)
AllocatorOK(a, lo) ==
    /\ a \in [current : Nat, recycled : Seq(Nat)] /\ lo <= a.current
    /\ Distinct(a.recycled) /\ Recycled(a) \subseteq lo .. a.current - 1

(* A sequence is one over any set that holds its elements. *)
LEMMA SeqInto ==
    ASSUME NEW S, NEW T, NEW s \in Seq(S), \A i \in DOMAIN s : s[i] \in T
    PROVE  s \in Seq(T)
<1>1. Len(s) \in Nat /\ DOMAIN s = 1 .. Len(s) /\ s = [i \in 1 .. Len(s) |-> s[i]]
  BY SMT
<1>2. s \in [1 .. Len(s) -> T]
  BY <1>1
<1> QED
  BY <1>1, <1>2, SMT

(* The elements of a sequence. *)
LEMMA SeqElements ==
    ASSUME NEW S, NEW s \in Seq(S)
    PROVE  Len(s) \in Nat /\ DOMAIN s = 1 .. Len(s) /\ \A i \in DOMAIN s : s[i] \in S
BY SMT

(* The type of the stack of an allocator, by its elements. *)
LEMMA RecycledType ==
    ASSUME NEW S
    PROVE  /\ \A a \in [current : Nat, recycled : Seq(S)] : Recycled(a) \subseteq S
           /\ \A a \in [current : Nat, recycled : Seq(Nat)] :
                 Recycled(a) \subseteq S => a \in [current : Nat, recycled : Seq(S)]
<1>1. ASSUME NEW a \in [current : Nat, recycled : Seq(S)] PROVE Recycled(a) \subseteq S
  <2>1. a.recycled \in Seq(S)
    OBVIOUS
  <2>2. \A i \in DOMAIN a.recycled : a.recycled[i] \in S
    BY <2>1, SeqElements
  <2> QED
    BY <2>2 DEF Recycled
<1>2. ASSUME NEW a \in [current : Nat, recycled : Seq(Nat)], Recycled(a) \subseteq S
      PROVE  a \in [current : Nat, recycled : Seq(S)]
  <2>1. a.recycled \in Seq(Nat) /\ a = [current |-> a.current, recycled |-> a.recycled]
        /\ a.current \in Nat
    OBVIOUS
  <2>2. \A i \in DOMAIN a.recycled : a.recycled[i] \in S
    BY <1>2 DEF Recycled
  <2>3. a.recycled \in Seq(S)
    BY <2>1, <2>2, SeqInto
  <2> QED
    BY <2>1, <2>3
<1> QED
  BY <1>1, <1>2

(* A stack without its top. *)
LEMMA FrontOf ==
    ASSUME NEW S, NEW s \in Seq(S), s # << >>
    PROVE  /\ SubSeq(s, 1, Len(s) - 1) \in Seq(S)
           /\ Len(s) \in Nat \ {0} /\ Len(s) \in DOMAIN s /\ s[Len(s)] \in S
           /\ DOMAIN SubSeq(s, 1, Len(s) - 1) = 1 .. Len(s) - 1
           /\ \A i \in 1 .. Len(s) - 1 : i \in DOMAIN s /\ SubSeq(s, 1, Len(s) - 1)[i] = s[i]
BY SMT

(* RecycleAllocator::alloc returns an identifier that is not in use. *)
LEMMA AllocGives ==
    ASSUME NEW lo \in Nat, NEW a, AllocatorOK(a, lo)
    PROVE  /\ AllocatorOK(allocated(a), lo)
           /\ alloc(a) \in Nat /\ alloc(a) >= lo /\ alloc(a) \notin InUse(a, lo)
           /\ InUse(allocated(a), lo) = InUse(a, lo) \cup {alloc(a)}
           /\ Recycled(allocated(a)) \subseteq Recycled(a)
<1> DEFINE r == a.recycled
           b == allocated(a)
<1>1. /\ a \in [current : Nat, recycled : Seq(Nat)] /\ r \in Seq(Nat) /\ a.current \in Nat
      /\ lo <= a.current /\ Distinct(r) /\ \A x \in Recycled(a) : x \in lo .. a.current - 1
  BY DEF AllocatorOK
<1>2. CASE r = << >>
  <2>1. /\ b = [current |-> a.current + 1, recycled |-> << >>] /\ alloc(a) = a.current
        /\ b \in [current : Nat, recycled : Seq(Nat)]
    BY <1>1, <1>2, SMT DEF allocated, alloc
  <2>2. Recycled(a) = {} /\ Recycled(b) = {} /\ Distinct(b.recycled)
    BY <1>2, <2>1, SMT DEF Recycled, Distinct
  <2>3. InUse(b, lo) = InUse(a, lo) \cup {alloc(a)}
    BY <1>1, <2>1, <2>2, SMT DEF InUse
  <2> QED
    BY <1>1, <2>1, <2>2, <2>3, SMT DEF AllocatorOK, InUse
<1>3. CASE r # << >>
  <2> DEFINE n == Len(r)
             f == SubSeq(r, 1, n - 1)
  <2>1. /\ f \in Seq(Nat) /\ n \in Nat \ {0} /\ n \in DOMAIN r /\ r[n] \in Nat
        /\ DOMAIN f = 1 .. n - 1 /\ \A i \in 1 .. n - 1 : i \in DOMAIN r /\ f[i] = r[i]
    BY <1>1, <1>3, FrontOf
  <2>2. b = [current |-> a.current, recycled |-> f] /\ alloc(a) = r[n]
    BY <1>1, <1>3 DEF allocated, alloc
  <2>3. DOMAIN r = 1 .. n
    BY <1>1, SMT
  <2> HIDE DEF f, n
  <2>4. b \in [current : Nat, recycled : Seq(Nat)] /\ b.current = a.current /\ b.recycled = f
    BY <1>1, <2>1, <2>2, SMT
  <2>5. \A i \in 1 .. n : i # n => i \in 1 .. n - 1
    BY <2>1, SMT
  <2>6. \A i \in 1 .. n - 1 : i # n
    BY <2>1, SMT
  <2>7. \A x : x \in Recycled(b) <=> x \in Recycled(a) /\ x # r[n]
    <3>1. \A x : x \in Recycled(b) <=> \E i \in 1 .. n - 1 : r[i] = x
      BY <2>1, <2>4 DEF Recycled
    <3>2. \A x : x \in Recycled(a) <=> \E i \in 1 .. n : r[i] = x
      BY <2>3 DEF Recycled
    <3>3. \A i, j \in 1 .. n : r[i] = r[j] => i = j
      BY <1>1, <2>3 DEF Distinct
    <3> QED
      BY <2>1, <2>3, <2>5, <2>6, <3>1, <3>2, <3>3
  <2>8. Distinct(b.recycled)
    BY <1>1, <2>1, <2>4 DEF Distinct
  <2>9. r[n] \in Recycled(a)
    BY <2>1 DEF Recycled
  <2>10. InUse(b, lo) = InUse(a, lo) \cup {alloc(a)}
    BY <1>1, <2>2, <2>4, <2>7, <2>9 DEF InUse
  <2> QED
    BY <1>1, <2>1, <2>2, <2>4, <2>7, <2>8, <2>9, <2>10, SMT DEF AllocatorOK, InUse
<1> QED
  BY <1>2, <1>3

(* A stack with one more element. *)
LEMMA PushOf ==
    ASSUME NEW S, NEW s \in Seq(S), NEW x \in S
    PROVE  /\ Append(s, x) \in Seq(S) /\ Len(s) \in Nat /\ DOMAIN s = 1 .. Len(s)
           /\ DOMAIN Append(s, x) = 1 .. Len(s) + 1 /\ Append(s, x)[Len(s) + 1] = x
           /\ \A i \in 1 .. Len(s) : Append(s, x)[i] = s[i]
BY SMT

(* RecycleAllocator::dealloc of an identifier in use passes its assertions *)
(* and takes it back.                                                      *)
LEMMA DeallocTakes ==
    ASSUME NEW lo \in Nat, NEW a, AllocatorOK(a, lo), NEW id \in InUse(a, lo)
    PROVE  /\ CanDealloc(a, id)
           /\ AllocatorOK(dealloc(a, id), lo)
           /\ InUse(dealloc(a, id), lo) = InUse(a, lo) \ {id}
           /\ Recycled(dealloc(a, id)) = Recycled(a) \cup {id}
<1> DEFINE r == a.recycled
           n == Len(r)
           b == dealloc(a, id)
<1>1. /\ a \in [current : Nat, recycled : Seq(Nat)] /\ r \in Seq(Nat) /\ a.current \in Nat
      /\ lo <= a.current /\ Distinct(r) /\ \A x \in Recycled(a) : x \in lo .. a.current - 1
  BY DEF AllocatorOK
<1>2. id \in Nat /\ id >= lo /\ id < a.current /\ id \notin Recycled(a)
  BY <1>1, SMT DEF InUse
<1>3. /\ Append(r, id) \in Seq(Nat) /\ n \in Nat /\ DOMAIN r = 1 .. n
      /\ DOMAIN Append(r, id) = 1 .. n + 1 /\ Append(r, id)[n + 1] = id
      /\ \A i \in 1 .. n : Append(r, id)[i] = r[i]
  BY <1>1, <1>2, PushOf, SMT
<1>4. b = [current |-> a.current, recycled |-> Append(r, id)]
  <2> DEFINE q == Append(r, id)
  <2>1. b = [a EXCEPT !.recycled = q]
    BY DEF dealloc
  <2> HIDE DEF q
  <2>2. b = [current |-> a.current, recycled |-> q]
    BY <1>1, <2>1
  <2> QED
    BY <2>2 DEF q
<1>5. b \in [current : Nat, recycled : Seq(Nat)] /\ b.current = a.current /\ b.recycled = Append(r, id)
  BY <1>1, <1>3, <1>4, SMT
<1> HIDE DEF n, b
<1>6. \A i : i \in 1 .. n + 1 <=> i \in 1 .. n \/ i = n + 1
  BY <1>3, SMT
<1>7. Recycled(b) = Recycled(a) \cup {id}
  BY <1>3, <1>5, <1>6 DEF Recycled
<1>8. \A i \in 1 .. n : r[i] # id
  BY <1>2, <1>3 DEF Recycled
<1>9. Distinct(b.recycled)
  BY <1>1, <1>3, <1>5, <1>6, <1>8, SMTT(30) DEF Distinct
<1>10. InUse(b, lo) = InUse(a, lo) \ {id}
  BY <1>5, <1>7 DEF InUse
<1> QED
  BY <1>1, <1>2, <1>5, <1>7, <1>9, <1>10, SMT DEF AllocatorOK, CanDealloc, b
-----------------------------------------------------------------------------
(* Threads.  What makes TidsExact inductive: only a thread that was created *)
(* and has not exited has user resources, and the allocator is in order    *)
(* as long as the process lives; the exit of the main thread gives all     *)
(* identifiers back, and none is taken any more.                           *)
ThreadsInv ==
    /\ TidsExact
    /\ \A t \in Living : status[t] \in {"Ready", "Blocked"}
    /\ ~zombie => AllocatorOK(task_res_allocator, 0)

(* Who holds the slot of tid x in the slots q. *)
Holder(q, x) == IF Slot(x) <= Len(q) THEN q[Slot(x)] ELSE NoTcb

(* A new thread in its slot: the vector grows, the others stay. *)
LEMMA PlacedSlots ==
    ASSUME NEW T, NoTcb \in T, tasks \in Seq(T), NEW tid \in Nat, NEW new \in T
    PROVE  /\ Placed(tid, new) \in Seq(T)
           /\ Holder(Placed(tid, new), tid) = new
           /\ \A x \in Nat : x # tid => Holder(Placed(tid, new), x) = Holder(tasks, x)
<1> DEFINE m == IF Len(tasks) < Slot(tid) THEN Slot(tid) ELSE Len(tasks)
           q == Placed(tid, new)
<1>1. Len(tasks) \in Nat /\ DOMAIN tasks = 1 .. Len(tasks) /\ Slot(tid) \in Nat \ {0}
  BY SMT DEF Slot
<1>2. m \in Nat /\ Len(tasks) <= m /\ Slot(tid) <= m
  BY <1>1, SMT
<1>3. q = [i \in 1 .. m |-> IF i = Slot(tid) THEN new
                            ELSE IF i <= Len(tasks) THEN tasks[i] ELSE NoTcb]
  BY DEF Placed
<1> HIDE DEF m, q
<1>4. \A i \in 1 .. m : q[i] \in T
  BY <1>1, <1>3, SMT
<1>5. q \in [1 .. m -> T]
  BY <1>3, <1>4
<1>6. q \in Seq(T) /\ Len(q) = m
  BY <1>2, <1>5, SMT
<1>7. Holder(q, tid) = new
  BY <1>1, <1>2, <1>3, <1>6, SMT DEF Holder
<1>8. ASSUME NEW x \in Nat, x # tid PROVE Holder(q, x) = Holder(tasks, x)
  <2>1. Slot(x) \in Nat \ {0} /\ Slot(x) # Slot(tid)
    BY <1>8, SMT DEF Slot
  <2>2. CASE Slot(x) <= Len(tasks)
    BY <1>1, <1>2, <1>3, <1>6, <2>1, <2>2, SMT DEF Holder
  <2>3. CASE ~(Slot(x) <= Len(tasks))
    <3>1. CASE Slot(x) <= m
      BY <1>1, <1>2, <1>3, <1>6, <2>1, <2>3, <3>1, SMT DEF Holder
    <3>2. CASE ~(Slot(x) <= m)
      BY <1>6, <2>3, <3>2 DEF Holder
    <3> QED
      BY <3>1, <3>2
  <2> QED
    BY <2>2, <2>3
<1> QED
  BY <1>6, <1>7, <1>8 DEF q

(* The facts about the threads that the steps start from. *)
LEMMA ThreadFacts ==
    ASSUME ThreadsInv, NEW t \in Tcbs, res[t] # NoTid
    PROVE  /\ AllocatorOK(task_res_allocator, 0) /\ ~zombie
           /\ res[t] \in 0 .. MaxTid /\ res[t] \in Nat
           /\ Holder(tasks, res[t]) = t
           /\ res[t] \in areas /\ areas = InUse(task_res_allocator, 0)
           /\ \A u \in Tcbs : u # t /\ res[u] # NoTid => res[u] # res[t]
<1>1. t \in Living
  BY DEF Living
<1>2. TidsExact /\ ~zombie
  BY <1>1 DEF ThreadsInv, TidsExact
<1>3. res[t] \in 0 .. MaxTid
  BY <1>2 DEF TidsExact, ThreadsTypeOK
<1>4. res[t] \in Nat
  BY <1>3, ThreadsAssumption, SMT
<1> QED
  BY <1>1, <1>2, <1>3, <1>4 DEF ThreadsInv, TidsExact, Living, Old, Holder

(* sys_thread_create. *)
LEMMA CreateKeeps ==
    ASSUME ThreadsInv, NEW t \in Tcbs, NEW new \in Tcbs, sys_thread_create(t, new)
    PROVE  ThreadsInv'
<1> DEFINE a == task_res_allocator
           tid == alloc(a)
<1>1. /\ res[t] # NoTid /\ status[new] = "unborn" /\ tid <= MaxTid /\ panic = "none"
      /\ a' = allocated(a) /\ res' = [res EXCEPT ![new] = tid] /\ tasks' = Placed(tid, new)
      /\ status' = [Dropped(status, Old(tid)) EXCEPT ![new] = "Ready"]
      /\ areas' = areas \cup {tid} /\ zombie' = zombie
      /\ panic' = IF tid \in areas THEN "mapped before mapping" ELSE panic
  BY DEF sys_thread_create, InUser
<1>2. ThreadsTypeOK /\ TidsExact
  BY DEF ThreadsInv, TidsExact
<1>3. AllocatorOK(a, 0) /\ ~zombie /\ areas = InUse(a, 0)
  BY <1>1, ThreadFacts
<1>4. /\ AllocatorOK(a', 0) /\ tid \in Nat /\ tid \notin areas
      /\ InUse(a', 0) = areas \cup {tid} /\ Recycled(a') \subseteq Recycled(a)
  BY <1>1, <1>3, AllocGives
<1>5. tid \in 0 .. MaxTid /\ tid # NoTid
  BY <1>1, <1>4, ThreadsAssumption, SMT
<1> HIDE DEF tid
<1>6. res[new] = NoTid
  BY <1>1 DEF ThreadsInv, Living
<1>7. res' \in [Tcbs -> (0 .. MaxTid) \cup {NoTid}]
  BY <1>1, <1>2, <1>5 DEF ThreadsTypeOK
<1>8. \A u \in Tcbs : res'[u] = IF u = new THEN tid ELSE res[u]
  BY <1>1, <1>2 DEF ThreadsTypeOK
<1>9. Living' = Living \cup {new}
  BY <1>5, <1>8 DEF Living
<1>10. \A u \in Living : u # new /\ res[u] \in areas /\ res[u] \in Nat
  BY <1>6, ThreadFacts DEF Living
<1>11. /\ tasks' \in Seq(Tcbs \cup {NoTcb}) /\ Holder(tasks', tid) = new
       /\ \A x \in Nat : x # tid => Holder(tasks', x) = Holder(tasks, x)
  <2> DEFINE T == Tcbs \cup {NoTcb}
  <2>1. NoTcb \in T /\ tasks \in Seq(T) /\ new \in T
    BY <1>2 DEF ThreadsTypeOK
  <2> HIDE DEF T
  <2>2. /\ Placed(tid, new) \in Seq(T) /\ Holder(Placed(tid, new), tid) = new
        /\ \A x \in Nat : x # tid => Holder(Placed(tid, new), x) = Holder(tasks, x)
    BY <1>4, <2>1, PlacedSlots, SMT
  <2> QED
    BY <1>1, <2>2 DEF T
<1>12. \A u \in Living' : Holder(tasks', res'[u]) = u
  <2> SUFFICES ASSUME NEW u \in Living' PROVE Holder(tasks', res'[u]) = u
    OBVIOUS
  <2>1. CASE u = new
    BY <1>8, <1>11, <2>1
  <2>2. CASE u # new
    <3>1. u \in Tcbs /\ res[u] # NoTid
      BY <1>9, <2>2 DEF Living
    <3>2. res'[u] = res[u] /\ res[u] \in Nat /\ res[u] # tid /\ Holder(tasks, res[u]) = u
      BY <1>4, <1>8, <2>2, <3>1, ThreadFacts
    <3> QED
      BY <1>11, <3>2
  <2> QED
    BY <2>1, <2>2
<1>13. \A u, v \in Living' : res'[u] = res'[v] => u = v
  <2>1. \A u \in Living : u \in Tcbs /\ res'[u] = res[u] /\ res'[u] # tid
    BY <1>4, <1>8, <1>10 DEF Living
  <2>2. res'[new] = tid
    BY <1>8
  <2>3. \A u, v \in Living : res[u] = res[v] => u = v
    BY <1>2 DEF TidsExact
  <2> QED
    BY <1>9, <2>1, <2>2, <2>3, SMT
<1>14. areas' = {res'[u] : u \in Living'}
  <2>1. areas = {res[u] : u \in Living}
    BY <1>2 DEF TidsExact
  <2>2. \A u \in Living : res'[u] = res[u]
    BY <1>8, <1>10 DEF Living
  <2>3. res'[new] = tid
    BY <1>8
  <2> QED
    BY <1>1, <1>9, <2>1, <2>2, <2>3
<1>15. a' \in [current : Nat, recycled : Seq(0 .. MaxTid)]
  <2>1. a' \in [current : Nat, recycled : Seq(Nat)]
    BY <1>4 DEF AllocatorOK
  <2>2. a \in [current : Nat, recycled : Seq(0 .. MaxTid)]
    BY <1>2 DEF ThreadsTypeOK
  <2>3. Recycled(a') \subseteq 0 .. MaxTid
    BY <1>4, <2>2, RecycledType
  <2> QED
    BY <2>1, <2>3, RecycledType
<1>16. /\ status' \in [Tcbs -> {"unborn", "Ready", "Blocked", "Exited", "dropped"}]
       /\ status'[new] = "Ready"
       /\ \A u \in Tcbs : status[u] \in {"Ready", "Blocked"} => status'[u] \in {"Ready", "Blocked"}
  BY <1>1, <1>2 DEF ThreadsTypeOK, Dropped
<1>17. ThreadsTypeOK'
  BY <1>1, <1>2, <1>4, <1>5, <1>7, <1>11, <1>15, <1>16 DEF ThreadsTypeOK
<1>18. TidsExact'
  BY <1>1, <1>3, <1>4, <1>12, <1>13, <1>14, <1>17 DEF TidsExact, Old, Holder
<1>19. \A u \in Living' : status'[u] \in {"Ready", "Blocked"}
  BY <1>9, <1>16 DEF ThreadsInv, Living
<1> QED
  BY <1>4, <1>18, <1>19 DEF ThreadsInv

(* Steps that change nothing but the states of threads, none of which      *)
(* exits, or stop the kernel.                                              *)
LEMMA StatusKeeps ==
    ASSUME ThreadsInv, UNCHANGED <<task_res_allocator, tasks, res, areas, zombie>>,
           status' \in [Tcbs -> {"unborn", "Ready", "Blocked", "Exited", "dropped"}],
           \A u \in Tcbs : status[u] \in {"Ready", "Blocked"} => status'[u] \in {"Ready", "Blocked"},
           panic' \in {"none", panic, "no user resources", "index out of bounds", "thread_count"}
    PROVE  ThreadsInv'
<1>1. ThreadsTypeOK'
  BY DEF ThreadsInv, TidsExact, ThreadsTypeOK
<1>2. Living' = Living
  BY DEF Living
<1>3. \A u \in Living : Old(res[u])' = Old(res[u])
  BY DEF Old
<1>4. /\ InUse(task_res_allocator, 0)' = InUse(task_res_allocator, 0)
      /\ panic' \notin {"mapped before mapping", "deallocated twice"}
      /\ res' = res /\ areas' = areas /\ zombie' = zombie
  BY DEF ThreadsInv, TidsExact
<1>5. TidsExact'
  <2>1. /\ \A t, u \in Living : res[t] = res[u] => t = u
        /\ areas = {res[t] : t \in Living}
        /\ \A t \in Living : Old(res[t]) = t
        /\ \A t \in Living : ~zombie
    BY DEF ThreadsInv, TidsExact
  <2>2. /\ \A t, u \in Living' : res'[t] = res'[u] => t = u
        /\ areas' = {res'[t] : t \in Living'}
    BY <1>2, <1>4, <2>1
  <2>3. ASSUME NEW t \in Living' PROVE ~zombie'
    <3>1. ~zombie
      BY <1>2, <2>1
    <3>2. zombie' = zombie /\ zombie \in BOOLEAN
      BY <1>4 DEF ThreadsInv, TidsExact, ThreadsTypeOK
    <3> QED
      BY ONLY <3>1, <3>2, Zenon
  <2>4. \A t \in Living' : Old(res[t])' = t
    BY <1>2, <1>3, <2>1
  <2>5. InUse(task_res_allocator, 0)' = areas'
    BY <1>4 DEF ThreadsInv, TidsExact
  <2> QED
    BY <1>1, <1>4, <2>2, <2>3, <2>4, <2>5 DEF TidsExact
<1> QED
  BY <1>2, <1>5 DEF ThreadsInv, Living

(* The exit of a thread other than the main one. *)
LEMMA ExitThreadKeeps ==
    ASSUME ThreadsInv, NEW t \in Tcbs, ExitThread(t)
    PROVE  ThreadsInv'
<1> DEFINE a == task_res_allocator
           tid == res[t]
<1>1. /\ tid # NoTid /\ panic = "none"
      /\ a' = dealloc(a, tid) /\ res' = [res EXCEPT ![t] = NoTid] /\ tasks' = tasks
      /\ status' = [status EXCEPT ![t] = "Exited"]
      /\ areas' = areas \ {tid} /\ zombie' = zombie
      /\ panic' = IF CanDealloc(a, tid) THEN panic ELSE "deallocated twice"
  BY DEF ExitThread, InUser, Unmapped
<1>2. ThreadsTypeOK /\ TidsExact
  BY DEF ThreadsInv, TidsExact
<1>3. /\ AllocatorOK(a, 0) /\ ~zombie /\ tid \in areas /\ areas = InUse(a, 0) /\ tid \in 0 .. MaxTid
      /\ \A u \in Tcbs : u # t /\ res[u] # NoTid => res[u] # tid
  BY <1>1, ThreadFacts
<1>4. /\ CanDealloc(a, tid) /\ AllocatorOK(a', 0) /\ InUse(a', 0) = areas \ {tid}
      /\ Recycled(a') = Recycled(a) \cup {tid}
  <2>1. 0 \in Nat /\ tid \in InUse(a, 0)
    BY <1>3
  <2> HIDE DEF a, tid
  <2>2. /\ CanDealloc(a, tid) /\ AllocatorOK(dealloc(a, tid), 0)
        /\ InUse(dealloc(a, tid), 0) = InUse(a, 0) \ {tid}
        /\ Recycled(dealloc(a, tid)) = Recycled(a) \cup {tid}
    BY <1>3, <2>1, DeallocTakes
  <2> QED
    BY <1>1, <1>3, <2>2
<1>5. \A u \in Tcbs : res'[u] = IF u = t THEN NoTid ELSE res[u]
  BY <1>1, <1>2 DEF ThreadsTypeOK
<1>6. res' \in [Tcbs -> (0 .. MaxTid) \cup {NoTid}]
  BY <1>1, <1>2 DEF ThreadsTypeOK
<1> HIDE DEF tid
<1>7. Living' = Living \ {t}
  BY <1>5 DEF Living
<1>8. \A u \in Living' : u \in Living /\ u # t /\ res'[u] = res[u] /\ res[u] # tid
  BY <1>3, <1>5, <1>7 DEF Living
<1>9. areas' = {res'[u] : u \in Living'}
  <2>1. areas = {res[u] : u \in Living} /\ \A u \in Living : u # t => u \in Living'
    BY <1>2, <1>7 DEF TidsExact
  <2>2. \A x \in areas : x # tid => \E u \in Living' : x = res[u]
    BY <2>1 DEF tid
  <2>3. \A x : x \in areas' <=> x \in areas /\ x # tid
    BY <1>1
  <2>4. \A u \in Living' : res[u] \in areas
    BY <1>8, <2>1
  <2> QED
    BY <1>8, <2>2, <2>3, <2>4, SMT
<1>10. a' \in [current : Nat, recycled : Seq(0 .. MaxTid)]
  <2>1. a' \in [current : Nat, recycled : Seq(Nat)]
    BY <1>4 DEF AllocatorOK
  <2>2. a \in [current : Nat, recycled : Seq(0 .. MaxTid)]
    BY <1>2 DEF ThreadsTypeOK
  <2>3. Recycled(a') \subseteq 0 .. MaxTid
    BY <1>3, <1>4, <2>2, RecycledType
  <2> QED
    BY <2>1, <2>3, RecycledType
<1>11. /\ status' \in [Tcbs -> {"unborn", "Ready", "Blocked", "Exited", "dropped"}]
       /\ \A u \in Tcbs : u # t => status'[u] = status[u]
  BY <1>1, <1>2 DEF ThreadsTypeOK
<1>12. ThreadsTypeOK'
  BY <1>1, <1>2, <1>4, <1>6, <1>10, <1>11 DEF ThreadsTypeOK
<1>13. \A u \in Living' : Old(res[u])' = u
  BY <1>1, <1>2, <1>8 DEF TidsExact, Old
<1>14. \A u, v \in Living' : res'[u] = res'[v] => u = v
  BY <1>2, <1>8 DEF TidsExact
<1>15. TidsExact'
  BY <1>1, <1>3, <1>4, <1>9, <1>12, <1>13, <1>14 DEF TidsExact
<1>16. \A u \in Living' : status'[u] \in {"Ready", "Blocked"}
  BY <1>8, <1>11 DEF ThreadsInv, Living
<1> QED
  BY <1>4, <1>15, <1>16 DEF ThreadsInv

(* sys_waittid: only the slot of a thread that has exited becomes free. *)
LEMMA WaittidKeeps ==
    ASSUME ThreadsInv, NEW t \in Tcbs, NEW tid \in 0 .. MaxTid, sys_waittid(t, tid)
    PROVE  ThreadsInv'
<1> DEFINE waited == Old(tid)
<1>1. ThreadsTypeOK /\ TidsExact
  BY DEF ThreadsInv, TidsExact
<1>2. /\ UNCHANGED <<task_res_allocator, res, areas, zombie>>
      /\ panic' \in {panic, "index out of bounds"}
  BY DEF sys_waittid
<1>3. CASE waited # NoTcb /\ status[waited] = "Exited"
  <2>1. /\ tasks' = [tasks EXCEPT ![Slot(tid)] = NoTcb]
        /\ status' = [status EXCEPT ![waited] = "dropped"]
    BY <1>3 DEF sys_waittid, Dropped
  <2>2. Slot(tid) <= Len(tasks) /\ waited = tasks[Slot(tid)] /\ tid \in Nat /\ Slot(tid) = tid + 1
    BY <1>3, ThreadsAssumption, SMT DEF Old, Slot
  <2>3. tasks \in Seq(Tcbs \cup {NoTcb}) /\ Len(tasks) \in Nat /\ DOMAIN tasks = 1 .. Len(tasks)
    <3>1. tasks \in Seq(Tcbs \cup {NoTcb})
      BY <1>1 DEF ThreadsTypeOK
    <3> QED
      BY <3>1, SeqElements
  <2>4. Slot(tid) \in 1 .. Len(tasks) /\ waited \in Tcbs
    BY <1>3, <2>2, <2>3, SMT
  <2>5. /\ tasks' \in Seq(Tcbs \cup {NoTcb}) /\ Len(tasks') = Len(tasks)
        /\ \A i \in 1 .. Len(tasks) : i # Slot(tid) => tasks'[i] = tasks[i]
    BY <2>1, <2>3, <2>4, SMT
  <2>6. /\ status' \in [Tcbs -> {"unborn", "Ready", "Blocked", "Exited", "dropped"}]
        /\ \A u \in Tcbs : u # waited => status'[u] = status[u]
    BY <1>1, <2>1 DEF ThreadsTypeOK
  <2>7. Living' = Living /\ waited \notin Living
    BY <1>2, <1>3 DEF ThreadsInv, Living
  <2>8. ASSUME NEW u \in Living PROVE Old(res[u])' = u
    <3>1. u \in Tcbs /\ res[u] \in Nat /\ Holder(tasks, res[u]) = u
      BY ThreadFacts DEF Living
    <3>2. res[u] # tid
      BY <2>7, <3>1 DEF Holder, Old
    <3>3. Slot(res[u]) \in Nat \ {0} /\ Slot(res[u]) # Slot(tid)
      BY <2>2, <3>1, <3>2, SMT DEF Slot
    <3>4. Slot(res[u]) <= Len(tasks) => tasks'[Slot(res[u])] = tasks[Slot(res[u])]
      BY <2>3, <2>5, <3>3, SMT
    <3> QED
      BY <1>2, <2>5, <3>1, <3>4 DEF Old, Holder
  <2>9. ThreadsTypeOK'
    BY <1>1, <1>2, <2>5, <2>6 DEF ThreadsTypeOK
  <2>10. TidsExact'
    BY <1>1, <1>2, <2>7, <2>8, <2>9 DEF TidsExact
  <2> QED
    BY <1>2, <2>6, <2>7, <2>10 DEF ThreadsInv, Living
<1>4. CASE ~(waited # NoTcb /\ status[waited] = "Exited")
  <2>1. UNCHANGED <<tasks, status>>
    BY <1>4 DEF sys_waittid
  <2> QED
    BY <1>1, <1>2, <2>1, StatusKeeps DEF ThreadsTypeOK
<1> QED
  BY <1>3, <1>4

(* The element of K that is the n-th in order. *)
Nth(K, n) == CHOOSE i \in K : Cardinality({j \in K : j <= i}) = n

(* Counting the smaller ones numbers the elements of K from 1 on. *)
LEMMA CountedOff ==
    ASSUME NEW K \in SUBSET Nat, IsFiniteSet(K)
    PROVE  /\ Cardinality(K) \in Nat
           /\ \A n \in 1 .. Cardinality(K) : Nth(K, n) \in K
           /\ \A i \in K : \E n \in 1 .. Cardinality(K) : Nth(K, n) = i
<1> DEFINE upto(i) == {j \in K : j <= i}
           m == Cardinality(K)
           rank == [i \in K |-> Cardinality(upto(i))]
<1>1. m \in Nat
  BY FS_CardinalityType
<1>2. ASSUME NEW i \in K
      PROVE  /\ upto(i) \in SUBSET K /\ IsFiniteSet(upto(i)) /\ i \in upto(i)
             /\ Cardinality(upto(i)) \in 1 .. m
  <2>1. upto(i) \in SUBSET K /\ i \in upto(i)
    BY SMT
  <2>2. IsFiniteSet(upto(i)) /\ Cardinality(upto(i)) <= m
    BY <2>1, FS_Subset
  <2>3. Cardinality(upto(i)) \in Nat /\ Cardinality(upto(i)) # 0
    BY <2>1, <2>2, FS_CardinalityType, FS_EmptySet
  <2> QED
    BY <1>1, <2>1, <2>2, <2>3, SMT
<1>3. ASSUME NEW i \in K, NEW j \in K, i < j
      PROVE  Cardinality(upto(i)) # Cardinality(upto(j))
  <2>1. i \in Nat /\ j \in Nat
    OBVIOUS
  <2>2. \A k \in Nat : k <= i => k <= j
    BY <1>3, <2>1, SMT
  <2>3. upto(i) \in SUBSET upto(j)
    BY <2>2
  <2>4. j \notin upto(i)
    BY <1>3, <2>1, SMT
  <2>5. IsFiniteSet(upto(j)) /\ j \in upto(j)
    BY <1>2
  <2> HIDE DEF upto
  <2> QED
    BY <2>3, <2>4, <2>5, FS_Subset
<1> HIDE DEF m, upto
<1>4. ASSUME NEW i \in K, NEW j \in K, Cardinality(upto(i)) = Cardinality(upto(j))
      PROVE  i = j
  <2>1. i \in Nat /\ j \in Nat
    OBVIOUS
  <2> QED
    BY <1>3, <1>4, <2>1, SMT
<1>5. rank \in Injection(K, 1 .. m)
  BY <1>2, <1>4 DEF Injection, IsInjective
<1>6. IsFiniteSet(1 .. m) /\ Cardinality(1 .. m) = m
  BY <1>1, FS_Interval, SMT
<1>7. rank \in Surjection(K, 1 .. m)
  BY <1>5, <1>6, FS_Injection DEF m
<1>8. \A n \in 1 .. m : \E i \in K : Cardinality(upto(i)) = n
  BY <1>7 DEF Surjection
<1>9. \A n \in 1 .. m : Nth(K, n) \in K /\ Cardinality(upto(Nth(K, n))) = n
  BY <1>8 DEF Nth, upto
<1>10. ASSUME NEW i \in K PROVE \E n \in 1 .. m : Nth(K, n) = i
  <2>1. Cardinality(upto(i)) \in 1 .. m
    BY <1>2
  <2>2. Nth(K, Cardinality(upto(i))) = i
    BY <1>4, <1>9, <2>1
  <2> QED
    BY <2>1, <2>2
<1> QED
  BY <1>1, <1>9, <1>10 DEF m

(* The identifiers that the exit of the main thread gives back are those   *)
(* in use.                                                                 *)
LEMMA FreedAll ==
    ASSUME ThreadsInv, NEW t \in Tcbs, res[t] = 0
    PROVE  LET freed == <<0>> \o ToRecycle IN
           freed \in Seq(0 .. MaxTid) /\ {freed[i] : i \in DOMAIN freed} = areas
<1> DEFINE K == Held
           m == Cardinality(K)
           freed == <<0>> \o ToRecycle
<1>1. ThreadsTypeOK /\ TidsExact
  BY DEF ThreadsInv, TidsExact
<1>2. tasks \in Seq(Tcbs \cup {NoTcb}) /\ Len(tasks) \in Nat /\ DOMAIN tasks = 1 .. Len(tasks)
      /\ \A i \in DOMAIN tasks : tasks[i] \in Tcbs \cup {NoTcb}
  <2>1. tasks \in Seq(Tcbs \cup {NoTcb})
    BY <1>1 DEF ThreadsTypeOK
  <2> QED
    BY <2>1, SeqElements
<1>3. K \in SUBSET (1 .. Len(tasks)) /\ K \in SUBSET Nat /\ IsFiniteSet(K)
  <2>1. K \in SUBSET (1 .. Len(tasks))
    BY <1>2 DEF Held
  <2>2. IsFiniteSet(1 .. Len(tasks))
    BY <1>2, FS_Interval, SMT
  <2> HIDE DEF K
  <2>3. K \in SUBSET Nat
    BY <1>2, <2>1, SMT
  <2> QED
    BY <2>1, <2>2, <2>3, FS_Subset
<1>4. /\ m \in Nat /\ \A n \in 1 .. m : Nth(K, n) \in K
      /\ \A i \in K : \E n \in 1 .. m : Nth(K, n) = i
  <2> HIDE DEF K
  <2> QED
    BY <1>3, CountedOff
<1>5. ToRecycle = [n \in 1 .. m |-> res[tasks[Nth(K, n)]]]
  BY DEF ToRecycle, Nth
<1>6. \A i \in K : tasks[i] \in Tcbs /\ res[tasks[i]] # NoTid /\ i # 1
  BY <1>2, <1>3 DEF Held
<1>7. \A i \in K : res[tasks[i]] \in areas /\ res[tasks[i]] \in 0 .. MaxTid
  BY <1>6, ThreadFacts
<1> HIDE DEF K, m
<1>8. ToRecycle \in [1 .. m -> 0 .. MaxTid]
  BY <1>4, <1>5, <1>7
<1>9. 0 \in 0 .. MaxTid /\ 0 \in areas /\ t \in Living /\ NoTid # 0
  <2>1. NoTid # 0 /\ MaxTid \in Nat
    BY ThreadsAssumption, SMT
  <2> QED
    BY <2>1, ThreadFacts DEF Living
<1>10. /\ freed \in Seq(0 .. MaxTid) /\ Len(freed) = m + 1 /\ freed[1] = 0
       /\ \A n \in 1 .. m : freed[n + 1] = ToRecycle[n]
  <2>1. ToRecycle \in Seq(0 .. MaxTid) /\ Len(ToRecycle) = m
    <3> HIDE DEF ToRecycle
    <3> DEFINE S == 0 .. MaxTid
    <3> HIDE DEF S
    <3>1. ToRecycle \in [1 .. m -> S] /\ m \in Nat
      BY <1>4, <1>8 DEF S
    <3>2. ToRecycle \in Seq(S) /\ Len(ToRecycle) = m
      BY <3>1, SMT
    <3> QED
      BY <3>2 DEF S
  <2>2. <<0>> \in Seq(0 .. MaxTid) /\ Len(<<0>>) = 1
    BY <1>9, SMT
  <2> QED
    BY <1>4, <2>1, <2>2, SMT
<1>11. DOMAIN freed = 1 .. m + 1
  BY <1>10, SMT
<1> HIDE DEF freed
<1>12. ASSUME NEW x \in areas PROVE \E i \in DOMAIN freed : freed[i] = x
  <2>1. CASE x = 0
    BY <1>4, <1>10, <1>11, <2>1, SMT
  <2>2. CASE x # 0
    <3>1. PICK u \in Living : res[u] = x
      BY <1>1 DEF TidsExact
    <3>2. u \in Tcbs /\ res[u] # NoTid /\ x \in Nat /\ Holder(tasks, x) = u
      BY <3>1, ThreadFacts DEF Living
    <3>3. Slot(x) \in Nat /\ Slot(x) # 1 /\ Slot(x) >= 1 /\ u # NoTcb
      BY <2>2, <3>2, ThreadsAssumption, SMT DEF Slot
    <3>4. Slot(x) <= Len(tasks) /\ tasks[Slot(x)] = u
      BY <3>2, <3>3 DEF Holder
    <3>5. Slot(x) \in K
      BY <1>2, <3>2, <3>3, <3>4, SMT DEF K, Held
    <3>6. PICK n \in 1 .. m : Nth(K, n) = Slot(x)
      BY <1>4, <3>5
    <3>7. freed[n + 1] = x
      BY <1>5, <1>10, <3>1, <3>4, <3>6
    <3>8. n + 1 \in DOMAIN freed
      BY <1>4, <1>11, SMT
    <3> QED
      BY <3>7, <3>8
  <2> QED
    BY <2>1, <2>2
<1>13. ASSUME NEW i \in DOMAIN freed PROVE freed[i] \in areas
  <2>1. CASE i = 1
    BY <1>9, <1>10, <2>1
  <2>2. CASE i # 1
    <3>1. i - 1 \in 1 .. m /\ (i - 1) + 1 = i
      BY <1>4, <1>11, <2>2, SMT
    <3>2. freed[i] = ToRecycle[i - 1]
      BY <1>10, <3>1
    <3>3. Nth(K, i - 1) \in K /\ ToRecycle[i - 1] = res[tasks[Nth(K, i - 1)]]
      BY <1>4, <1>5, <3>1
    <3> QED
      BY <1>7, <3>2, <3>3
  <2> QED
    BY <2>1, <2>2
<1>14. {freed[i] : i \in DOMAIN freed} = areas
  BY <1>12, <1>13
<1> QED
  BY <1>10, <1>14 DEF freed

(* The elements of two lists one after the other. *)
LEMMA ConcatOf ==
    ASSUME NEW S, NEW r \in Seq(S), NEW q \in Seq(S)
    PROVE  /\ r \o q \in Seq(S) /\ Range(r \o q) = Range(r) \cup Range(q)
           /\ Distinct(r) /\ Distinct(q) /\ Range(r) \cap Range(q) = {} => Distinct(r \o q)
<1> DEFINE n == Len(r)
           m == Len(q)
           c == r \o q
<1>1. /\ n \in Nat /\ m \in Nat /\ DOMAIN r = 1 .. n /\ DOMAIN q = 1 .. m
      /\ c \in Seq(S) /\ DOMAIN c = 1 .. n + m
      /\ \A i \in 1 .. n + m : c[i] = IF i <= n THEN r[i] ELSE q[i - n]
  BY SMT
<1> HIDE DEF n, m, c
<1>2. ASSUME NEW i \in 1 .. n PROVE i \in 1 .. n + m /\ c[i] = r[i]
  BY <1>1, SMT
<1>3. ASSUME NEW i \in 1 .. m PROVE n + i \in 1 .. n + m /\ c[n + i] = q[i]
  <2>1. n + i \in 1 .. n + m /\ ~(n + i <= n) /\ (n + i) - n = i
    BY <1>1, SMT
  <2> QED
    BY <1>1, <2>1
<1>4. ASSUME NEW i \in 1 .. n + m
      PROVE  (\E j \in 1 .. n : c[i] = r[j]) \/ (\E j \in 1 .. m : c[i] = q[j])
  <2>1. CASE i <= n
    BY <1>1, <2>1, SMT
  <2>2. CASE ~(i <= n)
    <3>1. i - n \in 1 .. m
      BY <1>1, <2>2, SMT
    <3> QED
      BY <1>1, <2>2, <3>1
  <2> QED
    BY <2>1, <2>2
<1>5. ASSUME NEW x \in Range(c) PROVE x \in Range(r) \cup Range(q)
  BY <1>1, <1>4 DEF Range
<1>6. ASSUME NEW x \in Range(r) \cup Range(q) PROVE x \in Range(c)
  <2>1. CASE x \in Range(r)
    <3>1. PICK i \in 1 .. n : x = r[i]
      BY <1>1, <2>1 DEF Range
    <3> QED
      BY <1>1, <1>2, <3>1 DEF Range
  <2>2. CASE x \in Range(q)
    <3>1. PICK i \in 1 .. m : x = q[i]
      BY <1>1, <2>2 DEF Range
    <3> QED
      BY <1>1, <1>3, <3>1 DEF Range
  <2> QED
    BY <2>1, <2>2
<1>7. ASSUME Distinct(r), Distinct(q), Range(r) \cap Range(q) = {},
             NEW i \in 1 .. n + m, NEW j \in 1 .. n + m, c[i] = c[j]
      PROVE  i = j
  <2>1. \A k \in 1 .. n, l \in 1 .. m : r[k] # q[l]
    BY <1>1, <1>7 DEF Range
  <2>2. \A k \in 1 .. n + m : \/ k <= n /\ k \in 1 .. n /\ c[k] = r[k]
                              \/ k - n \in 1 .. m /\ c[k] = q[k - n]
    BY <1>1, SMT
  <2>3. CASE i \in 1 .. n /\ c[i] = r[i]
    <3>1. j \in 1 .. n /\ c[j] = r[j]
      BY <1>7, <2>1, <2>2, <2>3
    <3> QED
      BY <1>1, <1>7, <2>3, <3>1 DEF Distinct
  <2>4. CASE i - n \in 1 .. m /\ c[i] = q[i - n]
    <3>1. j - n \in 1 .. m /\ c[j] = q[j - n]
      BY <1>7, <2>1, <2>2, <2>4
    <3>2. i - n = j - n
      BY <1>1, <1>7, <2>4, <3>1 DEF Distinct
    <3> QED
      BY <1>1, <3>2, SMT
  <2> QED
    BY <2>2, <2>3, <2>4
<1>8. Distinct(r) /\ Distinct(q) /\ Range(r) \cap Range(q) = {} => Distinct(c)
  BY <1>1, <1>7 DEF Distinct
<1> QED
  BY <1>1, <1>5, <1>6, <1>8 DEF c

(* A list without its i-th element. *)
LEMMA RemovedOf ==
    ASSUME NEW S, NEW s \in Seq(S), NEW i \in DOMAIN s
    PROVE  /\ removed(s, i) \in Seq(S)
           /\ Distinct(s) => /\ Distinct(removed(s, i))
                             /\ Range(removed(s, i)) = Range(s) \ {s[i]}
<1> DEFINE n == Len(s)
           f == SubSeq(s, 1, i - 1)
           g == SubSeq(s, i + 1, n)
           c == removed(s, i)
<1>1. n \in Nat /\ DOMAIN s = 1 .. n /\ i \in 1 .. n
  BY SMT
<1>2. f \in Seq(S) /\ Len(f) = i - 1 /\ \A j \in 1 .. i - 1 : f[j] = s[j]
  BY <1>1, SMT
<1>3. g \in Seq(S) /\ Len(g) = n - i /\ \A j \in 1 .. n - i : g[j] = s[i + j]
  BY <1>1, SMT
<1>4. DOMAIN f = 1 .. i - 1 /\ DOMAIN g = 1 .. n - i
  BY <1>2, <1>3, SMT
<1>5. c = f \o g
  BY DEF removed
<1> HIDE DEF f, g, c, n
<1>6. c \in Seq(S) /\ Range(c) = Range(f) \cup Range(g)
  BY <1>2, <1>3, <1>5, ConcatOf, SMT
<1>7. ASSUME Distinct(s) PROVE Distinct(c) /\ Range(c) = Range(s) \ {s[i]}
  <2>1. \A j, k \in 1 .. n : s[j] = s[k] => j = k
    BY <1>1, <1>7 DEF Distinct
  <2>2. \A j \in 1 .. i - 1 : j \in 1 .. n /\ j # i
    BY <1>1, SMT
  <2>3. \A j \in 1 .. n - i : i + j \in 1 .. n /\ i + j # i
    BY <1>1, SMT
  <2>4. Distinct(f)
    BY <1>2, <1>4, <2>1, <2>2 DEF Distinct
  <2>5. Distinct(g)
    <3>1. ASSUME NEW j \in 1 .. n - i, NEW k \in 1 .. n - i, g[j] = g[k] PROVE j = k
      <4>1. i + j = i + k
        BY <1>3, <2>1, <2>3, <3>1
      <4> QED
        BY <1>1, <4>1, SMT
    <3> QED
      BY <1>4, <3>1 DEF Distinct
  <2>6. \A j \in 1 .. i - 1, k \in 1 .. n - i : j # i + k
    BY <1>1, SMT
  <2>7. Range(f) \cap Range(g) = {}
    <3>1. \A j \in 1 .. i - 1, k \in 1 .. n - i : f[j] # g[k]
      BY <1>2, <1>3, <2>1, <2>2, <2>3, <2>6
    <3> QED
      BY <1>4, <3>1 DEF Range
  <2>8. Distinct(c)
    BY <1>2, <1>3, <1>5, <2>4, <2>5, <2>7, ConcatOf
  <2>9. Range(f) \subseteq Range(s) \ {s[i]} /\ Range(g) \subseteq Range(s) \ {s[i]}
    <3>1. \A j \in 1 .. i - 1 : f[j] \in Range(s) /\ f[j] # s[i]
      BY <1>1, <1>2, <2>1, <2>2 DEF Range
    <3>2. \A j \in 1 .. n - i : g[j] \in Range(s) /\ g[j] # s[i]
      <4> TAKE j \in 1 .. n - i
      <4>1. i + j \in 1 .. n /\ i + j # i /\ g[j] = s[i + j]
        BY <1>3, <2>3
      <4> QED
        BY <1>1, <2>1, <4>1 DEF Range
    <3>3. \A x : x \in Range(f) => \E j \in 1 .. i - 1 : x = f[j]
      BY <1>4 DEF Range
    <3>4. \A x : x \in Range(g) => \E j \in 1 .. n - i : x = g[j]
      BY <1>4 DEF Range
    <3> QED
      BY <3>1, <3>2, <3>3, <3>4, SMT
  <2>10. ASSUME NEW j \in 1 .. n, j # i PROVE s[j] \in Range(f) \cup Range(g)
    <3>1. CASE j < i
      BY <1>1, <1>2, <1>4, <3>1, SMT DEF Range
    <3>2. CASE j > i
      <4>1. j - i \in 1 .. n - i /\ i + (j - i) = j
        BY <1>1, <3>2, SMT
      <4>2. g[j - i] = s[j] /\ j - i \in DOMAIN g
        BY <1>3, <1>4, <4>1
      <4> QED
        BY <4>2 DEF Range
    <3> QED
      BY <1>1, <2>10, <3>1, <3>2, SMT
  <2>11. Range(s) \ {s[i]} \subseteq Range(f) \cup Range(g)
    BY <1>1, <2>10 DEF Range
  <2> QED
    BY <1>6, <2>8, <2>9, <2>11
<1> QED
  BY <1>6, <1>7 DEF c

(* The exit of the main thread: every identifier and every stack goes. *)
LEMMA ExitProcessKeeps ==
    ASSUME ThreadsInv, NEW t \in Tcbs, ExitProcess(t)
    PROVE  ThreadsInv'
<1> DEFINE a == task_res_allocator
           freed == <<0>> \o ToRecycle
           Freed == {freed[i] : i \in DOMAIN freed}
           T == Tcbs \cup {NoTcb}
<1>1. /\ res[t] = 0 /\ panic = "none"
      /\ status' = [u \in Tcbs |-> IF u = t THEN "Exited"
                                   ELSE IF status[u] = "Exited" THEN "dropped" ELSE status[u]]
      /\ res' = [u \in Tcbs |-> IF res[u] \in Freed THEN NoTid ELSE res[u]]
      /\ a' = [a EXCEPT !.recycled = a.recycled \o freed]
      /\ areas' = areas \ Freed /\ tasks' = SubSeq(tasks, 1, 1) /\ zombie' = TRUE
      /\ panic' = IF \A id \in Freed : CanDealloc(a, id) THEN panic ELSE "deallocated twice"
  BY DEF ExitProcess, InUser, Unmapped
<1>2. ThreadsTypeOK /\ TidsExact
  BY DEF ThreadsInv, TidsExact
<1>3. freed \in Seq(0 .. MaxTid) /\ Freed = areas
  BY <1>1, FreedAll
<1> HIDE DEF freed, Freed
<1>4. NoTid # 0 /\ MaxTid \in Nat /\ 0 \in Nat /\ NoTid \notin Nat
  BY ThreadsAssumption, SMT
<1>5. AllocatorOK(a, 0) /\ areas = InUse(a, 0)
  BY <1>1, <1>4, ThreadFacts
<1>6. \A id \in Freed : CanDealloc(a, id)
  <2> HIDE DEF a
  <2> QED
    BY <1>3, <1>4, <1>5, DeallocTakes
<1>7. panic' = "none"
  BY <1>1, <1>6
<1>8. \A u \in Tcbs : res'[u] = NoTid
  BY <1>1, <1>2, <1>3 DEF TidsExact, Living
<1>9. Living' = {} /\ areas' = {}
  BY <1>1, <1>3, <1>8 DEF Living
<1>10. tasks' \in Seq(Tcbs \cup {NoTcb})
  <2>1. tasks \in Seq(T)
    BY <1>2 DEF ThreadsTypeOK
  <2>2. 1 <= Len(tasks)
    <3>1. Holder(tasks, 0) = t /\ t # NoTcb
      BY <1>1, <1>4, ThreadFacts, ThreadsAssumption
    <3> QED
      BY <3>1, SMT DEF Holder, Slot
  <2> HIDE DEF T
  <2>3. SubSeq(tasks, 1, 1) \in Seq(T)
    BY <2>1, <2>2, SMT
  <2> QED
    BY <1>1, <2>3 DEF T
<1>11. /\ a' \in [current : Nat, recycled : Seq(0 .. MaxTid)] /\ a'.current = a.current
       /\ Recycled(a') = Recycled(a) \cup areas
  <2> DEFINE r == a.recycled
             c == r \o freed
             S == 0 .. MaxTid
  <2>1. /\ a \in [current : Nat, recycled : Seq(0 .. MaxTid)]
        /\ r \in Seq(S) /\ freed \in Seq(S)
    BY <1>2, <1>3 DEF ThreadsTypeOK
  <2> HIDE DEF S, r
  <2>2. c \in Seq(S) /\ Range(c) = Range(r) \cup Range(freed)
    BY <2>1, ConcatOf, SMT
  <2>3. a' = [a EXCEPT !.recycled = c]
    BY <1>1 DEF r
  <2> HIDE DEF c, a
  <2>4. /\ a' = [current |-> a.current, recycled |-> c] /\ a.current \in Nat
    BY <2>1, <2>3
  <2>5. a'.recycled = c /\ a'.current = a.current
    BY <2>4
  <2>6. Recycled(a') = Recycled(a) \cup Freed
    BY <2>2, <2>5 DEF Recycled, Range, Freed, r
  <2> QED
    BY <1>3, <2>2, <2>4, <2>6 DEF S
<1>12. InUse(a', 0) = {}
  BY <1>5, <1>11 DEF InUse
<1>13. /\ status' \in [Tcbs -> {"unborn", "Ready", "Blocked", "Exited", "dropped"}]
       /\ res' \in [Tcbs -> (0 .. MaxTid) \cup {NoTid}]
  <2>1. status \in [Tcbs -> {"unborn", "Ready", "Blocked", "Exited", "dropped"}]
    BY <1>2 DEF ThreadsTypeOK
  <2> QED
    BY <1>1, <1>8, <2>1
<1>14. ThreadsTypeOK'
  BY <1>1, <1>7, <1>9, <1>10, <1>11, <1>13 DEF ThreadsTypeOK
<1>15. TidsExact'
  BY <1>7, <1>9, <1>12, <1>14 DEF TidsExact
<1> QED
  BY <1>1, <1>9, <1>15 DEF ThreadsInv

(* The process starts with its main thread. *)
LEMMA ThreadsStart ==
    ASSUME ThreadsInit
    PROVE  ThreadsInv
<1>1. /\ NoTid \notin Nat /\ MaxTid \in Nat /\ Main \in Tcbs
  BY ThreadsAssumption
<1>2. task_res_allocator = [current |-> 1, recycled |-> << >>]
  BY SMT DEF ThreadsInit, allocated, new_start
<1>3. Recycled(task_res_allocator) = {} /\ InUse(task_res_allocator, 0) = {0}
  BY <1>2, SMT DEF Recycled, InUse
<1>4. AllocatorOK(task_res_allocator, 0)
  BY <1>2, <1>3, SMT DEF AllocatorOK, Distinct
<1>5. ThreadsTypeOK
  <2>1. tasks = <<Main>> /\ tasks \in Seq(Tcbs \cup {NoTcb})
    BY <1>1, SMT DEF ThreadsInit
  <2>2. << >> \in Seq(0 .. MaxTid) /\ 1 \in Nat /\ 0 \in 0 .. MaxTid
    BY <1>1, SMT
  <2>3. task_res_allocator \in [current : Nat, recycled : Seq(0 .. MaxTid)]
    BY <1>2, <2>2
  <2>4. res \in [Tcbs -> (0 .. MaxTid) \cup {NoTid}]
    BY <2>2 DEF ThreadsInit
  <2> QED
    BY <2>1, <2>2, <2>3, <2>4 DEF ThreadsInit, ThreadsTypeOK
<1>6. Living = {Main} /\ res[Main] = 0 /\ status[Main] = "Ready"
  BY <1>1, SMT DEF ThreadsInit, Living
<1>7. Old(0) = Main
  BY SMT DEF ThreadsInit, Old, Slot
<1>8. TidsExact
  BY <1>3, <1>5, <1>6, <1>7 DEF ThreadsInit, TidsExact
<1> QED
  BY <1>4, <1>6, <1>8 DEF ThreadsInv

(* Every step of the threads keeps the invariant. *)
LEMMA ThreadsStep ==
    ASSUME ThreadsInv, [ThreadsNext]_threadVars
    PROVE  ThreadsInv'
<1>1. /\ status \in [Tcbs -> {"unborn", "Ready", "Blocked", "Exited", "dropped"}]
      /\ panic \notin {"mapped before mapping", "deallocated twice"}
  BY DEF ThreadsInv, TidsExact, ThreadsTypeOK
<1>2. CASE UNCHANGED threadVars
  BY <1>1, <1>2, StatusKeeps DEF threadVars
<1>3. ASSUME NEW t \in Tcbs, NEW new \in Tcbs, sys_thread_create(t, new) PROVE ThreadsInv'
  BY <1>3, CreateKeeps
<1>4. ASSUME NEW t \in Tcbs, Block(t) \/ Wake(t) PROVE ThreadsInv'
  <2>1. /\ UNCHANGED <<task_res_allocator, tasks, res, areas, zombie>> /\ panic' = panic
        /\ status' = [status EXCEPT ![t] = "Blocked"] \/ status' = [status EXCEPT ![t] = "Ready"]
    BY <1>4 DEF Block, Wake
  <2>2. /\ status' \in [Tcbs -> {"unborn", "Ready", "Blocked", "Exited", "dropped"}]
        /\ \A u \in Tcbs : status[u] \in {"Ready", "Blocked"} => status'[u] \in {"Ready", "Blocked"}
    BY <1>1, <2>1
  <2> QED
    BY <2>1, <2>2, StatusKeeps
<1>5. ASSUME NEW t \in Tcbs, ExitThread(t) PROVE ThreadsInv'
  BY <1>5, ExitThreadKeeps
<1>6. ASSUME NEW t \in Tcbs, ExitProcess(t) PROVE ThreadsInv'
  BY <1>6, ExitProcessKeeps
<1>7. ASSUME NEW t \in Tcbs, DispatchWithoutRes(t) \/ sys_fork(t) PROVE ThreadsInv'
  <2>1. /\ UNCHANGED <<task_res_allocator, tasks, res, areas, zombie>> /\ status' = status
        /\ panic' \in {"no user resources", "thread_count"}
    BY <1>7 DEF DispatchWithoutRes, sys_fork
  <2> QED
    BY <1>1, <2>1, StatusKeeps
<1>8. ASSUME NEW t \in Tcbs, NEW tid \in 0 .. MaxTid, sys_waittid(t, tid) PROVE ThreadsInv'
  BY <1>8, WaittidKeeps
<1> QED
  BY <1>2, <1>3, <1>4, <1>5, <1>6, <1>7, <1>8 DEF ThreadsNext

(* Reusing thread identifiers never confuses two threads, however many     *)
(* there are: two living threads have different identifiers, stacks and    *)
(* slots, nothing is mapped or given back twice, and the exit of the main  *)
(* thread gives all of it back.                                            *)
THEOREM ThreadIdsExact == ThreadsSpec => []TidsExact
<1>1. ThreadsInit => ThreadsInv
  BY ThreadsStart
<1>2. ThreadsInv /\ [ThreadsNext]_threadVars => ThreadsInv'
  BY ThreadsStep
<1>3. ThreadsInv => TidsExact
  BY DEF ThreadsInv
<1> QED
  BY <1>1, <1>2, <1>3, PTL DEF ThreadsSpec
-----------------------------------------------------------------------------
(* Processes.  The lists of the children, by their elements. *)
Alive(st) == {b \in Pcbs : st[b] \in {"live", "zombie"}}

Forest(ch, par, st) ==
    /\ \A b \in Pcbs : Distinct(ch[b])
    /\ \A b \in Pcbs : \A c \in Range(ch[b]) : c \in Alive(st) /\ c # INITPROC /\ par[c] = b
    /\ \A c \in Alive(st) : c # INITPROC =>
          par[c] \in Pcbs /\ st[par[c]] = "live" /\ c \in Range(ch[par[c]])

(* What makes TreeExact inductive: as long as the machine runs, parents    *)
(* are processes, the allocator is in order, INITPROC lives and has the    *)
(* first pid, and the map of pids has an entry only for the process that   *)
(* has the pid.                                                            *)
TreeInv ==
    /\ TreeExact
    /\ halt = "none" =>
          /\ \A b \in Existing : b # INITPROC => parent[b] \in Pcbs
          /\ AllocatorOK(PID_ALLOCATOR, IDLE_PID)
          /\ state[INITPROC] = "live" /\ pid[INITPROC] = IDLE_PID
          /\ \A n \in DOMAIN pid2pcb : pid[pid2pcb[n]] = n

(* The pids, the map and the allocator. *)
Pids ==
    /\ \A b, c \in Existing : pid[b] = pid[c] => b = c
    /\ InUse(PID_ALLOCATOR, IDLE_PID) = {pid[b] : b \in Existing}
    /\ \A b \in Pcbs : state[b] = "live" <=> pid[b] \in DOMAIN pid2pcb /\ pid2pcb[pid[b]] = b
    /\ AllocatorOK(PID_ALLOCATOR, IDLE_PID)
    /\ state[INITPROC] = "live" /\ pid[INITPROC] = IDLE_PID
    /\ \A n \in DOMAIN pid2pcb : pid[pid2pcb[n]] = n

(* The invariant of a running machine, in these two parts. *)
LEMMA TreeParts ==
    ASSUME TreeInv, halt = "none"
    PROVE  TreeTypeOK /\ Pids /\ Forest(children, parent, state)
<1>1. TreeTypeOK /\ PidsExact
  BY DEF TreeInv, TreeExact
<1>2. Pids
  BY <1>1, SMT DEF TreeInv, PidsExact, Pids
<1>3. /\ \A b \in Existing : b # INITPROC =>
            parent[b] \in Pcbs /\ state[parent[b]] = "live" /\ b \in Range(children[parent[b]])
      /\ \A b \in Pcbs : \A i, j \in DOMAIN children[b] :
            /\ children[b][i] \in Existing /\ children[b][i] # INITPROC
            /\ parent[children[b][i]] = b
            /\ children[b][i] = children[b][j] => i = j
  BY SMT DEF TreeInv, TreeExact
<1>4. Alive(state) = Existing
  BY DEF Alive, Existing
<1>5. \A b \in Pcbs : Distinct(children[b])
  BY <1>3, SMT DEF Distinct
<1>6. \A b \in Pcbs : \A c \in Range(children[b]) : c \in Existing /\ c # INITPROC /\ parent[c] = b
  BY <1>3, SMT DEF Range
<1> QED
  BY <1>1, <1>2, <1>3, <1>4, <1>5, <1>6 DEF Forest

(* The parts after a step make the invariant after it. *)
LEMMA TreeWhole ==
    ASSUME TreeTypeOK', Pids', Forest(children', parent', state'), halt' = "none"
    PROVE  TreeInv'
<1>1. PidsExact'
  <2>1. \A b \in Pcbs : state'[b] = "live" <=>
           \E i \in DOMAIN pid2pcb' : pid2pcb'[i] = b /\ pid'[b] = i
    BY SMT DEF Pids
  <2> QED
    BY <2>1 DEF Pids, PidsExact
<1>2. Alive(state') = Existing'
  BY DEF Alive, Existing
<1>3. \A b \in Existing' : b # INITPROC =>
         parent'[b] \in Pcbs /\ state'[parent'[b]] = "live" /\ b \in Range(children'[parent'[b]])
  BY <1>2 DEF Forest
<1>4. \A b \in Pcbs : \A i, j \in DOMAIN children'[b] :
            /\ children'[b][i] \in Existing' \ {INITPROC}
            /\ parent'[children'[b][i]] = b
            /\ children'[b][i] = children'[b][j] => i = j
  <2> TAKE b \in Pcbs
  <2>1. \A i \in DOMAIN children'[b] : children'[b][i] \in Range(children'[b])
    BY DEF Range
  <2>2. Distinct(children'[b])
    BY DEF Forest
  <2>3. \A c \in Range(children'[b]) : c \in Existing' /\ c # INITPROC /\ parent'[c] = b
    BY <1>2 DEF Forest
  <2> QED
    BY <2>1, <2>2, <2>3 DEF Distinct
<1>5. TreeExact'
  BY <1>1, <1>3, <1>4 DEF TreeExact
<1> QED
  BY <1>3, <1>5 DEF TreeInv, Pids

(* fork: the pid is new, and the child is on the list of its parent alone. *)
LEMMA ForkKeeps ==
    ASSUME TreeInv, NEW b \in Pcbs, NEW child \in Pcbs, fork(b, child)
    PROVE  TreeInv'
<1> DEFINE a == PID_ALLOCATOR
           id == alloc(a)
<1>1. /\ halt = "none" /\ state[b] = "live" /\ state[child] = "unborn" /\ id <= MaxPid
      /\ a' = allocated(a) /\ pid' = [pid EXCEPT ![child] = id]
      /\ pid2pcb' = [i \in DOMAIN pid2pcb \cup {id} |-> IF i = id THEN child ELSE pid2pcb[i]]
      /\ parent' = [parent EXCEPT ![child] = b]
      /\ children' = [children EXCEPT ![b] = Append(children[b], child)]
      /\ state' = [state EXCEPT ![child] = "live"] /\ reading' = reading /\ halt' = halt
  BY DEF fork, Runs
<1>2. TreeTypeOK /\ Pids /\ Forest(children, parent, state)
  BY <1>1, TreeParts
<1>3. /\ AllocatorOK(a', 1) /\ id \in Nat /\ id >= 1 /\ id \notin InUse(a, 1)
      /\ InUse(a', 1) = InUse(a, 1) \cup {id} /\ Recycled(a') \subseteq Recycled(a)
  <2>1. AllocatorOK(a, 1) /\ 1 \in Nat
    BY <1>2 DEF Pids, IDLE_PID
  <2> HIDE DEF a
  <2>2. /\ AllocatorOK(allocated(a), 1) /\ id \in Nat /\ id >= 1 /\ id \notin InUse(a, 1)
        /\ InUse(allocated(a), 1) = InUse(a, 1) \cup {id}
        /\ Recycled(allocated(a)) \subseteq Recycled(a)
    BY <2>1, AllocGives
  <2> QED
    BY <1>1, <2>2
<1> HIDE DEF id
<1>4. /\ pid \in [Pcbs -> 0 .. MaxPid] /\ parent \in [Pcbs -> Pcbs \cup {NoPcb}]
      /\ children \in [Pcbs -> Seq(Pcbs)] /\ DOMAIN children = Pcbs
      /\ state \in [Pcbs -> {"unborn", "live", "zombie", "freed"}]
      /\ MaxPid \in Nat /\ id \in 1 .. MaxPid /\ id \in 0 .. MaxPid
  BY <1>1, <1>2, <1>3, ProcessTreeAssumption, SMT DEF TreeTypeOK
<1>5. /\ \A c \in Pcbs : pid'[c] = IF c = child THEN id ELSE pid[c]
      /\ \A c \in Pcbs : state'[c] = IF c = child THEN "live" ELSE state[c]
      /\ \A c \in Pcbs : parent'[c] = IF c = child THEN b ELSE parent[c]
      /\ pid' \in [Pcbs -> 0 .. MaxPid] /\ parent' \in [Pcbs -> Pcbs \cup {NoPcb}]
      /\ state' \in [Pcbs -> {"unborn", "live", "zombie", "freed"}]
  BY <1>1, <1>4
<1>6. /\ Append(children[b], child) \in Seq(Pcbs) /\ child \notin Range(children[b])
      /\ Distinct(Append(children[b], child))
      /\ Range(Append(children[b], child)) = Range(children[b]) \cup {child}
  <2> DEFINE s == children[b]
             n == Len(s)
             q == Append(s, child)
  <2>1. s \in Seq(Pcbs)
    BY <1>4
  <2>2. /\ q \in Seq(Pcbs) /\ n \in Nat /\ DOMAIN s = 1 .. n
        /\ DOMAIN q = 1 .. n + 1 /\ q[n + 1] = child /\ \A i \in 1 .. n : q[i] = s[i]
    BY <2>1, PushOf, SMT
  <2>3. child \notin Range(s) /\ Distinct(s)
    BY <1>1, <1>2 DEF Forest, Alive
  <2> HIDE DEF s, q, n
  <2>4. \A i : i \in 1 .. n + 1 <=> i \in 1 .. n \/ i = n + 1
    BY <2>2, SMT
  <2>5. Distinct(q)
    BY <2>2, <2>3, <2>4 DEF Distinct, Range
  <2>6. Range(q) = Range(s) \cup {child}
    BY <2>2, <2>4 DEF Range
  <2> QED
    BY <2>2, <2>3, <2>5, <2>6 DEF s, q
<1>7. /\ children' \in [Pcbs -> Seq(Pcbs)]
      /\ children'[b] = Append(children[b], child)
      /\ \A o \in Pcbs : o # b => children'[o] = children[o]
  BY <1>1, <1>4, <1>6
<1>8. child # b /\ child # INITPROC /\ Alive(state') = Alive(state) \cup {child}
      /\ Existing' = Existing \cup {child} /\ Alive(state) = Existing
  BY <1>1, <1>2, <1>5, SMT DEF Pids, Alive, Existing
<1>9. \A c \in Existing : c \in Pcbs /\ c # child /\ pid'[c] = pid[c] /\ pid[c] # id
  BY <1>1, <1>2, <1>3, <1>5, SMT DEF Pids, Existing, IDLE_PID
<1>10. /\ \A n \in DOMAIN pid2pcb : pid2pcb[n] \in Pcbs /\ state[pid2pcb[n]] = "live"
       /\ id \notin DOMAIN pid2pcb /\ DOMAIN pid2pcb \subseteq 1 .. MaxPid
  <2>1. \A n \in DOMAIN pid2pcb : pid2pcb[n] \in Pcbs /\ pid[pid2pcb[n]] = n
    <3>1. Range(pid2pcb) \subseteq Pcbs /\ \A n \in DOMAIN pid2pcb : pid2pcb[n] \in Range(pid2pcb)
      BY <1>2 DEF TreeTypeOK, Range
    <3> QED
      BY <1>2, <3>1 DEF Pids
  <2>2. \A n \in DOMAIN pid2pcb : state[pid2pcb[n]] = "live"
    BY <1>2, <2>1 DEF Pids
  <2>3. \A n \in DOMAIN pid2pcb : pid2pcb[n] \in Existing
    BY <2>1, <2>2 DEF Existing
  <2> QED
    BY <1>2, <1>9, <2>1, <2>2, <2>3 DEF TreeTypeOK
<1>11. /\ DOMAIN pid2pcb' = DOMAIN pid2pcb \cup {id} /\ pid2pcb'[id] = child
       /\ \A n \in DOMAIN pid2pcb : pid2pcb'[n] = pid2pcb[n]
  BY <1>1, <1>10
<1>12. Forest(children', parent', state')
  <2>1. ASSUME NEW o \in Pcbs PROVE Distinct(children'[o])
    <3>1. CASE o = b
      BY <1>6, <1>7, <3>1
    <3>2. CASE o # b
      BY <1>2, <1>7, <3>2 DEF Forest
    <3> QED
      BY <3>1, <3>2
  <2>2. ASSUME NEW o \in Pcbs, NEW c \in Range(children'[o])
        PROVE  c \in Alive(state') /\ c # INITPROC /\ parent'[c] = o
    <3>1. CASE c \in Range(children[o])
      <4>1. c \in Alive(state) /\ c # INITPROC /\ parent[c] = o
        BY <1>2, <3>1 DEF Forest
      <4> QED
        BY <1>5, <1>8, <1>9, <4>1
    <3>2. CASE c \notin Range(children[o])
      <4>1. o = b /\ c = child
        BY <1>6, <1>7, <2>2, <3>2
      <4> QED
        BY <1>5, <1>8, <4>1
    <3> QED
      BY <3>1, <3>2
  <2>3. ASSUME NEW c \in Alive(state'), c # INITPROC
        PROVE  parent'[c] \in Pcbs /\ state'[parent'[c]] = "live" /\ c \in Range(children'[parent'[c]])
    <3>1. CASE c = child
      BY <1>1, <1>5, <1>6, <1>7, <1>8, <3>1
    <3>2. CASE c # child
      <4>1. c \in Existing /\ c \in Pcbs
        BY <1>8, <1>9, <3>2
      <4>2. parent[c] \in Pcbs /\ state[parent[c]] = "live" /\ c \in Range(children[parent[c]])
        BY <1>2, <1>8, <2>3, <4>1 DEF Forest
      <4>3. parent'[c] = parent[c] /\ state'[parent[c]] = "live"
        BY <1>5, <3>2, <4>1, <4>2
      <4>4. Range(children[parent[c]]) \subseteq Range(children'[parent[c]])
        <5>1. CASE parent[c] = b
          BY <1>6, <1>7, <5>1
        <5>2. CASE parent[c] # b
          BY <1>7, <4>2, <5>2
        <5> QED
          BY <5>1, <5>2
      <4> QED
        BY <4>2, <4>3, <4>4
    <3> QED
      BY <3>1, <3>2
  <2> QED
    BY <2>1, <2>2, <2>3 DEF Forest
<1>13. Pids'
  <2>1. \A c, d \in Existing' : pid'[c] = pid'[d] => c = d
    BY <1>2, <1>5, <1>8, <1>9, SMT DEF Pids
  <2>2. InUse(a', IDLE_PID) = {pid'[c] : c \in Existing'}
    <3>1. InUse(a, 1) = {pid[c] : c \in Existing}
      BY <1>2 DEF Pids, IDLE_PID
    <3>2. {pid'[c] : c \in Existing'} = {pid[c] : c \in Existing} \cup {id}
      BY <1>5, <1>8, <1>9, SMTT(30)
    <3> QED
      BY <1>3, <3>1, <3>2 DEF IDLE_PID
  <2>3. \A c \in Pcbs : state'[c] = "live" <=> pid'[c] \in DOMAIN pid2pcb' /\ pid2pcb'[pid'[c]] = c
    <3>1. \A c \in Pcbs : c # child => pid'[c] = pid[c] /\ state'[c] = state[c]
      BY <1>5
    <3>2. ASSUME NEW c \in Pcbs, c # child
          PROVE  (pid[c] \in DOMAIN pid2pcb /\ pid2pcb[pid[c]] = c)
                    <=> (pid[c] \in DOMAIN pid2pcb' /\ pid2pcb'[pid[c]] = c)
      BY <1>10, <1>11, <3>2
    <3>3. \A c \in Pcbs : state[c] = "live" <=> pid[c] \in DOMAIN pid2pcb /\ pid2pcb[pid[c]] = c
      BY <1>2 DEF Pids
    <3>4. state'[child] = "live" /\ pid'[child] \in DOMAIN pid2pcb' /\ pid2pcb'[pid'[child]] = child
      BY <1>5, <1>11
    <3> QED
      BY <3>1, <3>2, <3>3, <3>4, SMT
  <2>4. state'[INITPROC] = "live" /\ pid'[INITPROC] = IDLE_PID
    BY <1>2, <1>5, <1>8, ProcessTreeAssumption DEF Pids
  <2>5. \A n \in DOMAIN pid2pcb' : pid'[pid2pcb'[n]] = n
    BY <1>1, <1>2, <1>5, <1>10, <1>11, SMT DEF Pids
  <2> QED
    BY <1>3, <2>1, <2>2, <2>3, <2>4, <2>5 DEF Pids, IDLE_PID
<1>14. TreeTypeOK'
  <2>1. a' \in [current : Nat, recycled : Seq(1 .. MaxPid)]
    <3>1. a' \in [current : Nat, recycled : Seq(Nat)]
      BY <1>3 DEF AllocatorOK
    <3>2. a \in [current : Nat, recycled : Seq(1 .. MaxPid)]
      BY <1>2 DEF TreeTypeOK
    <3>3. Recycled(a') \subseteq 1 .. MaxPid
      BY <1>3, <3>2, RecycledType
    <3> QED
      BY <3>1, <3>3, RecycledType
  <2>2. DOMAIN pid2pcb' \subseteq 1 .. MaxPid /\ Range(pid2pcb') \subseteq Pcbs
    BY <1>4, <1>10, <1>11, SMT DEF Range
  <2> QED
    BY <1>1, <1>2, <1>5, <1>7, <2>1, <2>2 DEF TreeTypeOK
<1> QED
  BY <1>1, <1>12, <1>13, <1>14, TreeWhole

(* Steps that leave the processes alone, or only stop the machine. *)
LEMMA TreeIdles ==
    ASSUME TreeInv, UNCHANGED <<PID_ALLOCATOR, pid2pcb, pid, parent, children, state>>,
           reading' \subseteq Readers, halt' \in {halt, "shutdown"}
    PROVE  TreeInv'
<1>1. TreeTypeOK /\ TreeTypeOK'
  BY DEF TreeInv, TreeExact, TreeTypeOK
<1>2. PidsExact /\ Existing' = Existing
  BY DEF TreeInv, TreeExact, Existing
<1>3. CASE halt' = "shutdown"
  <2>1. PidsExact'
    BY <1>2, <1>3 DEF PidsExact
  <2> QED
    BY <1>1, <1>3, <2>1 DEF TreeInv, TreeExact
<1>4. CASE halt' = halt
  <2>1. InUse(PID_ALLOCATOR, IDLE_PID)' = InUse(PID_ALLOCATOR, IDLE_PID)
        /\ (AllocatorOK(PID_ALLOCATOR, IDLE_PID) => AllocatorOK(PID_ALLOCATOR, IDLE_PID)')
    OBVIOUS
  <2>2. {pid[b] : b \in Existing}' = {pid[b] : b \in Existing}
    BY <1>2
  <2>3. PidsExact'
    BY <1>2, <1>4, <2>1, <2>2 DEF PidsExact
  <2> QED
    BY <1>1, <1>2, <1>4, <2>1, <2>3, SMT DEF TreeInv, TreeExact
<1> QED
  BY <1>3, <1>4

(* The exit of a process: its children are INITPROC's, its pid is still    *)
(* in use, and no lookup finds it.                                         *)
LEMMA ExitKeeps ==
    ASSUME TreeInv, NEW b \in Pcbs, Exit(b)
    PROVE  TreeInv'
<1> DEFINE s == children[INITPROC]
           q == children[b]
<1>1. /\ halt = "none" /\ state[b] = "live" /\ pid[b] # IDLE_PID
      /\ pid2pcb' = [i \in DOMAIN pid2pcb \ {pid[b]} |-> pid2pcb[i]]
      /\ state' = [state EXCEPT ![b] = "zombie"]
      /\ parent' = [c \in Pcbs |-> IF c \in Range(q) THEN INITPROC ELSE parent[c]]
      /\ children' = [children EXCEPT ![INITPROC] = s \o q, ![b] = << >>]
      /\ halt' = IF pid[b] \in DOMAIN pid2pcb THEN halt ELSE "cannot find pid"
      /\ PID_ALLOCATOR' = PID_ALLOCATOR /\ pid' = pid /\ reading' = reading
  BY DEF Exit, Runs, HandedOver
<1>2. TreeTypeOK /\ Pids /\ Forest(children, parent, state)
  BY <1>1, TreeParts
<1>3. /\ pid \in [Pcbs -> 0 .. MaxPid] /\ parent \in [Pcbs -> Pcbs \cup {NoPcb}]
      /\ children \in [Pcbs -> Seq(Pcbs)] /\ DOMAIN children = Pcbs
      /\ state \in [Pcbs -> {"unborn", "live", "zombie", "freed"}]
      /\ INITPROC \in Pcbs
  BY <1>2, ProcessTreeAssumption DEF TreeTypeOK
<1>4. b # INITPROC /\ pid[b] \in DOMAIN pid2pcb
  BY <1>1, <1>2 DEF Pids
<1>5. /\ s \in Seq(Pcbs) /\ q \in Seq(Pcbs) /\ s \o q \in Seq(Pcbs)
      /\ Range(s \o q) = Range(s) \cup Range(q) /\ Distinct(s \o q)
  <2>1. s \in Seq(Pcbs) /\ q \in Seq(Pcbs)
    BY <1>3
  <2>2. Distinct(s) /\ Distinct(q)
    BY <1>2, <1>3 DEF Forest
  <2>3. (\A c \in Range(s) : parent[c] = INITPROC) /\ (\A c \in Range(q) : parent[c] = b)
    BY <1>2, <1>3 DEF Forest
  <2> HIDE DEF s, q
  <2>4. Range(s) \cap Range(q) = {}
    BY <1>4, <2>3, SMT
  <2> QED
    BY <2>1, <2>2, <2>4, ConcatOf, SMT
<1> DEFINE c1 == s \o q
<1> HIDE DEF c1
<1>6. /\ children' \in [Pcbs -> Seq(Pcbs)]
      /\ children'[INITPROC] = s \o q /\ children'[b] = << >>
      /\ \A o \in Pcbs : o # b /\ o # INITPROC => children'[o] = children[o]
  <2>1. children' = [children EXCEPT ![INITPROC] = c1, ![b] = << >>]
    BY <1>1 DEF c1
  <2>2. c1 \in Seq(Pcbs) /\ << >> \in Seq(Pcbs)
    BY <1>5, SMT DEF c1
  <2>3. /\ children' \in [Pcbs -> Seq(Pcbs)]
        /\ children'[INITPROC] = c1 /\ children'[b] = << >>
        /\ \A o \in Pcbs : o # b /\ o # INITPROC => children'[o] = children[o]
    BY <1>3, <1>4, <2>1, <2>2
  <2> QED
    BY <2>3 DEF c1
<1>7. /\ \A c \in Pcbs : state'[c] = IF c = b THEN "zombie" ELSE state[c]
      /\ \A c \in Pcbs : parent'[c] = IF c \in Range(q) THEN INITPROC ELSE parent[c]
      /\ state' \in [Pcbs -> {"unborn", "live", "zombie", "freed"}]
      /\ parent' \in [Pcbs -> Pcbs \cup {NoPcb}]
  BY <1>1, <1>3
<1>8. Alive(state') = Alive(state) /\ Existing' = Existing /\ Existing = Alive(state) /\ b \in Existing
  BY <1>1, <1>7 DEF Alive, Existing
<1> HIDE DEF s
<1>9. Range(<< >>) = {} /\ Distinct(<< >>)
  BY SMT DEF Range, Distinct
<1>10. Forest(children', parent', state')
  <2>1. ASSUME NEW o \in Pcbs PROVE Distinct(children'[o])
    <3>1. CASE o = b
      BY <1>6, <1>9, <3>1
    <3>2. CASE o = INITPROC
      BY <1>5, <1>6, <3>2
    <3>3. CASE o # b /\ o # INITPROC
      BY <1>2, <1>6, <3>3 DEF Forest
    <3> QED
      BY <3>1, <3>2, <3>3
  <2>2. ASSUME NEW o \in Pcbs, NEW c \in Range(children'[o])
        PROVE  c \in Alive(state') /\ c # INITPROC /\ parent'[c] = o
    <3>1. \A p \in Pcbs : \A d \in Range(children[p]) :
             d \in Alive(state) /\ d \in Pcbs /\ d # INITPROC /\ parent[d] = p
      BY <1>2 DEF Forest, Alive
    <3>2. CASE o = b
      BY <1>6, <1>9, <2>2, <3>2
    <3>3. CASE o = INITPROC
      <4>1. c \in Range(s) \/ c \in Range(q)
        BY <1>5, <1>6, <2>2, <3>3
      <4>2. CASE c \in Range(q)
        BY <1>7, <1>8, <3>1, <3>3, <4>2
      <4>3. CASE c \in Range(s) /\ c \notin Range(q)
        BY <1>3, <1>7, <1>8, <3>1, <3>3, <4>3 DEF s
      <4> QED
        BY <4>1, <4>2, <4>3
    <3>4. CASE o # b /\ o # INITPROC
      <4>1. c \in Range(children[o])
        BY <1>6, <2>2, <3>4
      <4>2. c \in Alive(state) /\ c \in Pcbs /\ c # INITPROC /\ parent[c] = o
        BY <3>1, <4>1
      <4>3. c \notin Range(q)
        BY <3>1, <3>4, <4>2
      <4> QED
        BY <1>7, <1>8, <4>2, <4>3
    <3> QED
      BY <3>2, <3>3, <3>4
  <2>3. ASSUME NEW c \in Alive(state'), c # INITPROC
        PROVE  parent'[c] \in Pcbs /\ state'[parent'[c]] = "live" /\ c \in Range(children'[parent'[c]])
    <3>1. c \in Pcbs /\ c \in Alive(state)
      BY <1>8 DEF Alive
    <3>2. parent[c] \in Pcbs /\ state[parent[c]] = "live" /\ c \in Range(children[parent[c]])
      BY <1>2, <2>3, <3>1 DEF Forest
    <3>3. CASE c \in Range(q)
      <4>1. parent'[c] = INITPROC /\ c \in Range(children'[INITPROC])
        BY <1>5, <1>6, <1>7, <3>1, <3>3
      <4>2. state'[INITPROC] = "live"
        BY <1>2, <1>3, <1>4, <1>7 DEF Pids
      <4> QED
        BY <1>3, <4>1, <4>2
    <3>4. CASE c \notin Range(q)
      <4>1. parent[c] # b /\ parent'[c] = parent[c]
        BY <1>7, <3>1, <3>2, <3>4
      <4>2. state'[parent[c]] = "live"
        BY <1>7, <3>2, <4>1
      <4>3. c \in Range(children'[parent[c]])
        <5>1. CASE parent[c] = INITPROC
          BY <1>5, <1>6, <3>2, <5>1 DEF s
        <5>2. CASE parent[c] # INITPROC
          BY <1>6, <3>2, <4>1, <5>2
        <5> QED
          BY <5>1, <5>2
      <4> QED
        BY <3>2, <4>1, <4>2, <4>3
    <3> QED
      BY <3>3, <3>4
  <2> QED
    BY <2>1, <2>2, <2>3 DEF Forest
<1>11. /\ DOMAIN pid2pcb' = DOMAIN pid2pcb \ {pid[b]}
       /\ \A n \in DOMAIN pid2pcb' : pid2pcb'[n] = pid2pcb[n]
  BY <1>1
<1>12. Pids'
  <2>1. \A c, d \in Existing' : pid'[c] = pid'[d] => c = d
    BY <1>1, <1>2, <1>8 DEF Pids
  <2>2. InUse(PID_ALLOCATOR', IDLE_PID) = {pid'[c] : c \in Existing'}
    <3>1. {pid'[c] : c \in Existing'} = {pid[c] : c \in Existing}
      BY <1>1, <1>8
    <3> QED
      BY <1>1, <1>2, <3>1 DEF Pids
  <2>3. ASSUME NEW c \in Pcbs
        PROVE  state'[c] = "live" <=> pid'[c] \in DOMAIN pid2pcb' /\ pid2pcb'[pid'[c]] = c
    <3>1. CASE c = b
      BY <1>1, <1>7, <1>11, <3>1
    <3>2. CASE c # b
      <4>1. state'[c] = state[c] /\ pid' = pid
        BY <1>1, <1>7, <3>2
      <4>2. state[c] = "live" <=> pid[c] \in DOMAIN pid2pcb /\ pid2pcb[pid[c]] = c
        BY <1>2 DEF Pids
      <4>3. state[c] = "live" => pid[c] # pid[b]
        BY <1>2, <1>8, <3>2 DEF Pids, Existing
      <4> QED
        BY <1>11, <4>1, <4>2, <4>3
    <3> QED
      BY <3>1, <3>2
  <2>4. state'[INITPROC] = "live" /\ pid'[INITPROC] = IDLE_PID
    BY <1>1, <1>2, <1>3, <1>4, <1>7 DEF Pids
  <2>5. \A n \in DOMAIN pid2pcb' : pid'[pid2pcb'[n]] = n
    BY <1>1, <1>2, <1>11 DEF Pids
  <2>6. AllocatorOK(PID_ALLOCATOR', IDLE_PID)
    BY <1>1, <1>2 DEF Pids
  <2> QED
    BY <2>1, <2>2, <2>3, <2>4, <2>5, <2>6 DEF Pids, IDLE_PID
<1>13. TreeTypeOK'
  <2>1. DOMAIN pid2pcb' \subseteq 1 .. MaxPid
    BY <1>2, <1>11 DEF TreeTypeOK
  <2>2. Range(pid2pcb') \subseteq Range(pid2pcb)
    BY <1>11 DEF Range
  <2>3. Range(pid2pcb') \subseteq Pcbs
    BY <1>2, <2>2 DEF TreeTypeOK
  <2> QED
    BY <1>1, <1>2, <1>4, <1>6, <1>7, <2>1, <2>3 DEF TreeTypeOK
<1> QED
  BY <1>1, <1>4, <1>10, <1>12, <1>13, TreeWhole

(* waitpid takes a zombie off the list and frees its pid, unless someone   *)
(* else refers to it.                                                      *)
LEMMA WaitpidKeeps ==
    ASSUME TreeInv, NEW b \in Pcbs, NEW who \in 0 .. MaxPid, sys_waitpid(b, who)
    PROVE  TreeInv'
<1> DEFINE a == PID_ALLOCATOR
<1>1. PICK i \in Reapable(b, who) :
         LET child == children[b][i] IN
         /\ Runs(b)
         /\ children' = [children EXCEPT ![b] = removed(children[b], i)]
         /\ IF OtherReferences(b, i)
            THEN halt' = "strong_count" /\ UNCHANGED <<state, PID_ALLOCATOR>>
            ELSE /\ state' = [state EXCEPT ![child] = "freed"]
                 /\ PID_ALLOCATOR' = dealloc(PID_ALLOCATOR, pid[child])
                 /\ halt' = IF CanDealloc(PID_ALLOCATOR, pid[child]) THEN halt
                            ELSE "deallocated twice"
         /\ UNCHANGED <<pid2pcb, pid, parent, reading>>
  BY DEF sys_waitpid
<1> DEFINE s == children[b]
           child == s[i]
           q == removed(s, i)
<1>2. /\ i \in DOMAIN s /\ state[child] = "zombie" /\ halt = "none" /\ state[b] = "live"
      /\ children' = [children EXCEPT ![b] = q]
      /\ pid2pcb' = pid2pcb /\ pid' = pid /\ parent' = parent /\ reading' = reading
  BY <1>1 DEF Reapable, Runs
<1>3. TreeTypeOK /\ Pids /\ Forest(children, parent, state)
  BY <1>2, TreeParts
<1>4. /\ pid \in [Pcbs -> 0 .. MaxPid] /\ children \in [Pcbs -> Seq(Pcbs)] /\ s \in Seq(Pcbs)
      /\ state \in [Pcbs -> {"unborn", "live", "zombie", "freed"}] /\ INITPROC \in Pcbs
  BY <1>3, ProcessTreeAssumption DEF TreeTypeOK
<1>5. /\ child \in Range(s) /\ Distinct(s) /\ child \in Alive(state) /\ child \in Pcbs
      /\ child # INITPROC /\ parent[child] = b
  <2>1. child \in Range(s)
    BY <1>2 DEF Range
  <2> QED
    BY <1>3, <2>1 DEF Forest, Alive
<1>6. q \in Seq(Pcbs) /\ Distinct(q) /\ Range(q) = Range(s) \ {child}
  <2> HIDE DEF s
  <2> QED
    BY <1>2, <1>4, <1>5, RemovedOf
<1> HIDE DEF q
<1>7. /\ children' \in [Pcbs -> Seq(Pcbs)] /\ children'[b] = q
      /\ \A o \in Pcbs : o # b => children'[o] = children[o]
  BY <1>2, <1>4, <1>6
<1>8. CASE OtherReferences(b, i)
  <2>1. halt' = "strong_count" /\ state' = state /\ a' = a
    BY <1>1, <1>8
  <2>2. TreeTypeOK'
    BY <1>2, <1>3, <1>7, <2>1 DEF TreeTypeOK
  <2>3. PidsExact /\ Existing' = Existing
    BY <2>1 DEF TreeInv, TreeExact, Existing
  <2>4. PidsExact'
    BY <1>2, <2>1, <2>3 DEF PidsExact
  <2> QED
    BY <2>1, <2>2, <2>4 DEF TreeInv, TreeExact
<1>9. CASE ~OtherReferences(b, i)
  <2> DEFINE id == pid[child]
  <2>1. /\ state' = [state EXCEPT ![child] = "freed"] /\ a' = dealloc(a, id)
        /\ halt' = IF CanDealloc(a, id) THEN halt ELSE "deallocated twice"
    BY <1>1, <1>9
  <2>2. /\ \A c \in Pcbs : state'[c] = IF c = child THEN "freed" ELSE state[c]
        /\ state' \in [Pcbs -> {"unborn", "live", "zombie", "freed"}]
    BY <1>4, <2>1
  <2> HIDE DEF child
  <2>3. /\ Existing' = Existing \ {child} /\ Alive(state') = Alive(state) \ {child}
        /\ Alive(state) = Existing /\ child \in Existing
    BY <1>5, <2>2 DEF Existing, Alive
  <2>4. /\ CanDealloc(a, id) /\ AllocatorOK(a', 1) /\ InUse(a', 1) = InUse(a, 1) \ {id}
        /\ Recycled(a') = Recycled(a) \cup {id} /\ id \in 1 .. MaxPid
    <3>1. AllocatorOK(a, 1) /\ 1 \in Nat /\ id \in InUse(a, 1) /\ id \in 0 .. MaxPid
      BY <1>3, <1>4, <1>5, <2>3 DEF Pids, IDLE_PID
    <3> HIDE DEF a, id
    <3>2. /\ CanDealloc(a, id) /\ AllocatorOK(dealloc(a, id), 1)
          /\ InUse(dealloc(a, id), 1) = InUse(a, 1) \ {id}
          /\ Recycled(dealloc(a, id)) = Recycled(a) \cup {id}
      BY <3>1, DeallocTakes
    <3>3. id \in 1 .. MaxPid
      <4>1. id \in 1 .. a.current - 1 /\ MaxPid \in Nat
        BY <3>1, ProcessTreeAssumption DEF InUse
      <4> QED
        BY <3>1, <4>1, SMT
    <3> QED
      BY <2>1, <3>2, <3>3
  <2>5. halt' = "none"
    BY <1>2, <2>1, <2>4
  <2>6. Forest(children', parent', state')
    <3>1. ASSUME NEW o \in Pcbs
          PROVE  Distinct(children'[o]) /\ Range(children'[o]) = Range(children[o]) \ {child}
      <4>1. CASE o = b
        BY <1>6, <1>7, <4>1
      <4>2. CASE o # b
        BY <1>3, <1>5, <1>7, <4>2, SMT DEF Forest
      <4> QED
        BY <4>1, <4>2
    <3>2. ASSUME NEW o \in Pcbs, NEW c \in Range(children'[o])
          PROVE  c \in Alive(state') /\ c # INITPROC /\ parent'[c] = o
      BY <1>2, <1>3, <2>3, <3>1, <3>2, SMT DEF Forest
    <3>3. ASSUME NEW c \in Alive(state'), c # INITPROC
          PROVE  /\ parent'[c] \in Pcbs /\ state'[parent'[c]] = "live"
                 /\ c \in Range(children'[parent'[c]])
      <4>1. c \in Alive(state) /\ c # child
        BY <2>3, <3>3
      <4>2. parent[c] \in Pcbs /\ state[parent[c]] = "live" /\ c \in Range(children[parent[c]])
        BY <1>3, <3>3, <4>1 DEF Forest
      <4>3. parent[c] # child
        BY <1>2, <4>2 DEF child
      <4>4. state'[parent[c]] = "live"
        BY <2>2, <4>2, <4>3
      <4> QED
        BY <1>2, <3>1, <4>1, <4>2, <4>4
    <3> QED
      BY <3>1, <3>2, <3>3 DEF Forest
  <2>7. Pids'
    <3>1. \A c, d \in Existing' : pid'[c] = pid'[d] => c = d
      BY <1>2, <1>3, <2>3 DEF Pids
    <3>2. InUse(a', IDLE_PID) = {pid'[c] : c \in Existing'}
      <4>1. InUse(a, 1) = {pid[c] : c \in Existing}
        BY <1>3 DEF Pids, IDLE_PID
      <4>2. \A c \in Existing : c # child => pid[c] # id
        BY <1>3, <2>3 DEF Pids
      <4>3. {pid'[c] : c \in Existing'} = {pid[c] : c \in Existing} \ {id}
        BY <1>2, <2>3, <4>2
      <4> QED
        BY <2>4, <4>1, <4>3 DEF IDLE_PID
    <3>3. ASSUME NEW c \in Pcbs
          PROVE  state'[c] = "live" <=> pid'[c] \in DOMAIN pid2pcb' /\ pid2pcb'[pid'[c]] = c
      <4>1. state'[c] = "live" <=> state[c] = "live"
        BY <1>2, <2>2 DEF child
      <4> QED
        BY <1>2, <1>3, <4>1 DEF Pids
    <3>4. state'[INITPROC] = "live" /\ pid'[INITPROC] = IDLE_PID
      BY <1>2, <1>3, <1>4, <1>5, <2>2 DEF Pids
    <3>5. \A n \in DOMAIN pid2pcb' : pid'[pid2pcb'[n]] = n
      BY <1>2, <1>3 DEF Pids
    <3> QED
      BY <2>4, <3>1, <3>2, <3>3, <3>4, <3>5 DEF Pids, IDLE_PID
  <2>8. a' \in [current : Nat, recycled : Seq(1 .. MaxPid)]
    <3>1. a' \in [current : Nat, recycled : Seq(Nat)]
      BY <2>4 DEF AllocatorOK
    <3>2. a \in [current : Nat, recycled : Seq(1 .. MaxPid)]
      BY <1>3 DEF TreeTypeOK
    <3>3. Recycled(a') \subseteq 1 .. MaxPid
      BY <2>4, <3>2, RecycledType
    <3> QED
      BY <3>1, <3>3, RecycledType
  <2>9. TreeTypeOK'
    BY <1>2, <1>3, <1>7, <2>2, <2>5, <2>8 DEF TreeTypeOK
  <2> QED
    BY <2>5, <2>6, <2>7, <2>9, TreeWhole
<1> QED
  BY <1>8, <1>9

(* The machine starts with INITPROC. *)
LEMMA TreeStart ==
    ASSUME TreeInit
    PROVE  TreeInv
<1>1. MaxPid \in Nat \ {0} /\ INITPROC \in Pcbs
  BY ProcessTreeAssumption
<1>2. PID_ALLOCATOR = [current |-> 2, recycled |-> << >>]
  BY SMT DEF TreeInit, allocated, new_start, IDLE_PID
<1>3. Recycled(PID_ALLOCATOR) = {} /\ InUse(PID_ALLOCATOR, 1) = {1}
  BY <1>2, SMT DEF Recycled, InUse
<1>4. AllocatorOK(PID_ALLOCATOR, 1)
  BY <1>2, <1>3, SMT DEF AllocatorOK, Distinct
<1>5. Existing = {INITPROC} /\ pid[INITPROC] = 1 /\ state[INITPROC] = "live" /\ halt = "none"
      /\ \A b \in Pcbs : state[b] = "live" <=> b = INITPROC
  BY <1>1 DEF TreeInit, Existing, IDLE_PID
<1>6. DOMAIN pid2pcb = {1} /\ pid2pcb[1] = INITPROC
  BY DEF TreeInit, IDLE_PID
<1>7. TreeTypeOK
  <2>1. << >> \in Seq(1 .. MaxPid) /\ << >> \in Seq(Pcbs)
    BY SMT
  <2>2. 1 \in 1 .. MaxPid /\ 1 \in 0 .. MaxPid /\ 0 \in 0 .. MaxPid
    BY <1>1, SMT
  <2>3. PID_ALLOCATOR \in [current : Nat, recycled : Seq(1 .. MaxPid)]
    BY <1>2, <2>1
  <2>4. DOMAIN pid2pcb \subseteq 1 .. MaxPid /\ Range(pid2pcb) \subseteq Pcbs
    BY <1>1, <1>6, <2>2 DEF Range
  <2>5. /\ pid \in [Pcbs -> 0 .. MaxPid] /\ children \in [Pcbs -> Seq(Pcbs)]
        /\ parent \in [Pcbs -> Pcbs \cup {NoPcb}]
    BY <2>1, <2>2 DEF TreeInit, IDLE_PID
  <2> QED
    BY <2>3, <2>4, <2>5 DEF TreeInit, TreeTypeOK
<1>8. PidsExact
  BY <1>3, <1>5, <1>6 DEF PidsExact, IDLE_PID
<1>9. \A b \in Pcbs : DOMAIN children[b] = {}
  BY SMT DEF TreeInit
<1>10. TreeExact
  BY <1>5, <1>7, <1>8, <1>9 DEF TreeExact
<1> QED
  BY <1>4, <1>5, <1>6, <1>10 DEF TreeInv, IDLE_PID

(* Every step of the processes keeps the invariant. *)
LEMMA TreeStep ==
    ASSUME TreeInv, [TreeNext]_treeVars
    PROVE  TreeInv'
<1>1. reading \subseteq Readers
  BY DEF TreeInv, TreeExact, TreeTypeOK
<1>2. CASE UNCHANGED treeVars
  BY <1>1, <1>2, TreeIdles DEF treeVars
<1>3. ASSUME NEW b \in Pcbs, NEW child \in Pcbs, fork(b, child) PROVE TreeInv'
  BY <1>3, ForkKeeps
<1>4. ASSUME NEW b \in Pcbs, ReadWaits(b) \/ ReadReturns(b) \/ ExitIdle(b) PROVE TreeInv'
  <2>1. /\ UNCHANGED <<PID_ALLOCATOR, pid2pcb, pid, parent, children, state>>
        /\ halt' \in {halt, "shutdown"} /\ reading' \subseteq Readers
    BY <1>1, <1>4 DEF ReadWaits, ReadReturns, ExitIdle
  <2> QED
    BY <2>1, TreeIdles
<1>5. ASSUME NEW b \in Pcbs, Exit(b) PROVE TreeInv'
  BY <1>5, ExitKeeps
<1>6. ASSUME NEW b \in Pcbs, NEW who \in 0 .. MaxPid, sys_waitpid(b, who) PROVE TreeInv'
  BY <1>6, WaitpidKeeps
<1> QED
  BY <1>2, <1>3, <1>4, <1>5, <1>6 DEF TreeNext

(* However many processes there are, and in whatever order they fork, exit *)
(* and wait, the children lists stay a forest under INITPROC that agrees   *)
(* with the parent pointers, a pid is never two processes', zombies        *)
(* included, and a lookup finds the running process that has it.           *)
THEOREM ProcessTreeExact == TreeSpec => []TreeExact
<1>1. TreeInit => TreeInv
  BY TreeStart
<1>2. TreeInv /\ [TreeNext]_treeVars => TreeInv'
  BY TreeStep
<1>3. TreeInv => TreeExact
  BY DEF TreeInv
<1> QED
  BY <1>1, <1>2, <1>3, PTL DEF TreeSpec
-----------------------------------------------------------------------------
(* Job control: the processes of JobControl, any number of jobs, with any  *)
(* words of signals.                                                       *)
CONSTANTS Jobs, Shell, pid_of, Two, MayExec, Flags, Keys

VARIABLES job_state, task, pgid, signals, sig_ignored, stopped, fg_pgrp

Job == INSTANCE JobControl WITH pid <- pid_of, state <- job_state

Stages == {"none", "fresh", "user", "call", "kernel", "Stopped", "resuming", "exited"}
Lives == {"unborn", "live", "zombie", "reaped"}

(* A process of one thread that is marked as stopped has that thread       *)
(* stopped, and no mark is left from before a process was started.         *)
ProcessOK(b, st, tk, mark) ==
    /\ st = "live" /\ (\E i \in Job!Tids : tk[i] = "Stopped") => mark
    /\ b \notin Two => tk[1] = "none" /\ (mark => st = "live" /\ tk[0] = "Stopped")
    /\ st = "unborn" => ~mark /\ \A i \in Job!Tids : tk[i] = "none"

(* The words of signals by which SIGINT reaches no process that ignores it. *)
PlainSigint == \A f \in Flags \cup Keys : "SIGINT" \in f => f \subseteq {"SIGINT", "SIGTSTP"}

ShellOK ==
    /\ sig_ignored[Shell] = {"SIGINT", "SIGTSTP"} /\ ~stopped[Shell]
    /\ PlainSigint => job_state[Shell] = "live" /\ "SIGINT" \notin signals[Shell]

ProcessesOK ==
    /\ job_state \in [Job!Procs -> Lives] /\ task \in [Job!Procs -> [Job!Tids -> Stages]]
    /\ stopped \in [Job!Procs -> BOOLEAN]
    /\ \A b \in Job!Procs : ProcessOK(b, job_state[b], task[b], stopped[b])

SignalsOK ==
    /\ pgid \in [Job!Procs -> Nat] /\ fg_pgrp \in Nat
    /\ signals \in [Job!Procs -> SUBSET Job!SIGNALS]
    /\ sig_ignored \in [Job!Procs -> SUBSET Job!SIGNALS]

JobIInv == ProcessesOK /\ SignalsOK /\ ShellOK

(* The end of a call leaves stopped threads alone. *)
LEMMA RetKeeps ==
    ASSUME NEW b, NEW st, NEW tk \in [Job!Tids -> Stages], NEW mark, ProcessOK(b, st, tk, mark)
    PROVE  Job!Ret(tk) \in [Job!Tids -> Stages] /\ ProcessOK(b, st, Job!Ret(tk), mark)
<1>1. /\ Job!Ret(tk) \in [Job!Tids -> Stages] /\ 0 \in Job!Tids /\ 1 \in Job!Tids
      /\ \A i \in Job!Tids : Job!Ret(tk)[i] = IF tk[i] = "call" THEN "kernel" ELSE tk[i]
  BY DEF Job!Ret, Stages, Job!Tids
<1> QED
  BY <1>1 DEF ProcessOK

(* A thread that is not stopped moves on. *)
LEMMA MoveKeeps ==
    ASSUME NEW b, NEW tk \in [Job!Tids -> Stages], NEW mark, ProcessOK(b, "live", tk, mark),
           NEW i \in Job!Tids, tk[i] \in {"fresh", "user", "call", "kernel", "resuming"},
           NEW to \in {"user", "call", "kernel"}
    PROVE  /\ [tk EXCEPT ![i] = to] \in [Job!Tids -> Stages]
           /\ ProcessOK(b, "live", [tk EXCEPT ![i] = to], mark)
<1>1. /\ [tk EXCEPT ![i] = to] \in [Job!Tids -> Stages] /\ [tk EXCEPT ![i] = to][i] = to
      /\ \A j \in Job!Tids : j # i => [tk EXCEPT ![i] = to][j] = tk[j]
  BY DEF Stages
<1>2. Job!Tids = {0, 1} /\ 0 # 1
  BY SMT DEF Job!Tids
<1>3. b \notin Two => i = 0 /\ ~mark
  BY <1>2 DEF ProcessOK
<1> QED
  BY <1>1, <1>2, <1>3 DEF ProcessOK

(* A thread that is not stopped ends, and the process with the first one. *)
LEMMA EndKeeps ==
    ASSUME NEW b, NEW tk \in [Job!Tids -> Stages], NEW mark, ProcessOK(b, "live", tk, mark),
           NEW i \in Job!Tids, tk[i] \in {"call", "kernel", "resuming"},
           NEW st, st = IF i = 0 THEN "zombie" ELSE "live"
    PROVE  /\ [tk EXCEPT ![i] = "exited"] \in [Job!Tids -> Stages] /\ st \in Lives
           /\ ProcessOK(b, st, [tk EXCEPT ![i] = "exited"], mark)
<1>1. /\ [tk EXCEPT ![i] = "exited"] \in [Job!Tids -> Stages] /\ [tk EXCEPT ![i] = "exited"][i] = "exited"
      /\ \A j \in Job!Tids : j # i => [tk EXCEPT ![i] = "exited"][j] = tk[j]
  BY DEF Stages
<1>2. Job!Tids = {0, 1} /\ 0 # 1 /\ st \in Lives /\ st # "unborn"
  BY SMT DEF Job!Tids, Lives
<1>3. b \notin Two => i = 0 /\ ~mark
  BY <1>2 DEF ProcessOK
<1> QED
  BY <1>1, <1>2, <1>3 DEF ProcessOK

(* The processes and signal words there are. *)
LEMMA JobConstants ==
    ASSUME Job!JobControlConstants
    PROVE  /\ Shell \in Job!Procs /\ Shell \notin Jobs /\ Jobs \subseteq Job!Procs /\ Two \subseteq Jobs
           /\ pid_of \in [Job!Procs -> Nat] /\ Job!Pids \subseteq Nat
           /\ Flags \subseteq SUBSET Job!SIGNALS /\ Keys \subseteq SUBSET Job!SIGNALS
<1>1. pid_of \in [Job!Procs -> Nat]
  BY DEF Job!JobControlConstants
<1> QED
  BY <1>1 DEF Job!JobControlConstants, Job!Procs, Job!Pids

(* One process changes. *)
LEMMA OneProcess ==
    ASSUME ProcessesOK, NEW b \in Job!Procs,
           NEW st \in Lives, NEW tk \in [Job!Tids -> Stages], NEW mark \in BOOLEAN,
           job_state' = [job_state EXCEPT ![b] = st], task' = [task EXCEPT ![b] = tk],
           stopped' = [stopped EXCEPT ![b] = mark], ProcessOK(b, st, tk, mark)
    PROVE  ProcessesOK'
<1>1. /\ job_state' \in [Job!Procs -> Lives] /\ task' \in [Job!Procs -> [Job!Tids -> Stages]]
      /\ stopped' \in [Job!Procs -> BOOLEAN]
  BY DEF ProcessesOK
<1>2. /\ job_state'[b] = st /\ task'[b] = tk /\ stopped'[b] = mark
      /\ \A c \in Job!Procs : c # b =>
            job_state'[c] = job_state[c] /\ task'[c] = task[c] /\ stopped'[c] = stopped[c]
  BY DEF ProcessesOK
<1>3. \A c \in Job!Procs : ProcessOK(c, job_state'[c], task'[c], stopped'[c])
  BY <1>2 DEF ProcessesOK
<1> QED
  BY <1>1, <1>3 DEF ProcessesOK

(* Its threads change only. *)
LEMMA OneTask ==
    ASSUME ProcessesOK, NEW b \in Job!Procs, NEW tk \in [Job!Tids -> Stages],
           task' = [task EXCEPT ![b] = tk], UNCHANGED <<job_state, stopped>>,
           ProcessOK(b, job_state[b], tk, stopped[b])
    PROVE  ProcessesOK'
<1>1. /\ job_state[b] \in Lives /\ stopped[b] \in BOOLEAN
      /\ job_state' = [job_state EXCEPT ![b] = job_state[b]]
      /\ stopped' = [stopped EXCEPT ![b] = stopped[b]]
  BY DEF ProcessesOK
<1> QED
  BY <1>1, OneProcess

(* A call that leaves the threads of other processes alone ends. *)
LEMMA CallEnds ==
    ASSUME ProcessesOK, NEW b \in Job!Procs,
           task' = [task EXCEPT ![b] = Job!Ret(@)], UNCHANGED <<job_state, stopped>>
    PROVE  ProcessesOK'
<1>1. task[b] \in [Job!Tids -> Stages] /\ ProcessOK(b, job_state[b], task[b], stopped[b])
  BY DEF ProcessesOK
<1>2. /\ Job!Ret(task[b]) \in [Job!Tids -> Stages]
      /\ ProcessOK(b, job_state[b], Job!Ret(task[b]), stopped[b])
  BY <1>1, RetKeeps
<1>3. task' = [task EXCEPT ![b] = Job!Ret(task[b])]
  OBVIOUS
<1> QED
  BY <1>2, <1>3, OneTask

(* add_signal_to_process: what the shell ignores does not reach it. *)
LEMMA DeliveredKeeps ==
    ASSUME Job!JobControlConstants, SignalsOK, ShellOK,
           NEW targets, NEW flag \in Flags \cup Keys,
           signals' = Job!Delivered(targets, flag),
           UNCHANGED <<pgid, sig_ignored, fg_pgrp>>,
           job_state'[Shell] = job_state[Shell], stopped'[Shell] = stopped[Shell]
    PROVE  SignalsOK' /\ ShellOK'
<1>1. Shell \in Job!Procs /\ flag \subseteq Job!SIGNALS
  BY JobConstants
<1>2. \A b \in Job!Procs : signals'[b] \in {signals[b], signals[b] \cup flag}
  BY DEF Job!Delivered
<1>3. signals' \in [Job!Procs -> SUBSET Job!SIGNALS]
  <2>1. \A b \in Job!Procs : signals[b] \subseteq Job!SIGNALS
    BY DEF SignalsOK
  <2>2. \A b \in Job!Procs : signals'[b] \subseteq Job!SIGNALS
    BY <1>1, <1>2, <2>1
  <2>3. signals' = [b \in Job!Procs |-> signals'[b]]
    BY DEF Job!Delivered
  <2> QED
    BY <2>2, <2>3
<1>4. ~(flag \subseteq sig_ignored[Shell]) \/ signals'[Shell] = signals[Shell]
  BY <1>1 DEF Job!Delivered
<1>5. ASSUME PlainSigint PROVE "SIGINT" \notin signals'[Shell]
  <2>1. "SIGINT" \notin signals[Shell] /\ sig_ignored[Shell] = {"SIGINT", "SIGTSTP"}
    BY <1>5 DEF ShellOK
  <2>2. "SIGINT" \in flag => flag \subseteq {"SIGINT", "SIGTSTP"}
    BY <1>5 DEF PlainSigint
  <2> QED
    BY <1>1, <1>2, <1>4, <2>1, <2>2
<1> QED
  BY <1>3, <1>5 DEF SignalsOK, ShellOK, PlainSigint

(* A thread that is not stopped takes a step of its own. *)
LEMMA MoveStep ==
    ASSUME ProcessesOK, NEW b \in Job!Procs, NEW i \in Job!Tids, job_state[b] = "live",
           task[b][i] \in {"fresh", "user", "call", "kernel", "resuming"},
           NEW to \in {"user", "call", "kernel"},
           task' = [task EXCEPT ![b][i] = to], UNCHANGED <<job_state, stopped>>
    PROVE  ProcessesOK'
<1>1. /\ task[b] \in [Job!Tids -> Stages] /\ stopped[b] \in BOOLEAN
      /\ ProcessOK(b, "live", task[b], stopped[b])
  BY DEF ProcessesOK
<1>2. /\ [task[b] EXCEPT ![i] = to] \in [Job!Tids -> Stages]
      /\ ProcessOK(b, "live", [task[b] EXCEPT ![i] = to], stopped[b])
  BY <1>1, MoveKeeps
<1>3. task' = [task EXCEPT ![b] = [task[b] EXCEPT ![i] = to]]
  BY SMT
<1> QED
  BY <1>2, <1>3, OneTask

(* exit_current_and_run_next of a thread that is not stopped. *)
LEMMA EndStep ==
    ASSUME ProcessesOK, NEW b \in Job!Procs, NEW i \in Job!Tids, job_state[b] = "live",
           task[b][i] \in {"call", "kernel", "resuming"},
           Job!ExitTask(b, i), UNCHANGED stopped
    PROVE  ProcessesOK'
<1> DEFINE tk == [task[b] EXCEPT ![i] = "exited"]
           st == IF i = 0 THEN "zombie" ELSE "live"
<1>1. /\ task[b] \in [Job!Tids -> Stages] /\ stopped[b] \in BOOLEAN
      /\ ProcessOK(b, "live", task[b], stopped[b]) /\ st \in Lives
  BY DEF ProcessesOK, Lives
<1>2. tk \in [Job!Tids -> Stages] /\ ProcessOK(b, st, tk, stopped[b])
  BY <1>1, EndKeeps
<1>3. task' = [task EXCEPT ![b] = tk] /\ job_state' = [job_state EXCEPT ![b] = st]
  BY SMT DEF Job!ExitTask
<1>4. stopped' = [stopped EXCEPT ![b] = stopped[b]]
  BY DEF ProcessesOK
<1> HIDE DEF tk, st
<1> QED
  BY <1>1, <1>2, <1>3, <1>4, OneProcess

(* Only processes and their threads change: what the signals say stays. *)
LEMMA SignalsStay ==
    ASSUME SignalsOK, ShellOK, UNCHANGED <<pgid, signals, sig_ignored, fg_pgrp>>,
           job_state'[Shell] = job_state[Shell], stopped'[Shell] = stopped[Shell]
    PROVE  SignalsOK' /\ ShellOK'
BY DEF SignalsOK, ShellOK, PlainSigint

(* sys_fork by the shell. *)
LEMMA JobForkKeeps ==
    ASSUME Job!JobControlConstants, JobIInv, NEW c \in Jobs, Job!fork(c)
    PROVE  JobIInv'
<1>1. /\ Shell \in Job!Procs /\ c \in Job!Procs /\ c # Shell /\ 0 \in Job!Tids
      /\ Job!Tids = {0, 1} /\ 0 # 1
  BY JobConstants, SMT DEF Job!Tids
<1>2. /\ task[c] \in [Job!Tids -> Stages] /\ task[Shell] \in [Job!Tids -> Stages]
      /\ job_state[c] = "unborn"
      /\ ProcessOK(c, "unborn", task[c], stopped[c])
      /\ ProcessOK(Shell, job_state[Shell], task[Shell], stopped[Shell])
  BY <1>1 DEF JobIInv, ProcessesOK, Job!fork
<1> DEFINE tk == [task[c] EXCEPT ![0] = "fresh"]
<1>3. tk \in [Job!Tids -> Stages] /\ ProcessOK(c, "live", tk, stopped[c])
  <2>1. /\ tk \in [Job!Tids -> Stages] /\ tk[0] = "fresh" /\ tk[1] = task[c][1]
    BY <1>1, <1>2, SMT DEF Stages
  <2> HIDE DEF tk
  <2> QED
    BY <1>1, <1>2, <2>1 DEF ProcessOK
<1>4. /\ Job!Ret(task[Shell]) \in [Job!Tids -> Stages]
      /\ ProcessOK(Shell, job_state[Shell], Job!Ret(task[Shell]), stopped[Shell])
  BY <1>2, RetKeeps
<1>5. /\ task' \in [Job!Procs -> [Job!Tids -> Stages]]
      /\ task'[c] = tk /\ task'[Shell] = Job!Ret(task[Shell])
      /\ \A b \in Job!Procs : b # c /\ b # Shell => task'[b] = task[b]
  <2>1. task' = [task EXCEPT ![c] = tk, ![Shell] = Job!Ret(task[Shell])]
    BY <1>1, SMT DEF Job!fork, JobIInv, ProcessesOK
  <2> HIDE DEF tk
  <2> QED
    BY <1>1, <1>3, <1>4, <2>1 DEF JobIInv, ProcessesOK
<1> HIDE DEF tk
<1>6. /\ job_state' \in [Job!Procs -> Lives] /\ job_state'[c] = "live" /\ stopped' = stopped
      /\ \A b \in Job!Procs : b # c => job_state'[b] = job_state[b]
  BY <1>1 DEF Job!fork, JobIInv, ProcessesOK, Lives
<1>7. \A b \in Job!Procs : ProcessOK(b, job_state'[b], task'[b], stopped'[b])
  BY <1>1, <1>3, <1>4, <1>5, <1>6 DEF JobIInv, ProcessesOK
<1>8. ProcessesOK'
  BY <1>5, <1>6, <1>7 DEF JobIInv, ProcessesOK
<1>9. /\ pgid' \in [Job!Procs -> Nat] /\ fg_pgrp' \in Nat
      /\ signals' \in [Job!Procs -> SUBSET Job!SIGNALS]
      /\ sig_ignored' \in [Job!Procs -> SUBSET Job!SIGNALS]
  BY <1>1 DEF Job!fork, JobIInv, SignalsOK
<1>10. sig_ignored'[Shell] = sig_ignored[Shell] /\ signals' = signals
  BY <1>1 DEF Job!fork, JobIInv, SignalsOK
<1>11. ShellOK'
  BY <1>1, <1>6, <1>10 DEF JobIInv, ShellOK, PlainSigint
<1> QED
  BY <1>8, <1>9, <1>11 DEF JobIInv, SignalsOK

(* sys_thread_create, by a job that has a second thread. *)
LEMMA ThreadCreateKeeps ==
    ASSUME Job!JobControlConstants, JobIInv, NEW b \in Job!Procs, Job!sys_thread_create(b)
    PROVE  JobIInv'
<1>1. Job!Tids = {0, 1} /\ 0 # 1 /\ 0 \in Job!Tids /\ 1 \in Job!Tids
  BY SMT DEF Job!Tids
<1>2. /\ task[b] \in [Job!Tids -> Stages] /\ job_state[b] = "live" /\ b \in Two
      /\ ProcessOK(b, job_state[b], task[b], stopped[b])
  BY DEF JobIInv, ProcessesOK, Job!sys_thread_create, Job!Calls
<1> DEFINE tr == Job!Ret(task[b])
           tk == [tr EXCEPT ![1] = "fresh"]
<1>3. tr \in [Job!Tids -> Stages] /\ ProcessOK(b, job_state[b], tr, stopped[b])
  BY <1>2, RetKeeps
<1> HIDE DEF tr
<1>4. tk \in [Job!Tids -> Stages] /\ tk[1] = "fresh" /\ tk[0] = tr[0]
  BY <1>1, <1>3, SMT DEF Stages
<1>5. task' = [task EXCEPT ![b] = tk] /\ UNCHANGED <<job_state, stopped>>
  BY DEF Job!sys_thread_create, tr
<1> HIDE DEF tk
<1>6. ProcessOK(b, job_state[b], tk, stopped[b])
  BY <1>1, <1>2, <1>3, <1>4 DEF ProcessOK
<1>7. ProcessesOK'
  BY <1>4, <1>5, <1>6, OneTask DEF JobIInv
<1> QED
  BY <1>7, SignalsStay DEF JobIInv, Job!sys_thread_create

(* sys_setpgid. *)
LEMMA SetpgidKeeps ==
    ASSUME Job!JobControlConstants, JobIInv, NEW b \in Job!Procs, NEW t \in Job!Procs,
           NEW g \in Job!Pids \cup {0}, Job!sys_setpgid(b, t, g)
    PROVE  JobIInv'
<1>1. ProcessesOK'
  BY CallEnds DEF JobIInv, Job!sys_setpgid
<1>2. (IF g = 0 THEN pid_of[t] ELSE g) \in Nat
  BY JobConstants, SMT
<1>3. pgid' \in [Job!Procs -> Nat]
  BY <1>2 DEF JobIInv, SignalsOK, Job!sys_setpgid
<1> QED
  BY <1>1, <1>3 DEF JobIInv, SignalsOK, ShellOK, PlainSigint, Job!sys_setpgid

(* sys_sigaction, of a job. *)
LEMMA SigactionKeeps ==
    ASSUME Job!JobControlConstants, JobIInv, NEW b \in Job!Procs, NEW f \in Keys,
           NEW ignore \in BOOLEAN, Job!sys_sigaction(b, f, ignore)
    PROVE  JobIInv'
<1>1. ProcessesOK'
  BY CallEnds DEF JobIInv, Job!sys_sigaction
<1>2. Shell \in Job!Procs /\ b # Shell /\ f \subseteq Job!SIGNALS
  BY JobConstants DEF Job!sys_sigaction
<1>3. sig_ignored' = [sig_ignored EXCEPT ![b] =
                        IF ignore THEN sig_ignored[b] \cup f ELSE sig_ignored[b] \ f]
  BY DEF Job!sys_sigaction
<1>4. (IF ignore THEN sig_ignored[b] \cup f ELSE sig_ignored[b] \ f) \in SUBSET Job!SIGNALS
  BY <1>2, SMT DEF JobIInv, SignalsOK
<1>5. sig_ignored' \in [Job!Procs -> SUBSET Job!SIGNALS] /\ sig_ignored'[Shell] = sig_ignored[Shell]
  BY <1>2, <1>3, <1>4 DEF JobIInv, SignalsOK
<1> QED
  BY <1>1, <1>5 DEF JobIInv, SignalsOK, ShellOK, PlainSigint, Job!sys_sigaction

(* sys_tcsetpgrp. *)
LEMMA TcsetpgrpKeeps ==
    ASSUME Job!JobControlConstants, JobIInv, NEW b \in Job!Procs, NEW g \in Job!Pids,
           Job!sys_tcsetpgrp(b, g)
    PROVE  JobIInv'
<1>1. ProcessesOK'
  BY CallEnds DEF JobIInv, Job!sys_tcsetpgrp
<1>2. g \in Nat
  BY JobConstants
<1> QED
  BY <1>1, <1>2 DEF JobIInv, SignalsOK, ShellOK, PlainSigint, Job!sys_tcsetpgrp

(* sys_exec: the caller is the only thread, so none is stopped. *)
LEMMA ExecKeeps ==
    ASSUME Job!JobControlConstants, JobIInv, NEW b \in Job!Procs, Job!exec(b)
    PROVE  JobIInv'
<1>1. Job!Tids = {0, 1} /\ 0 # 1
  BY SMT DEF Job!Tids
<1>2. /\ task[b] \in [Job!Tids -> Stages] /\ job_state[b] = "live" /\ job_state[b] \in Lives
      /\ ProcessOK(b, job_state[b], task[b], stopped[b])
  BY DEF JobIInv, ProcessesOK, Job!exec, Job!Calls
<1>3. task[b][0] = "call" /\ task[b][1] = "none"
  BY <1>1 DEF Job!exec, Job!Calls
<1>4. ProcessOK(b, job_state[b], task[b], FALSE)
  BY <1>1, <1>2, <1>3 DEF ProcessOK
<1>5. /\ Job!Ret(task[b]) \in [Job!Tids -> Stages]
      /\ ProcessOK(b, job_state[b], Job!Ret(task[b]), FALSE)
  BY <1>2, <1>4, RetKeeps
<1>6. /\ task' = [task EXCEPT ![b] = Job!Ret(task[b])] /\ stopped' = [stopped EXCEPT ![b] = FALSE]
      /\ job_state' = [job_state EXCEPT ![b] = job_state[b]]
  BY DEF Job!exec, JobIInv, ProcessesOK
<1>7. ProcessesOK'
  BY <1>2, <1>5, <1>6, OneProcess DEF JobIInv
<1>8. Shell \in Job!Procs /\ b # Shell
  BY JobConstants DEF Job!exec
<1>9. /\ signals' \in [Job!Procs -> SUBSET Job!SIGNALS] /\ signals'[Shell] = signals[Shell]
      /\ sig_ignored' \in [Job!Procs -> SUBSET Job!SIGNALS] /\ sig_ignored'[Shell] = sig_ignored[Shell]
      /\ stopped'[Shell] = stopped[Shell]
  BY <1>8 DEF Job!exec, JobIInv, SignalsOK, ProcessesOK
<1> QED
  BY <1>7, <1>9 DEF JobIInv, SignalsOK, ShellOK, PlainSigint, Job!exec

(* continue_process: every stopped thread of a process whose mark is taken *)
(* off goes on.                                                            *)
LEMMA ContinueKeeps ==
    ASSUME Job!JobControlConstants, JobIInv, NEW targets, Job!Continue(targets),
           UNCHANGED <<job_state, pgid, sig_ignored, fg_pgrp>>
    PROVE  JobIInv'
<1> DEFINE C == {c \in targets : stopped[c]}
<1>1. /\ stopped' = [c \in Job!Procs |-> stopped[c] /\ c \notin C]
      /\ signals' = [c \in Job!Procs |-> IF c \in C THEN signals[c] \ {"SIGCONT"} ELSE signals[c]]
      /\ task' = [c \in Job!Procs |-> Job!Ret(IF c \in C THEN Job!Resumed(c) ELSE task[c])]
  BY DEF Job!Continue
<1>2. \A c \in C : stopped[c]
  OBVIOUS
<1> HIDE DEF C
<1>3. ASSUME NEW c \in Job!Procs
      PROVE  /\ task'[c] \in [Job!Tids -> Stages] /\ stopped'[c] \in BOOLEAN
             /\ ProcessOK(c, job_state'[c], task'[c], stopped'[c])
  <2>1. /\ task[c] \in [Job!Tids -> Stages] /\ stopped[c] \in BOOLEAN
        /\ ProcessOK(c, job_state[c], task[c], stopped[c])
    BY <1>3 DEF JobIInv, ProcessesOK
  <2>2. stopped'[c] = (stopped[c] /\ c \notin C)
    BY <1>1, <1>3
  <2>3. CASE c \notin C
    <3>1. task'[c] = Job!Ret(task[c]) /\ stopped'[c] = stopped[c]
      BY <1>1, <1>3, <2>1, <2>2, <2>3
    <3> QED
      BY <2>1, <3>1, RetKeeps
  <2>4. CASE c \in C
    <3> DEFINE r == Job!Resumed(c)
    <3>1. task'[c] = Job!Ret(r) /\ stopped'[c] = FALSE
      BY <1>1, <1>3, <2>2, <2>4
    <3>2. /\ r \in [Job!Tids -> Stages] /\ 0 \in Job!Tids /\ 1 \in Job!Tids
          /\ \A i \in Job!Tids : r[i] = IF task[c][i] = "Stopped" THEN "resuming" ELSE task[c][i]
      BY <2>1 DEF Job!Resumed, Stages, Job!Tids
    <3> HIDE DEF r
    <3>3. stopped[c]
      BY <1>2, <2>4
    <3>4. ProcessOK(c, job_state[c], r, FALSE)
      BY <2>1, <3>2, <3>3 DEF ProcessOK
    <3> QED
      BY <3>1, <3>2, <3>4, RetKeeps
  <2> QED
    BY <2>3, <2>4
<1>4. ProcessesOK'
  <2>1. task' \in [Job!Procs -> [Job!Tids -> Stages]]
    BY <1>1, <1>3
  <2>2. stopped' \in [Job!Procs -> BOOLEAN]
    BY <1>1, <1>3
  <2> QED
    BY <1>3, <2>1, <2>2 DEF JobIInv, ProcessesOK
<1>5. ASSUME NEW c \in Job!Procs PROVE signals'[c] \subseteq signals[c]
  BY <1>1, <1>5
<1>6. signals' \in [Job!Procs -> SUBSET Job!SIGNALS]
  <2>1. ASSUME NEW c \in Job!Procs PROVE signals'[c] \in SUBSET Job!SIGNALS
    BY <1>5, <2>1 DEF JobIInv, SignalsOK
  <2> QED
    BY <1>1, <2>1
<1>7. Shell \in Job!Procs
  BY JobConstants
<1>8. ~stopped'[Shell] /\ signals'[Shell] \subseteq signals[Shell]
  BY <1>1, <1>5, <1>7 DEF JobIInv, ShellOK
<1> QED
  BY <1>4, <1>6, <1>8 DEF JobIInv, SignalsOK, ShellOK, PlainSigint

(* sys_kill. *)
LEMMA KillKeeps ==
    ASSUME Job!JobControlConstants, JobIInv, NEW b \in Job!Procs, NEW n, NEW f \in Flags,
           Job!sys_kill(b, n, f)
    PROVE  JobIInv'
<1>1. UNCHANGED <<job_state, pgid, sig_ignored, fg_pgrp>>
  BY DEF Job!sys_kill
<1>2. CASE f = {"SIGCONT"}
  <2>1. Job!Continue(Job!Targets(b, n))
    BY <1>2 DEF Job!sys_kill
  <2> QED
    BY <1>1, <2>1, ContinueKeeps
<1>3. CASE f # {"SIGCONT"}
  <2>1. /\ signals' = Job!Delivered(Job!Targets(b, n), f)
        /\ task' = [task EXCEPT ![b] = Job!Ret(@)] /\ UNCHANGED stopped
    BY <1>3 DEF Job!sys_kill
  <2>2. ProcessesOK'
    BY <1>1, <2>1, CallEnds DEF JobIInv
  <2>3. SignalsOK' /\ ShellOK'
    BY <1>1, <2>1, DeliveredKeeps DEF JobIInv
  <2> QED
    BY <2>2, <2>3 DEF JobIInv
<1> QED
  BY <1>2, <1>3

(* signal_fg, from the terminal. *)
LEMMA SignalFgKeeps ==
    ASSUME Job!JobControlConstants, JobIInv, NEW f \in Keys, Job!signal_fg(f)
    PROVE  JobIInv'
<1>1. ProcessesOK'
  BY DEF JobIInv, ProcessesOK, Job!signal_fg
<1>2. SignalsOK' /\ ShellOK'
  BY DeliveredKeeps DEF JobIInv, Job!signal_fg
<1> QED
  BY <1>1, <1>2 DEF JobIInv

(* A thread in user mode or in a call goes on. *)
LEMMA ThreadKeeps ==
    ASSUME Job!JobControlConstants, JobIInv, NEW b \in Job!Procs, NEW i \in Job!Tids,
           \/ Job!Start(b, i) \/ Job!Trap(b, i) \/ Job!SystemCall(b, i) \/ Job!OtherCall(b, i)
    PROVE  JobIInv'
<1>1. /\ job_state[b] = "live" /\ task[b][i] \in {"fresh", "user", "call", "kernel", "resuming"}
      /\ \E to \in {"user", "call", "kernel"} : task' = [task EXCEPT ![b][i] = to]
      /\ UNCHANGED <<job_state, pgid, signals, sig_ignored, stopped, fg_pgrp>>
  BY DEF Job!Start, Job!Trap, Job!SystemCall, Job!OtherCall
<1>2. PICK to \in {"user", "call", "kernel"} : task' = [task EXCEPT ![b][i] = to]
  BY <1>1
<1>3. ProcessesOK'
  BY <1>1, <1>2, MoveStep DEF JobIInv
<1> QED
  BY <1>1, <1>3, SignalsStay DEF JobIInv

(* sys_exit, of a job. *)
LEMMA JobExitKeeps ==
    ASSUME Job!JobControlConstants, JobIInv, NEW b \in Job!Procs, NEW i \in Job!Tids,
           Job!sys_exit(b, i)
    PROVE  JobIInv'
<1>1. Shell \in Job!Procs /\ b # Shell
  BY JobConstants DEF Job!sys_exit
<1>2. ProcessesOK'
  BY EndStep DEF JobIInv, Job!sys_exit
<1>3. job_state'[Shell] = job_state[Shell]
  BY <1>1 DEF Job!sys_exit, Job!ExitTask, JobIInv, ProcessesOK
<1> QED
  BY <1>2, <1>3, SignalsStay DEF JobIInv, Job!sys_exit

(* The tail of a trap after the look at SIGTSTP. *)
LEMMA TailKeeps ==
    ASSUME Job!JobControlConstants, JobIInv, NEW b \in Job!Procs, NEW i \in Job!Tids,
           job_state[b] = "live", task[b][i] \in {"kernel", "resuming"},
           NEW pending, pending \subseteq signals[b], Job!Tail(b, i, pending),
           UNCHANGED <<pgid, sig_ignored, stopped, fg_pgrp>>
    PROVE  JobIInv'
<1>1. ProcessesOK'
  <2>1. CASE "SIGINT" \in pending
    <3>1. Job!ExitTask(b, i)
      BY <2>1 DEF Job!Tail
    <3> QED
      BY <3>1, EndStep DEF JobIInv
  <2>2. CASE "SIGINT" \notin pending
    <3>1. task' = [task EXCEPT ![b][i] = "user"] /\ UNCHANGED job_state
      BY <2>2 DEF Job!Tail
    <3> QED
      BY <3>1, MoveStep DEF JobIInv
  <2> QED
    BY <2>1, <2>2
<1>2. signals' = [signals EXCEPT ![b] = pending \ {"SIGCONT"}]
  BY DEF Job!Tail
<1>3. Shell \in Job!Procs
  BY JobConstants
<1>4. /\ signals' \in [Job!Procs -> SUBSET Job!SIGNALS]
      /\ signals'[Shell] \subseteq signals[Shell]
  BY <1>2, <1>3, SMT DEF JobIInv, SignalsOK
<1>5. ASSUME PlainSigint PROVE job_state'[Shell] = "live"
  <2>1. job_state[Shell] = "live" /\ "SIGINT" \notin signals[Shell]
    BY <1>5 DEF JobIInv, ShellOK
  <2>2. CASE b = Shell
    <3>1. UNCHANGED job_state
      BY <2>1, <2>2 DEF Job!Tail
    <3> QED
      BY <2>1, <3>1
  <2>3. CASE b # Shell
    <3>1. job_state'[Shell] = job_state[Shell]
      BY <1>3, <2>3 DEF Job!Tail, Job!ExitTask, JobIInv, ProcessesOK
    <3> QED
      BY <2>1, <3>1
  <2> QED
    BY <2>2, <2>3
<1> QED
  BY <1>1, <1>4, <1>5 DEF JobIInv, SignalsOK, ShellOK, PlainSigint

(* stop_current: the mark and the thread change together; never the shell. *)
LEMMA TrapStopsKeeps ==
    ASSUME Job!JobControlConstants, JobIInv, NEW b \in Job!Procs, NEW i \in Job!Tids,
           Job!TrapStops(b, i)
    PROVE  JobIInv'
<1>1. Job!Tids = {0, 1} /\ 0 # 1
  BY SMT DEF Job!Tids
<1>2. /\ task[b] \in [Job!Tids -> Stages] /\ job_state[b] = "live" /\ job_state[b] \in Lives
      /\ ProcessOK(b, job_state[b], task[b], stopped[b]) /\ task[b][i] = "kernel"
  BY DEF JobIInv, ProcessesOK, Job!TrapStops
<1> DEFINE tk == [task[b] EXCEPT ![i] = "Stopped"]
<1>3. /\ tk \in [Job!Tids -> Stages] /\ tk[i] = "Stopped"
      /\ \A j \in Job!Tids : j # i => tk[j] = task[b][j]
  BY <1>2 DEF Stages
<1>4. task' = [task EXCEPT ![b] = tk]
  BY SMT DEF Job!TrapStops
<1>5. /\ stopped' = [stopped EXCEPT ![b] = TRUE]
      /\ job_state' = [job_state EXCEPT ![b] = job_state[b]]
  BY DEF Job!TrapStops, JobIInv, ProcessesOK
<1> HIDE DEF tk
<1>6. ProcessOK(b, job_state[b], tk, TRUE)
  <2>1. b \notin Two => i = 0
    BY <1>1, <1>2 DEF ProcessOK
  <2> QED
    BY <1>1, <1>2, <1>3, <2>1 DEF ProcessOK
<1>7. ProcessesOK'
  BY <1>2, <1>3, <1>4, <1>5, <1>6, OneProcess DEF JobIInv
<1>8. Shell \in Job!Procs /\ b # Shell
  BY JobConstants DEF Job!TrapStops, Job!Stops, JobIInv, ShellOK
<1>9. /\ signals' \in [Job!Procs -> SUBSET Job!SIGNALS] /\ signals'[Shell] = signals[Shell]
      /\ stopped'[Shell] = stopped[Shell]
  <2>1. signals' = [signals EXCEPT ![b] = signals[b] \ {"SIGTSTP"}]
    BY DEF Job!TrapStops
  <2>2. signals[b] \ {"SIGTSTP"} \in SUBSET Job!SIGNALS
    BY DEF JobIInv, SignalsOK
  <2>3. signals' \in [Job!Procs -> SUBSET Job!SIGNALS] /\ signals'[Shell] = signals[Shell]
    BY <1>8, <2>1, <2>2 DEF JobIInv, SignalsOK
  <2> QED
    BY <1>5, <1>8, <2>3 DEF JobIInv, ProcessesOK
<1> QED
  BY <1>7, <1>9 DEF JobIInv, SignalsOK, ShellOK, PlainSigint, Job!TrapStops

(* sys_waitpid by the shell of a job that has ended. *)
LEMMA JobWaitpidKeeps ==
    ASSUME Job!JobControlConstants, JobIInv, NEW c \in Jobs, Job!sys_waitpid(c)
    PROVE  JobIInv'
<1>1. /\ Shell \in Job!Procs /\ c \in Job!Procs /\ c # Shell /\ pid_of[Shell] \in Nat
      /\ 1 \in Job!Tids
  BY JobConstants, SMT DEF Job!Tids
<1> DEFINE tk == [i \in Job!Tids |-> "none"]
<1>2. /\ task[Shell] \in [Job!Tids -> Stages] /\ ~stopped[c]
      /\ ProcessOK(Shell, job_state[Shell], task[Shell], stopped[Shell])
  BY <1>1 DEF JobIInv, ProcessesOK, Job!sys_waitpid, Job!WaitResult
<1>3. tk \in [Job!Tids -> Stages] /\ \A i \in Job!Tids : tk[i] = "none"
  BY DEF Stages
<1> HIDE DEF tk
<1>4. ProcessOK(c, "reaped", tk, stopped[c])
  BY <1>1, <1>2, <1>3 DEF ProcessOK
<1>5. /\ Job!Ret(task[Shell]) \in [Job!Tids -> Stages]
      /\ ProcessOK(Shell, job_state[Shell], Job!Ret(task[Shell]), stopped[Shell])
  BY <1>2, RetKeeps
<1>6. task' = [task EXCEPT ![Shell] = Job!Ret(task[Shell]), ![c] = tk]
  BY DEF Job!sys_waitpid, tk
<1>7. /\ task' \in [Job!Procs -> [Job!Tids -> Stages]]
      /\ task'[c] = tk /\ task'[Shell] = Job!Ret(task[Shell])
      /\ \A b \in Job!Procs : b # c /\ b # Shell => task'[b] = task[b]
  BY <1>1, <1>3, <1>5, <1>6 DEF JobIInv, ProcessesOK
<1>8. /\ job_state' \in [Job!Procs -> Lives] /\ job_state'[c] = "reaped" /\ stopped' = stopped
      /\ \A b \in Job!Procs : b # c => job_state'[b] = job_state[b]
  BY <1>1 DEF Job!sys_waitpid, JobIInv, ProcessesOK, Lives
<1>9. \A b \in Job!Procs : ProcessOK(b, job_state'[b], task'[b], stopped'[b])
  BY <1>1, <1>4, <1>5, <1>7, <1>8 DEF JobIInv, ProcessesOK
<1>10. ProcessesOK'
  BY <1>7, <1>8, <1>9 DEF JobIInv, ProcessesOK
<1>11. /\ pgid' \in [Job!Procs -> Nat] /\ fg_pgrp' \in Nat
       /\ signals' \in [Job!Procs -> SUBSET Job!SIGNALS] /\ signals'[Shell] = signals[Shell]
       /\ sig_ignored' \in [Job!Procs -> SUBSET Job!SIGNALS]
       /\ sig_ignored'[Shell] = sig_ignored[Shell]
  BY <1>1 DEF Job!sys_waitpid, JobIInv, SignalsOK
<1>12. ShellOK'
  BY <1>1, <1>8, <1>11 DEF JobIInv, ShellOK, PlainSigint
<1> QED
  BY <1>10, <1>11, <1>12 DEF JobIInv, SignalsOK

(* Only the shell is there at first. *)
LEMMA JobInitKeeps ==
    ASSUME Job!JobControlConstants, Job!Init
    PROVE  JobIInv
<1>1. Shell \in Job!Procs /\ pid_of[Shell] \in Nat /\ 0 \in Job!Tids /\ 1 \in Job!Tids /\ 0 # 1
  BY JobConstants, SMT DEF Job!Tids
<1>2. /\ job_state \in [Job!Procs -> Lives] /\ task \in [Job!Procs -> [Job!Tids -> Stages]]
      /\ stopped \in [Job!Procs -> BOOLEAN]
  BY DEF Job!Init, Lives, Stages
<1>3. ASSUME NEW b \in Job!Procs
      PROVE  ProcessOK(b, job_state[b], task[b], stopped[b])
  <2>1. /\ job_state[b] = IF b = Shell THEN "live" ELSE "unborn"
        /\ \A i \in Job!Tids : task[b][i] = IF b = Shell /\ i = 0 THEN "user" ELSE "none"
        /\ stopped[b] = FALSE
    BY <1>3 DEF Job!Init
  <2> QED
    BY <1>1, <2>1 DEF ProcessOK
<1>4. ProcessesOK
  BY <1>2, <1>3 DEF ProcessesOK
<1>5. SignalsOK
  BY <1>1 DEF SignalsOK, Job!Init, Job!SIGNALS
<1>6. ShellOK
  BY <1>1 DEF ShellOK, Job!Init
<1> QED
  BY <1>4, <1>5, <1>6 DEF JobIInv

(* One step per operation. *)
LEMMA JobNextKeeps ==
    ASSUME Job!JobControlConstants, JobIInv, Job!Next \/ UNCHANGED Job!vars
    PROVE  JobIInv'
<1>1. ASSUME NEW c \in Jobs, Job!fork(c) \/ Job!sys_waitpid(c)
      PROVE  JobIInv'
  BY <1>1, JobForkKeeps, JobWaitpidKeeps
<1>2. ASSUME NEW b \in Job!Procs, Job!sys_thread_create(b) \/ Job!exec(b)
      PROVE  JobIInv'
  BY <1>2, ThreadCreateKeeps, ExecKeeps
<1>3. ASSUME NEW b \in Job!Procs, NEW t \in Job!Procs, NEW g \in Job!Pids \cup {0},
             Job!sys_setpgid(b, t, g)
      PROVE  JobIInv'
  BY <1>3, SetpgidKeeps
<1>4. ASSUME NEW b \in Job!Procs, NEW f \in Keys, NEW ignore \in BOOLEAN,
             Job!sys_sigaction(b, f, ignore)
      PROVE  JobIInv'
  BY <1>4, SigactionKeeps
<1>5. ASSUME NEW b \in Job!Procs, NEW g \in Job!Pids, Job!sys_tcsetpgrp(b, g)
      PROVE  JobIInv'
  BY <1>5, TcsetpgrpKeeps
<1>6. ASSUME NEW b \in Job!Procs, NEW f \in Flags, NEW n, Job!sys_kill(b, n, f)
      PROVE  JobIInv'
  BY <1>6, KillKeeps
<1>7. ASSUME NEW b \in Job!Procs, NEW i \in Job!Tids, Job!SystemCall(b, i) \/ Job!sys_exit(b, i)
      PROVE  JobIInv'
  BY <1>7, ThreadKeeps, JobExitKeeps
<1>8. ASSUME NEW b \in Job!Procs, NEW i \in Job!Tids, Job!Kernel(b, i)
      PROVE  JobIInv'
  <2>1. CASE Job!Start(b, i) \/ Job!Trap(b, i) \/ Job!OtherCall(b, i)
    BY <1>8, <2>1, ThreadKeeps
  <2>2. CASE Job!TrapReturns(b, i)
    <3>1. signals[b] \ {"SIGTSTP"} \subseteq signals[b]
      OBVIOUS
    <3> QED
      BY <1>8, <2>2, <3>1, TailKeeps DEF Job!TrapReturns
  <2>3. CASE Job!Resume(b, i)
    BY <1>8, <2>3, TailKeeps DEF Job!Resume
  <2>4. CASE Job!TrapStops(b, i)
    BY <1>8, <2>4, TrapStopsKeeps
  <2> QED
    BY <1>8, <2>1, <2>2, <2>3, <2>4 DEF Job!Kernel
<1>9. ASSUME NEW f \in Keys, Job!signal_fg(f)
      PROVE  JobIInv'
  BY <1>9, SignalFgKeeps
<1>10. CASE UNCHANGED Job!vars
  BY <1>10 DEF Job!vars, JobIInv, ProcessesOK, SignalsOK, ShellOK, PlainSigint
<1> QED
  BY <1>1, <1>2, <1>3, <1>4, <1>5, <1>6, <1>7, <1>8, <1>9, <1>10 DEF Job!Next

(* Any number of jobs with one thread or two, and any words of signals: no *)
(* thread is stopped where SIGCONT would not find it (stop_current and     *)
(* continue_process agree on the mark), a process of one thread that       *)
(* waitpid reports as stopped is stopped, and no signal the shell ignores  *)
(* ends or stops it.                                                       *)
THEOREM StopMarksAlwaysAgree ==
    Job!JobControlConstants => (Job!Spec => []Job!StopMarksAgree)
<1> SUFFICES ASSUME Job!JobControlConstants PROVE Job!Spec => []Job!StopMarksAgree
  OBVIOUS
<1>1. Job!Init => JobIInv
  BY JobInitKeeps
<1>2. JobIInv /\ [Job!Next]_(Job!vars) => JobIInv'
  BY JobNextKeeps
<1>3. JobIInv => Job!StopMarksAgree
  <2> SUFFICES ASSUME JobIInv PROVE Job!StopMarksAgree
    OBVIOUS
  <2>1. Job!JobTypeOK
    BY DEF JobIInv, ProcessesOK, SignalsOK, Job!JobTypeOK, Stages, Lives
  <2>2. Job!StoppedCanContinue
    BY DEF JobIInv, ProcessesOK, ProcessOK, Job!StoppedCanContinue
  <2>3. Job!StopStopsAll
    <3>1. Job!Tids = {0, 1}
      BY DEF Job!Tids
    <3> QED
      BY <3>1 DEF JobIInv, ProcessesOK, ProcessOK, Job!StopStopsAll
  <2>4. Job!ShellSurvives
    BY DEF JobIInv, ShellOK, PlainSigint, Job!ShellSurvives
  <2> QED
    BY <2>1, <2>2, <2>3, <2>4 DEF Job!StopMarksAgree
<1> QED
  BY <1>1, <1>2, <1>3, PTL DEF Job!Spec
=============================================================================
