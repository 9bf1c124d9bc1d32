-------------------------- MODULE SyncPrimsProofs --------------------------
(***************************************************************************)
(* Mutual exclusion, no lost wakeup, semaphores that count right and       *)
(* mutexes served in order, for any number of threads and objects and any  *)
(* program over them that unlocks, and waits with, only mutexes it holds.  *)
(***************************************************************************)
EXTENDS SyncPrims, FiniteSetTheorems, TLAPS

(* Zenon proves what needs no arithmetic; the other leaves cite SMT. *)
USE ZenonT(30)

SyncNext == \E t \in Threads : Call(t, Mutexes, Semaphores, Condvars) \/ Continue(t)

SyncSpec == SyncInit /\ [][SyncNext]_syncVars

(* The object of a call is of the kind the call is about. *)
CallHasObject ==
    \A t \in Threads : /\ call[t] \in {"lock", "spin", "wait"} => arg[t] \in Mutexes
                       /\ call[t] = "down" => arg[t] \in Semaphores

(* What makes mutual exclusion inductive: unlock hands the mutex to the    *)
(* first of its queue, so whoever is in that queue must be waiting for     *)
(* this mutex and no other; and a wakeup from a semaphore or a condition   *)
(* variable must not reach a thread that waits for a mutex.                *)
IInv == SyncTypeOK /\ CallHasObject /\ BlockedIffQueued /\ LockedMeansOneOwner
-----------------------------------------------------------------------------
(* A thread that is once in a queue is in it. *)
LEMMA OnceIn ==
    ASSUME NEW q, NEW t, Once(q, t)
    PROVE  In(q, t)
BY DEF Once, In

(* Nobody is in an empty queue. *)
LEMMA EmptyQueue ==
    ASSUME NEW t
    PROVE  ~In(<< >>, t)
BY SMT DEF In

(* push_back of a thread that is not in the queue. *)
LEMMA AppendOnce ==
    ASSUME NEW q \in Seq(Threads), NEW t \in Threads, ~In(q, t)
    PROVE  /\ Append(q, t) \in Seq(Threads)
           /\ Once(Append(q, t), t)
           /\ \A u \in Threads \ {t} : In(Append(q, t), u) <=> In(q, u)
           /\ \A u \in Threads \ {t} : Once(q, u) => Once(Append(q, t), u)
<1> DEFINE n == Len(q)
           Q == Append(q, t)
<1>1. n \in Nat /\ DOMAIN q = 1 .. n /\ Q \in Seq(Threads) /\ DOMAIN Q = 1 .. n + 1
  BY SMT
<1>2. Q[n + 1] = t /\ \A i \in 1 .. n : Q[i] = q[i]
  BY SMT
<1>3. \A i : i \in 1 .. n + 1 <=> i \in 1 .. n \/ i = n + 1
  BY <1>1, SMT
<1>4. \A i \in 1 .. n : q[i] # t
  BY <1>1 DEF In
<1> HIDE DEF n, Q
<1>5. Once(Q, t)
  BY <1>1, <1>2, <1>3, <1>4 DEF Once
<1>6. ASSUME NEW u \in Threads \ {t} PROVE In(Q, u) <=> In(q, u)
  BY <1>1, <1>2, <1>3 DEF In
<1>7. ASSUME NEW u \in Threads \ {t}, Once(q, u) PROVE Once(Q, u)
  BY <1>1, <1>2, <1>3, <1>7, SMT DEF Once
<1> QED
  BY <1>1, <1>5, <1>6, <1>7 DEF Q

(* pop_front: the first leaves the queue, nobody else does. *)
LEMMA RestOnce ==
    ASSUME NEW q \in Seq(Threads), q # << >>, Once(q, Head(q))
    PROVE  /\ Head(q) \in Threads /\ Rest(q) \in Seq(Threads)
           /\ ~In(Rest(q), Head(q))
           /\ \A u \in Threads \ {Head(q)} : In(Rest(q), u) <=> In(q, u)
           /\ \A u \in Threads \ {Head(q)} : Once(q, u) => Once(Rest(q), u)
<1> DEFINE n == Len(q)
           h == Head(q)
           R == Rest(q)
<1>1. n \in Nat \ {0} /\ DOMAIN q = 1 .. n /\ h = q[1] /\ h \in Threads
  BY SMT
<1>2. R = Tail(q) /\ R \in Seq(Threads) /\ DOMAIN R = 1 .. n - 1
  BY SMT DEF Rest
<1>3. \A i \in 1 .. n - 1 : i + 1 \in 1 .. n /\ R[i] = q[i + 1]
  BY <1>1, <1>2, SMT
<1>4. \A i \in 1 .. n : i = 1 \/ (i - 1 \in 1 .. n - 1 /\ (i - 1) + 1 = i)
  BY <1>1, SMT
<1>5. \A i, j \in 1 .. n - 1 : i + 1 = j + 1 => i = j
  BY <1>1, SMT
<1>6. \A i \in 1 .. n : q[i] = h => i = 1
  BY <1>1, SMT DEF Once
<1>7. \A i \in 1 .. n - 1 : i + 1 # 1
  BY <1>1, SMT
<1> HIDE DEF n, h, R
<1>8. ~In(R, h)
  BY <1>2, <1>3, <1>6, <1>7 DEF In
<1>9. ASSUME NEW u \in Threads \ {h} PROVE In(R, u) <=> In(q, u)
  <2>1. ASSUME NEW i \in 1 .. n - 1, R[i] = u PROVE In(q, u)
    BY <1>1, <1>3, <2>1 DEF In
  <2>2. ASSUME NEW i \in 1 .. n, q[i] = u PROVE In(R, u)
    <3>1. i - 1 \in 1 .. n - 1 /\ (i - 1) + 1 = i
      BY <1>1, <1>4, <2>2
    <3>2. R[i - 1] = u
      BY <1>3, <2>2, <3>1
    <3> QED
      BY <1>2, <3>1, <3>2 DEF In
  <2> QED
    BY <1>1, <1>2, <2>1, <2>2 DEF In
<1>10. ASSUME NEW u \in Threads \ {h}, Once(q, u) PROVE Once(R, u)
  <2>1. PICK i \in 1 .. n : q[i] = u /\ \A j \in 1 .. n : q[j] = u => j = i
    BY <1>1, <1>10 DEF Once
  <2>2. i - 1 \in 1 .. n - 1 /\ (i - 1) + 1 = i
    BY <1>1, <1>4, <2>1
  <2>3. R[i - 1] = u
    BY <1>3, <2>1, <2>2
  <2>4. \A j \in 1 .. n - 1 : R[j] = u => j = i - 1
    <3> SUFFICES ASSUME NEW j \in 1 .. n - 1, R[j] = u PROVE j = i - 1
      OBVIOUS
    <3>1. j + 1 = i
      BY <1>3, <2>1
    <3> QED
      BY <3>1, SMT
  <2>5. i - 1 \in DOMAIN R /\ \A j \in DOMAIN R : R[j] = u => j = i - 1
    BY <1>2, <2>2, <2>4
  <2> QED
    BY <2>3, <2>5 DEF Once
<1> QED
  BY <1>1, <1>2, <1>8, <1>9, <1>10 DEF h, R
-----------------------------------------------------------------------------
(* BlockedIffQueued for given queues (of mutexes, semaphores and condition *)
(* variables), states, calls and arguments, so that one action can be      *)
(* followed through several changes of them.                               *)
FitsTypes(mq, sq, cq, st, cl, ar) ==
    /\ mq \in [Mutexes -> Seq(Threads)] /\ sq \in [Semaphores -> Seq(Threads)]
    /\ cq \in [Condvars -> Seq(Threads)]
    /\ st \in [Threads -> {"Ready", "Blocked"}]
    /\ cl \in [Threads -> {"user", "lock", "spin", "down", "wait"}]
    /\ ar \in [Threads -> Mutexes \cup Semaphores \cup {NoObject}]

FitsMutexes(mq, st, cl, ar) == \A t \in Threads, m \in Mutexes :
    IF st[t] = "Blocked" /\ cl[t] = "lock" /\ ar[t] = m THEN Once(mq[m], t) ELSE ~In(mq[m], t)

FitsSemaphores(sq, st, cl, ar) == \A t \in Threads, s \in Semaphores :
    IF st[t] = "Blocked" /\ cl[t] = "down" /\ ar[t] = s THEN Once(sq[s], t) ELSE ~In(sq[s], t)

FitsCondvars(cq, st, cl) == \A t \in Threads :
    IF st[t] = "Blocked" /\ cl[t] = "wait"
    THEN \E c \in Condvars : Once(cq[c], t) /\ \A d \in Condvars \ {c} : ~In(cq[d], t)
    ELSE \A c \in Condvars : ~In(cq[c], t)

Fits(mq, sq, cq, st, cl, ar) ==
    /\ FitsTypes(mq, sq, cq, st, cl, ar)
    /\ FitsMutexes(mq, st, cl, ar) /\ FitsSemaphores(sq, st, cl, ar) /\ FitsCondvars(cq, st, cl)
    /\ \A t \in Threads : st[t] = "Blocked" => cl[t] \in {"lock", "down", "wait"}

mutexQueues == [m \in Mutexes |-> mutex[m].wait_queue]
semQueues == [s \in Semaphores |-> sem[s].wait_queue]

(* Fits is BlockedIffQueued. *)
LEMMA FitsIsBlockedIffQueued ==
    ASSUME SyncTypeOK
    PROVE  BlockedIffQueued <=> Fits(mutexQueues, semQueues, cond, status, call, arg)
<1>1. /\ mutexQueues \in [Mutexes -> Seq(Threads)]
      /\ semQueues \in [Semaphores -> Seq(Threads)]
      /\ \A m \in Mutexes : mutexQueues[m] = mutex[m].wait_queue
      /\ \A s \in Semaphores : semQueues[s] = sem[s].wait_queue
  BY DEF SyncTypeOK, mutexQueues, semQueues
<1> HIDE DEF mutexQueues, semQueues
<1> QED
  BY <1>1, SMT DEF SyncTypeOK, BlockedIffQueued, Waits, Fits, FitsTypes, FitsMutexes, FitsSemaphores,
              FitsCondvars

(* The same after a step. *)
LEMMA FitsIsBlockedIffQueuedNext ==
    ASSUME SyncTypeOK'
    PROVE  BlockedIffQueued' <=> Fits(mutexQueues', semQueues', cond', status', call', arg')
<1>1. /\ mutexQueues' \in [Mutexes -> Seq(Threads)]
      /\ semQueues' \in [Semaphores -> Seq(Threads)]
      /\ \A m \in Mutexes : mutexQueues'[m] = mutex'[m].wait_queue
      /\ \A s \in Semaphores : semQueues'[s] = sem'[s].wait_queue
  BY DEF SyncTypeOK, mutexQueues, semQueues
<1> HIDE DEF mutexQueues, semQueues
<1> QED
  BY <1>1, SMT DEF SyncTypeOK, BlockedIffQueued, Waits, Fits, FitsTypes, FitsMutexes, FitsSemaphores,
              FitsCondvars

(* The first of a mutex's queue is woken. *)
LEMMA WakeFromMutex ==
    ASSUME NEW mq, NEW sq, NEW cq, NEW st, NEW cl, NEW ar, Fits(mq, sq, cq, st, cl, ar),
           NEW m \in Mutexes, mq[m] # << >>
    PROVE  LET h == Head(mq[m]) IN
           /\ h \in Threads /\ st[h] = "Blocked" /\ cl[h] = "lock" /\ ar[h] = m
           /\ Fits([mq EXCEPT ![m] = Rest(@)], sq, cq, [st EXCEPT ![h] = "Ready"], cl, ar)
<1> DEFINE h == Head(mq[m])
           mq2 == [mq EXCEPT ![m] = Rest(@)]
           st2 == [st EXCEPT ![h] = "Ready"]
<1>1. mq[m] \in Seq(Threads) /\ h \in Threads /\ In(mq[m], h)
  <2>1. mq[m] \in Seq(Threads)
    BY DEF Fits, FitsTypes
  <2>2. 1 \in DOMAIN mq[m] /\ mq[m][1] = h /\ h \in Threads
    BY <2>1, SMT
  <2> QED
    BY <2>1, <2>2 DEF In
<1>2. st[h] = "Blocked" /\ cl[h] = "lock" /\ ar[h] = m /\ Once(mq[m], h)
  BY <1>1 DEF Fits, FitsMutexes
<1>3. /\ Rest(mq[m]) \in Seq(Threads) /\ ~In(Rest(mq[m]), h)
      /\ \A u \in Threads \ {h} : In(Rest(mq[m]), u) <=> In(mq[m], u)
      /\ \A u \in Threads \ {h} : Once(mq[m], u) => Once(Rest(mq[m]), u)
  BY <1>1, <1>2, RestOnce
<1>4. FitsTypes(mq2, sq, cq, st2, cl, ar)
  BY <1>1, <1>3 DEF Fits, FitsTypes
<1>5. mq2[m] = Rest(mq[m]) /\ \A n \in Mutexes \ {m} : mq2[n] = mq[n]
  BY <1>1 DEF Fits, FitsTypes
<1>6. st2[h] = "Ready" /\ \A u \in Threads \ {h} : st2[u] = st[u]
  BY <1>1 DEF Fits, FitsTypes
<1> HIDE DEF h, mq2, st2
<1>7. FitsMutexes(mq2, st2, cl, ar)
  <2> SUFFICES ASSUME NEW u \in Threads, NEW n \in Mutexes
               PROVE  IF st2[u] = "Blocked" /\ cl[u] = "lock" /\ ar[u] = n
                      THEN Once(mq2[n], u) ELSE ~In(mq2[n], u)
    BY DEF FitsMutexes
  <2>1. IF st[u] = "Blocked" /\ cl[u] = "lock" /\ ar[u] = n THEN Once(mq[n], u) ELSE ~In(mq[n], u)
    BY DEF Fits, FitsMutexes
  <2>2. CASE u = h
    BY <2>1, <2>2, <1>2, <1>3, <1>5, <1>6
  <2>3. CASE u # h
    BY <2>1, <2>3, <1>3, <1>5, <1>6
  <2> QED
    BY <2>2, <2>3
<1>8. FitsSemaphores(sq, st2, cl, ar)
  BY <1>2, <1>6 DEF Fits, FitsSemaphores
<1>9. FitsCondvars(cq, st2, cl)
  BY <1>2, <1>6 DEF Fits, FitsCondvars
<1>10. Fits(mq2, sq, cq, st2, cl, ar)
  BY <1>4, <1>6, <1>7, <1>8, <1>9 DEF Fits
<1> QED
  BY <1>1, <1>2, <1>10 DEF h, mq2, st2

(* The first of a semaphore's queue is woken. *)
LEMMA WakeFromSemaphore ==
    ASSUME NEW mq, NEW sq, NEW cq, NEW st, NEW cl, NEW ar, Fits(mq, sq, cq, st, cl, ar),
           NEW s \in Semaphores, sq[s] # << >>
    PROVE  LET h == Head(sq[s]) IN
           /\ h \in Threads /\ st[h] = "Blocked" /\ cl[h] = "down"
           /\ Fits(mq, [sq EXCEPT ![s] = Rest(@)], cq, [st EXCEPT ![h] = "Ready"], cl, ar)
<1> DEFINE h == Head(sq[s])
           sq2 == [sq EXCEPT ![s] = Rest(@)]
           st2 == [st EXCEPT ![h] = "Ready"]
<1>1. sq[s] \in Seq(Threads) /\ h \in Threads /\ In(sq[s], h)
  <2>1. sq[s] \in Seq(Threads)
    BY DEF Fits, FitsTypes
  <2>2. 1 \in DOMAIN sq[s] /\ sq[s][1] = h /\ h \in Threads
    BY <2>1, SMT
  <2> QED
    BY <2>1, <2>2 DEF In
<1>2. st[h] = "Blocked" /\ cl[h] = "down" /\ ar[h] = s /\ Once(sq[s], h)
  BY <1>1 DEF Fits, FitsSemaphores
<1>3. /\ Rest(sq[s]) \in Seq(Threads) /\ ~In(Rest(sq[s]), h)
      /\ \A u \in Threads \ {h} : In(Rest(sq[s]), u) <=> In(sq[s], u)
      /\ \A u \in Threads \ {h} : Once(sq[s], u) => Once(Rest(sq[s]), u)
  BY <1>1, <1>2, RestOnce
<1>4. FitsTypes(mq, sq2, cq, st2, cl, ar)
  BY <1>1, <1>3 DEF Fits, FitsTypes
<1>5. sq2[s] = Rest(sq[s]) /\ \A n \in Semaphores \ {s} : sq2[n] = sq[n]
  BY <1>1 DEF Fits, FitsTypes
<1>6. st2[h] = "Ready" /\ \A u \in Threads \ {h} : st2[u] = st[u]
  BY <1>1 DEF Fits, FitsTypes
<1> HIDE DEF h, sq2, st2
<1>7. FitsMutexes(mq, st2, cl, ar)
  BY <1>2, <1>6 DEF Fits, FitsMutexes
<1>8. FitsSemaphores(sq2, st2, cl, ar)
  <2> SUFFICES ASSUME NEW u \in Threads, NEW n \in Semaphores
               PROVE  IF st2[u] = "Blocked" /\ cl[u] = "down" /\ ar[u] = n
                      THEN Once(sq2[n], u) ELSE ~In(sq2[n], u)
    BY DEF FitsSemaphores
  <2>1. IF st[u] = "Blocked" /\ cl[u] = "down" /\ ar[u] = n THEN Once(sq[n], u) ELSE ~In(sq[n], u)
    BY DEF Fits, FitsSemaphores
  <2>2. CASE u = h
    BY <2>1, <2>2, <1>2, <1>3, <1>5, <1>6
  <2>3. CASE u # h
    BY <2>1, <2>3, <1>3, <1>5, <1>6
  <2> QED
    BY <2>2, <2>3
<1>9. FitsCondvars(cq, st2, cl)
  BY <1>2, <1>6 DEF Fits, FitsCondvars
<1>10. Fits(mq, sq2, cq, st2, cl, ar)
  BY <1>4, <1>6, <1>7, <1>8, <1>9 DEF Fits
<1> QED
  BY <1>1, <1>2, <1>10 DEF h, sq2, st2

(* The first of a condition variable's queue is woken. *)
LEMMA WakeFromCondvar ==
    ASSUME NEW mq, NEW sq, NEW cq, NEW st, NEW cl, NEW ar, Fits(mq, sq, cq, st, cl, ar),
           NEW c \in Condvars, cq[c] # << >>
    PROVE  LET h == Head(cq[c]) IN
           /\ h \in Threads /\ st[h] = "Blocked" /\ cl[h] = "wait"
           /\ Fits(mq, sq, [cq EXCEPT ![c] = Rest(@)], [st EXCEPT ![h] = "Ready"], cl, ar)
<1> DEFINE h == Head(cq[c])
           cq2 == [cq EXCEPT ![c] = Rest(@)]
           st2 == [st EXCEPT ![h] = "Ready"]
<1>1. cq[c] \in Seq(Threads) /\ h \in Threads /\ In(cq[c], h)
  <2>1. cq[c] \in Seq(Threads)
    BY DEF Fits, FitsTypes
  <2>2. 1 \in DOMAIN cq[c] /\ cq[c][1] = h /\ h \in Threads
    BY <2>1, SMT
  <2> QED
    BY <2>1, <2>2 DEF In
<1>2. st[h] = "Blocked" /\ cl[h] = "wait" /\ Once(cq[c], h)
  BY <1>1, OnceIn DEF Fits, FitsCondvars
<1>3. /\ Rest(cq[c]) \in Seq(Threads) /\ ~In(Rest(cq[c]), h)
      /\ \A u \in Threads \ {h} : In(Rest(cq[c]), u) <=> In(cq[c], u)
      /\ \A u \in Threads \ {h} : Once(cq[c], u) => Once(Rest(cq[c]), u)
  BY <1>1, <1>2, RestOnce
<1>4. FitsTypes(mq, sq, cq2, st2, cl, ar)
  BY <1>1, <1>3 DEF Fits, FitsTypes
<1>5. cq2[c] = Rest(cq[c]) /\ \A n \in Condvars \ {c} : cq2[n] = cq[n]
  BY <1>1 DEF Fits, FitsTypes
<1>6. st2[h] = "Ready" /\ \A u \in Threads \ {h} : st2[u] = st[u]
  BY <1>1 DEF Fits, FitsTypes
<1> HIDE DEF h, cq2, st2
<1>7. FitsMutexes(mq, st2, cl, ar)
  BY <1>2, <1>6 DEF Fits, FitsMutexes
<1>8. FitsSemaphores(sq, st2, cl, ar)
  BY <1>2, <1>6 DEF Fits, FitsSemaphores
<1>9. FitsCondvars(cq2, st2, cl)
  <2>1. ASSUME NEW u \in Threads \ {h}, st[u] = "Blocked" /\ cl[u] = "wait"
        PROVE  \E d \in Condvars : Once(cq2[d], u) /\ \A e \in Condvars \ {d} : ~In(cq2[e], u)
    <3>1. PICK d \in Condvars : Once(cq[d], u) /\ \A e \in Condvars \ {d} : ~In(cq[e], u)
      BY <2>1 DEF Fits, FitsCondvars
    <3>2. Once(cq2[d], u) /\ \A e \in Condvars \ {d} : ~In(cq2[e], u)
      BY <3>1, <1>3, <1>5
    <3> QED
      BY <3>2
  <2>2. ASSUME NEW u \in Threads \ {h}, ~(st[u] = "Blocked" /\ cl[u] = "wait"), NEW d \in Condvars
        PROVE  ~In(cq2[d], u)
    BY <2>2, <1>3, <1>5 DEF Fits, FitsCondvars
  <2>3. ASSUME NEW d \in Condvars PROVE ~In(cq2[d], h)
    <3>1. PICK e \in Condvars : \A f \in Condvars \ {e} : ~In(cq[f], h)
      BY <1>1, <1>2 DEF Fits, FitsCondvars
    <3>2. e = c
      BY <3>1, <1>1
    <3> QED
      BY <3>1, <3>2, <1>3, <1>5
  <2> QED
    BY <2>1, <2>2, <2>3, <1>6 DEF FitsCondvars
<1>10. Fits(mq, sq, cq2, st2, cl, ar)
  BY <1>4, <1>6, <1>7, <1>8, <1>9 DEF Fits
<1> QED
  BY <1>1, <1>2, <1>10 DEF h, cq2, st2

(* A thread that runs enters a mutex's queue and blocks. *)
LEMMA BlockOnMutex ==
    ASSUME NEW mq, NEW sq, NEW cq, NEW st, NEW cl, NEW ar, Fits(mq, sq, cq, st, cl, ar),
           NEW t \in Threads, st[t] = "Ready", NEW m \in Mutexes
    PROVE  Fits([mq EXCEPT ![m] = Append(@, t)], sq, cq,
                [st EXCEPT ![t] = "Blocked"], [cl EXCEPT ![t] = "lock"], [ar EXCEPT ![t] = m])
<1> DEFINE mq2 == [mq EXCEPT ![m] = Append(@, t)]
           st2 == [st EXCEPT ![t] = "Blocked"]
           cl2 == [cl EXCEPT ![t] = "lock"]
           ar2 == [ar EXCEPT ![t] = m]
<1>1. mq[m] \in Seq(Threads) /\ \A n \in Mutexes : ~In(mq[n], t)
  BY DEF Fits, FitsTypes, FitsMutexes
<1>2. /\ Append(mq[m], t) \in Seq(Threads) /\ Once(Append(mq[m], t), t)
      /\ \A u \in Threads \ {t} : In(Append(mq[m], t), u) <=> In(mq[m], u)
      /\ \A u \in Threads \ {t} : Once(mq[m], u) => Once(Append(mq[m], t), u)
  BY <1>1, AppendOnce
<1>3. FitsTypes(mq2, sq, cq, st2, cl2, ar2)
  BY <1>2 DEF Fits, FitsTypes
<1>4. mq2[m] = Append(mq[m], t) /\ \A n \in Mutexes \ {m} : mq2[n] = mq[n]
  BY DEF Fits, FitsTypes
<1>5. st2[t] = "Blocked" /\ cl2[t] = "lock" /\ ar2[t] = m
  BY DEF Fits, FitsTypes
<1>6. \A u \in Threads \ {t} : st2[u] = st[u] /\ cl2[u] = cl[u] /\ ar2[u] = ar[u]
  BY DEF Fits, FitsTypes
<1> HIDE DEF mq2, st2, cl2, ar2
<1>7. FitsMutexes(mq2, st2, cl2, ar2)
  <2> SUFFICES ASSUME NEW u \in Threads, NEW n \in Mutexes
               PROVE  IF st2[u] = "Blocked" /\ cl2[u] = "lock" /\ ar2[u] = n
                      THEN Once(mq2[n], u) ELSE ~In(mq2[n], u)
    BY DEF FitsMutexes
  <2>1. IF st[u] = "Blocked" /\ cl[u] = "lock" /\ ar[u] = n THEN Once(mq[n], u) ELSE ~In(mq[n], u)
    BY DEF Fits, FitsMutexes
  <2>2. CASE u = t
    BY <2>2, <1>1, <1>2, <1>4, <1>5
  <2>3. CASE u # t
    BY <2>1, <2>3, <1>2, <1>4, <1>6
  <2> QED
    BY <2>2, <2>3
<1>8. FitsSemaphores(sq, st2, cl2, ar2)
  BY <1>5, <1>6 DEF Fits, FitsSemaphores
<1>9. FitsCondvars(cq, st2, cl2)
  BY <1>5, <1>6 DEF Fits, FitsCondvars
<1>10. Fits(mq2, sq, cq, st2, cl2, ar2)
  BY <1>3, <1>5, <1>6, <1>7, <1>8, <1>9 DEF Fits
<1> QED
  BY <1>10 DEF mq2, st2, cl2, ar2

(* A thread that runs enters a semaphore's queue and blocks. *)
LEMMA BlockOnSemaphore ==
    ASSUME NEW mq, NEW sq, NEW cq, NEW st, NEW cl, NEW ar, Fits(mq, sq, cq, st, cl, ar),
           NEW t \in Threads, st[t] = "Ready", NEW s \in Semaphores
    PROVE  Fits(mq, [sq EXCEPT ![s] = Append(@, t)], cq,
                [st EXCEPT ![t] = "Blocked"], [cl EXCEPT ![t] = "down"], [ar EXCEPT ![t] = s])
<1> DEFINE sq2 == [sq EXCEPT ![s] = Append(@, t)]
           st2 == [st EXCEPT ![t] = "Blocked"]
           cl2 == [cl EXCEPT ![t] = "down"]
           ar2 == [ar EXCEPT ![t] = s]
<1>1. sq[s] \in Seq(Threads) /\ \A n \in Semaphores : ~In(sq[n], t)
  BY DEF Fits, FitsTypes, FitsSemaphores
<1>2. /\ Append(sq[s], t) \in Seq(Threads) /\ Once(Append(sq[s], t), t)
      /\ \A u \in Threads \ {t} : In(Append(sq[s], t), u) <=> In(sq[s], u)
      /\ \A u \in Threads \ {t} : Once(sq[s], u) => Once(Append(sq[s], t), u)
  BY <1>1, AppendOnce
<1>3. FitsTypes(mq, sq2, cq, st2, cl2, ar2)
  BY <1>2 DEF Fits, FitsTypes
<1>4. sq2[s] = Append(sq[s], t) /\ \A n \in Semaphores \ {s} : sq2[n] = sq[n]
  BY DEF Fits, FitsTypes
<1>5. st2[t] = "Blocked" /\ cl2[t] = "down" /\ ar2[t] = s
  BY DEF Fits, FitsTypes
<1>6. \A u \in Threads \ {t} : st2[u] = st[u] /\ cl2[u] = cl[u] /\ ar2[u] = ar[u]
  BY DEF Fits, FitsTypes
<1> HIDE DEF sq2, st2, cl2, ar2
<1>7. FitsMutexes(mq, st2, cl2, ar2)
  BY <1>5, <1>6 DEF Fits, FitsMutexes
<1>8. FitsSemaphores(sq2, st2, cl2, ar2)
  <2> SUFFICES ASSUME NEW u \in Threads, NEW n \in Semaphores
               PROVE  IF st2[u] = "Blocked" /\ cl2[u] = "down" /\ ar2[u] = n
                      THEN Once(sq2[n], u) ELSE ~In(sq2[n], u)
    BY DEF FitsSemaphores
  <2>1. IF st[u] = "Blocked" /\ cl[u] = "down" /\ ar[u] = n THEN Once(sq[n], u) ELSE ~In(sq[n], u)
    BY DEF Fits, FitsSemaphores
  <2>2. CASE u = t
    BY <2>2, <1>1, <1>2, <1>4, <1>5
  <2>3. CASE u # t
    BY <2>1, <2>3, <1>2, <1>4, <1>6
  <2> QED
    BY <2>2, <2>3
<1>9. FitsCondvars(cq, st2, cl2)
  BY <1>5, <1>6 DEF Fits, FitsCondvars
<1>10. Fits(mq, sq2, cq, st2, cl2, ar2)
  BY <1>3, <1>5, <1>6, <1>7, <1>8, <1>9 DEF Fits
<1> QED
  BY <1>10 DEF sq2, st2, cl2, ar2

(* A thread that runs enters a condition variable's queue and blocks. *)
LEMMA BlockOnCondvar ==
    ASSUME NEW mq, NEW sq, NEW cq, NEW st, NEW cl, NEW ar, Fits(mq, sq, cq, st, cl, ar),
           NEW t \in Threads, st[t] = "Ready", NEW c \in Condvars, NEW m \in Mutexes
    PROVE  Fits(mq, sq, [cq EXCEPT ![c] = Append(@, t)],
                [st EXCEPT ![t] = "Blocked"], [cl EXCEPT ![t] = "wait"], [ar EXCEPT ![t] = m])
<1> DEFINE cq2 == [cq EXCEPT ![c] = Append(@, t)]
           st2 == [st EXCEPT ![t] = "Blocked"]
           cl2 == [cl EXCEPT ![t] = "wait"]
           ar2 == [ar EXCEPT ![t] = m]
<1>1. cq[c] \in Seq(Threads) /\ \A n \in Condvars : ~In(cq[n], t)
  BY DEF Fits, FitsTypes, FitsCondvars
<1>2. /\ Append(cq[c], t) \in Seq(Threads) /\ Once(Append(cq[c], t), t)
      /\ \A u \in Threads \ {t} : In(Append(cq[c], t), u) <=> In(cq[c], u)
      /\ \A u \in Threads \ {t} : Once(cq[c], u) => Once(Append(cq[c], t), u)
  BY <1>1, AppendOnce
<1>3. FitsTypes(mq, sq, cq2, st2, cl2, ar2)
  BY <1>2 DEF Fits, FitsTypes
<1>4. cq2[c] = Append(cq[c], t) /\ \A n \in Condvars \ {c} : cq2[n] = cq[n]
  BY DEF Fits, FitsTypes
<1>5. st2[t] = "Blocked" /\ cl2[t] = "wait" /\ ar2[t] = m
  BY DEF Fits, FitsTypes
<1>6. \A u \in Threads \ {t} : st2[u] = st[u] /\ cl2[u] = cl[u] /\ ar2[u] = ar[u]
  BY DEF Fits, FitsTypes
<1> HIDE DEF cq2, st2, cl2, ar2
<1>7. FitsMutexes(mq, st2, cl2, ar2)
  BY <1>5, <1>6 DEF Fits, FitsMutexes
<1>8. FitsSemaphores(sq, st2, cl2, ar2)
  BY <1>5, <1>6 DEF Fits, FitsSemaphores
<1>9. FitsCondvars(cq2, st2, cl2)
  <2>1. ASSUME NEW u \in Threads \ {t}, st[u] = "Blocked" /\ cl[u] = "wait"
        PROVE  \E d \in Condvars : Once(cq2[d], u) /\ \A e \in Condvars \ {d} : ~In(cq2[e], u)
    <3>1. PICK d \in Condvars : Once(cq[d], u) /\ \A e \in Condvars \ {d} : ~In(cq[e], u)
      BY <2>1 DEF Fits, FitsCondvars
    <3>2. Once(cq2[d], u) /\ \A e \in Condvars \ {d} : ~In(cq2[e], u)
      BY <3>1, <1>2, <1>4
    <3> QED
      BY <3>2
  <2>2. ASSUME NEW u \in Threads \ {t}, ~(st[u] = "Blocked" /\ cl[u] = "wait"), NEW d \in Condvars
        PROVE  ~In(cq2[d], u)
    BY <2>2, <1>2, <1>4 DEF Fits, FitsCondvars
  <2>3. Once(cq2[c], t) /\ \A e \in Condvars \ {c} : ~In(cq2[e], t)
    BY <1>1, <1>2, <1>4
  <2> QED
    BY <2>1, <2>2, <2>3, <1>5, <1>6 DEF FitsCondvars
<1>10. Fits(mq, sq, cq2, st2, cl2, ar2)
  BY <1>3, <1>5, <1>6, <1>7, <1>8, <1>9 DEF Fits
<1> QED
  BY <1>10 DEF cq2, st2, cl2, ar2

(* A thread that runs goes on to another call, or to none. *)
LEMMA RunsOn ==
    ASSUME NEW mq, NEW sq, NEW cq, NEW st, NEW cl, NEW ar, Fits(mq, sq, cq, st, cl, ar),
           NEW t \in Threads, st[t] = "Ready", NEW k \in {"user", "spin"},
           NEW o \in Mutexes \cup Semaphores \cup {NoObject}
    PROVE  Fits(mq, sq, cq, st, [cl EXCEPT ![t] = k], [ar EXCEPT ![t] = o])
<1> DEFINE cl2 == [cl EXCEPT ![t] = k]
           ar2 == [ar EXCEPT ![t] = o]
<1>1. FitsTypes(mq, sq, cq, st, cl2, ar2)
  BY DEF Fits, FitsTypes
<1>2. \A u \in Threads : st[u] = "Blocked" => cl2[u] = cl[u] /\ ar2[u] = ar[u]
  BY DEF Fits, FitsTypes
<1> HIDE DEF cl2, ar2
<1>3. FitsMutexes(mq, st, cl2, ar2)
  BY <1>2 DEF Fits, FitsMutexes
<1>4. FitsSemaphores(sq, st, cl2, ar2)
  BY <1>2 DEF Fits, FitsSemaphores
<1>5. FitsCondvars(cq, st, cl2)
  BY <1>2 DEF Fits, FitsCondvars
<1>6. Fits(mq, sq, cq, st, cl2, ar2)
  BY <1>1, <1>2, <1>3, <1>4, <1>5 DEF Fits
<1> QED
  BY <1>6 DEF cl2, ar2
-----------------------------------------------------------------------------
(* The queues of a state that satisfies IInv. *)
LEMMA IInvFits ==
    ASSUME IInv
    PROVE  /\ Fits(mutexQueues, semQueues, cond, status, call, arg)
           /\ \A m \in Mutexes : mutexQueues[m] = mutex[m].wait_queue
           /\ \A s \in Semaphores : semQueues[s] = sem[s].wait_queue
BY FitsIsBlockedIffQueued DEF IInv, mutexQueues, semQueues

(* A step that changes no owner and no lock keeps mutual exclusion. *)
LEMMA OwnersKeep ==
    ASSUME IInv,
           \A n \in Mutexes : mutex'[n].locked = mutex[n].locked
                               /\ (~mutex[n].locked => mutex'[n].wait_queue = mutex[n].wait_queue),
           \A n \in Mutexes, u \in Threads : u \in Owners(n)' <=> u \in Owners(n)
    PROVE  LockedMeansOneOwner'
<1>1. ASSUME NEW n \in Mutexes PROVE Owners(n)' = Owners(n)
  <2>1. Owners(n) \subseteq Threads /\ Owners(n)' \subseteq Threads
    BY DEF Owners
  <2> QED
    BY <2>1
<1> QED
  BY <1>1 DEF IInv, LockedMeansOneOwner

(* Mutex::lock, from a system call, from wait_with_mutex or after a yield. *)
LEMMA LockKeeps ==
    ASSUME IInv, NEW t \in Threads, NEW m \in Mutexes, status[t] = "Ready", call[t] # "lock",
           lock(t, m), UNCHANGED <<sem, cond, passed>>
    PROVE  IInv'
<1>1. /\ Fits(mutexQueues, semQueues, cond, status, call, arg)
      /\ \A n \in Mutexes : mutexQueues[n] = mutex[n].wait_queue
  BY IInvFits
<1>2. semQueues' = semQueues
  BY DEF semQueues
<1>3. CASE ~mutex[m].locked
  <2>1. /\ mutex' = [mutex EXCEPT ![m].locked = TRUE] /\ status' = status
        /\ holds' = [holds EXCEPT ![t] = @ \cup {m}]
        /\ call' = [call EXCEPT ![t] = "user"] /\ arg' = [arg EXCEPT ![t] = NoObject]
    BY <1>3 DEF lock
  <2>2. SyncTypeOK'
    BY <2>1 DEF IInv, SyncTypeOK
  <2>3. CallHasObject'
    BY <2>1 DEF IInv, SyncTypeOK, CallHasObject
  <2>4. mutexQueues' = mutexQueues
    BY <2>1, SMT DEF mutexQueues, IInv, SyncTypeOK
  <2>5. Fits(mutexQueues', semQueues', cond', status', call', arg')
    BY <1>1, <1>2, <2>1, <2>4, RunsOn
  <2>6. BlockedIffQueued'
    BY <2>2, <2>5, FitsIsBlockedIffQueuedNext
  <2>7. \A n \in Mutexes, u \in Threads :
           u \in Owners(n)' <=> u \in Owners(n) \/ (n = m /\ u = t)
    BY <2>1 DEF Owners, IInv, SyncTypeOK
  <2>8. Owners(m)' = {t}
    BY <1>3, <2>7, SMT DEF Owners, IInv, LockedMeansOneOwner
  <2>9. ASSUME NEW n \in Mutexes \ {m} PROVE Owners(n)' = Owners(n)
    BY <2>7 DEF Owners
  <2>10. mutex'[m].locked /\ \A n \in Mutexes \ {m} : mutex'[n] = mutex[n]
    BY <2>1, SMT DEF IInv, SyncTypeOK
  <2>11. LockedMeansOneOwner'
    BY <2>8, <2>9, <2>10 DEF IInv, LockedMeansOneOwner
  <2> QED
    BY <2>2, <2>3, <2>6, <2>11 DEF IInv
<1>4. CASE mutex[m].locked /\ m \in Blocking
  <2>1. /\ mutex' = [mutex EXCEPT ![m].wait_queue = Append(@, t)] /\ holds' = holds
        /\ status' = [status EXCEPT ![t] = "Blocked"]
        /\ call' = [call EXCEPT ![t] = "lock"] /\ arg' = [arg EXCEPT ![t] = m]
    BY <1>4 DEF lock, Queued
  <2>a. mutex[m].wait_queue \in Seq(Threads) /\ Append(mutex[m].wait_queue, t) \in Seq(Threads)
    BY SMT DEF IInv, SyncTypeOK
  <2>b. /\ mutex' \in [Mutexes -> [locked : BOOLEAN, wait_queue : Seq(Threads)]]
        /\ mutex'[m].wait_queue = Append(mutex[m].wait_queue, t)
        /\ \A n \in Mutexes \ {m} : mutex'[n] = mutex[n]
    <3> DEFINE r == Append(mutex[m].wait_queue, t)
    <3> HIDE DEF r
    <3>1. mutex' = [mutex EXCEPT ![m].wait_queue = r]
      BY <2>1 DEF r
    <3>2. r \in Seq(Threads)
      BY <2>a DEF r
    <3> QED
      BY <3>1, <3>2 DEF IInv, SyncTypeOK, r
  <2>2. SyncTypeOK'
    BY <2>1, <2>b DEF IInv, SyncTypeOK
  <2>3. CallHasObject'
    BY <2>1 DEF IInv, SyncTypeOK, CallHasObject
  <2>4. mutexQueues' = [mutexQueues EXCEPT ![m] = Append(@, t)]
    BY <2>b DEF mutexQueues
  <2>5. Fits(mutexQueues', semQueues', cond', status', call', arg')
    BY <1>1, <1>2, <2>1, <2>4, BlockOnMutex
  <2>6. BlockedIffQueued'
    BY <2>2, <2>5, FitsIsBlockedIffQueuedNext
  <2>7. \A n \in Mutexes, u \in Threads : u \in Owners(n)' <=> u \in Owners(n)
    BY <2>1 DEF Owners, IInv, SyncTypeOK
  <2>8. \A n \in Mutexes : mutex'[n].locked = mutex[n].locked
                            /\ (~mutex[n].locked => mutex'[n].wait_queue = mutex[n].wait_queue)
    BY <1>4, <2>1 DEF IInv, SyncTypeOK
  <2> QED
    BY <2>2, <2>3, <2>6, <2>7, <2>8, OwnersKeep DEF IInv
<1>5. CASE mutex[m].locked /\ m \notin Blocking
  <2>1. /\ mutex' = mutex /\ holds' = holds /\ status' = status
        /\ call' = [call EXCEPT ![t] = "spin"] /\ arg' = [arg EXCEPT ![t] = m]
    BY <1>5 DEF lock
  <2>2. SyncTypeOK'
    BY <2>1 DEF IInv, SyncTypeOK
  <2>3. CallHasObject'
    BY <2>1 DEF IInv, SyncTypeOK, CallHasObject
  <2>4. mutexQueues' = mutexQueues
    BY <2>1 DEF mutexQueues
  <2>5. Fits(mutexQueues', semQueues', cond', status', call', arg')
    BY <1>1, <1>2, <2>1, <2>4, RunsOn
  <2>6. BlockedIffQueued'
    BY <2>2, <2>5, FitsIsBlockedIffQueuedNext
  <2>7. \A n \in Mutexes, u \in Threads : u \in Owners(n)' <=> u \in Owners(n)
    BY <2>1 DEF Owners, IInv, SyncTypeOK
  <2> QED
    BY <2>1, <2>2, <2>3, <2>6, <2>7, OwnersKeep DEF IInv
<1> QED
  BY <1>3, <1>4, <1>5

(* What unlock, alone or in wait_with_mutex, finds and does to the queues: *)
(* the caller is the owner, and the first waiter, if any, is woken.        *)
LEMMA HandOn ==
    ASSUME IInv, NEW t \in Threads, NEW m \in Mutexes, InUser(t), m \in holds[t]
    PROVE  LET q == mutex[m].wait_queue
               st == Woken(status, q) IN
           /\ \A u \in Threads : u \in Owners(m) <=> u = t
           /\ Fits([mutexQueues EXCEPT ![m] = Rest(@)], semQueues, cond, st, call, arg)
           /\ q # << >> => /\ Head(q) \in Threads \ {t} /\ status[Head(q)] = "Blocked"
                           /\ call[Head(q)] = "lock" /\ arg[Head(q)] = m
<1> DEFINE q == mutex[m].wait_queue
<1>1. /\ Fits(mutexQueues, semQueues, cond, status, call, arg) /\ mutexQueues[m] = q
  BY IInvFits
<1>2. \A u \in Threads : u \in Owners(m) <=> u = t
  <2>1. t \in Owners(m)
    BY DEF Owners
  <2> QED
    BY <2>1, SMT DEF IInv, LockedMeansOneOwner
<1>3. CASE q = << >>
  <2>1. [mutexQueues EXCEPT ![m] = Rest(@)] = mutexQueues
    BY <1>1, <1>3 DEF Rest, mutexQueues
  <2> QED
    BY <1>1, <1>2, <1>3, <2>1 DEF Woken
<1>4. CASE q # << >>
  <2>1. /\ Head(q) \in Threads /\ status[Head(q)] = "Blocked"
        /\ call[Head(q)] = "lock" /\ arg[Head(q)] = m
        /\ Fits([mutexQueues EXCEPT ![m] = Rest(@)], semQueues, cond,
                [status EXCEPT ![Head(q)] = "Ready"], call, arg)
    BY <1>1, <1>4, WakeFromMutex, SMT
  <2>2. Head(q) # t
    BY <2>1 DEF InUser
  <2> QED
    BY <1>2, <1>4, <2>1, <2>2 DEF Woken
<1> QED
  BY <1>3, <1>4

(* The mutex after unlock, and that the owner of every other one stays:    *)
(* the owner of m becomes the waiter it is handed to.                      *)
LEMMA HandOnOwner ==
    ASSUME IInv, NEW t \in Threads, NEW m \in Mutexes, InUser(t), m \in holds[t],
           mutex' = unlocked(m), holds' = [holds EXCEPT ![t] = @ \ {m}],
           \A u \in Threads \ {t} : /\ status'[u] = Woken(status, mutex[m].wait_queue)[u]
                                     /\ call'[u] = call[u] /\ arg'[u] = arg[u],
           call'[t] # "lock"
    PROVE  /\ mutex' \in [Mutexes -> [locked : BOOLEAN, wait_queue : Seq(Threads)]]
           /\ mutexQueues' = [mutexQueues EXCEPT ![m] = Rest(@)]
           /\ LockedMeansOneOwner'
           /\ \A n \in Mutexes \ {m} : mutex'[n] = mutex[n] /\ Owners(n)' = Owners(n)
           /\ IF mutex[m].wait_queue # << >> THEN Owners(m)' = {Head(mutex[m].wait_queue)}
              ELSE Owners(m)' = {}
<1> DEFINE q == mutex[m].wait_queue
           r == Rest(q)
<1>1. /\ \A u \in Threads : u \in Owners(m) <=> u = t
      /\ q # << >> => /\ Head(q) \in Threads \ {t} /\ status[Head(q)] = "Blocked"
                      /\ call[Head(q)] = "lock" /\ arg[Head(q)] = m
  BY HandOn
<1>2. q \in Seq(Threads) /\ r \in Seq(Threads) /\ (q = << >> => r = << >>)
  BY SMT DEF IInv, SyncTypeOK, Rest
<1>3. mutex' = [mutex EXCEPT ![m] = [locked |-> q # << >>, wait_queue |-> r]]
  BY DEF unlocked
<1>4. /\ status \in [Threads -> {"Ready", "Blocked"}] /\ call[t] = "user"
      /\ holds \in [Threads -> SUBSET Mutexes] /\ mutex \in [Mutexes -> [locked : BOOLEAN, wait_queue : Seq(Threads)]]
  BY DEF IInv, SyncTypeOK, InUser
<1>5. \A u \in Threads \ {t} :
        /\ q # << >> => status'[u] = IF u = Head(q) THEN "Ready" ELSE status[u]
        /\ q = << >> => status'[u] = status[u]
  BY <1>1, <1>4 DEF Woken
<1> HIDE DEF q, r
<1>6. /\ mutex' \in [Mutexes -> [locked : BOOLEAN, wait_queue : Seq(Threads)]]
      /\ mutex'[m].wait_queue = r /\ mutex'[m].locked = (q # << >>)
      /\ \A n \in Mutexes \ {m} : mutex'[n] = mutex[n]
  BY <1>2, <1>3, <1>4, SMT
<1>7. mutexQueues' = [mutexQueues EXCEPT ![m] = Rest(@)]
  BY <1>6 DEF mutexQueues, q, r
<1>8. ASSUME NEW u \in Threads PROVE u \in Owners(m)' <=> q # << >> /\ u = Head(q)
  <2>1. CASE u = t
    <3>1. m \notin holds'[t]
      BY <1>4
    <3> QED
      BY <1>1, <2>1, <3>1 DEF Owners
  <2>2. CASE u # t
    <3>1. u \notin Owners(m) /\ holds'[u] = holds[u]
      BY <1>1, <1>4, <2>2
    <3>2. m \notin holds'[u] /\ ~(status[u] = "Ready" /\ call[u] = "lock" /\ arg[u] = m)
      BY <3>1 DEF Owners
    <3>3. u \in Owners(m)' <=> status'[u] = "Ready" /\ call[u] = "lock" /\ arg[u] = m
      BY <2>2, <3>2 DEF Owners
    <3> QED
      BY <1>1, <1>5, <2>2, <3>2, <3>3
  <2> QED
    BY <2>1, <2>2
<1>9. ASSUME NEW n \in Mutexes \ {m} PROVE Owners(n)' = Owners(n)
  <2>1. ASSUME NEW u \in Threads PROVE u \in Owners(n)' <=> u \in Owners(n)
    <3>1. n \in holds'[u] <=> n \in holds[u]
      BY <1>4
    <3>2. CASE u = t
      BY <1>4, <3>1, <3>2 DEF Owners
    <3>3. CASE u # t
      <4>1. status'[u] = "Ready" /\ call[u] = "lock" /\ arg[u] = n
            <=> status[u] = "Ready" /\ call[u] = "lock" /\ arg[u] = n
        BY <1>1, <1>5, <3>3
      <4> QED
        BY <3>1, <3>3, <4>1 DEF Owners
    <3> QED
      BY <3>2, <3>3
  <2>2. Owners(n) \subseteq Threads /\ Owners(n)' \subseteq Threads
    BY DEF Owners
  <2> QED
    BY <2>1, <2>2
<1>10. IF q # << >> THEN Owners(m)' = {Head(q)} ELSE Owners(m)' = {}
  <2>1. Owners(m)' \subseteq Threads
    BY DEF Owners
  <2> QED
    BY <1>1, <1>8, <2>1
<1>11. LockedMeansOneOwner'
  <2> SUFFICES ASSUME NEW n \in Mutexes
               PROVE  IF mutex'[n].locked THEN \E u \in Threads : Owners(n)' = {u}
                      ELSE Owners(n)' = {} /\ mutex'[n].wait_queue = << >>
    BY DEF LockedMeansOneOwner
  <2>1. CASE n # m
    <3>1. Owners(n)' = Owners(n) /\ mutex'[n] = mutex[n]
      BY <2>1, <1>6, <1>9
    <3>2. IF mutex[n].locked THEN \E u \in Threads : Owners(n) = {u}
          ELSE Owners(n) = {} /\ mutex[n].wait_queue = << >>
      BY DEF IInv, LockedMeansOneOwner
    <3> QED
      BY <3>1, <3>2
  <2>2. CASE n = m /\ q = << >>
    BY <2>2, <1>2, <1>6, <1>10
  <2>3. CASE n = m /\ q # << >>
    BY <2>3, <1>1, <1>6, <1>10
  <2> QED
    BY <2>1, <2>2, <2>3
<1> QED
  BY <1>6, <1>7, <1>9, <1>10, <1>11 DEF q

(* sys_mutex_unlock. *)
LEMMA UnlockKeeps ==
    ASSUME IInv, NEW t \in Threads, NEW m \in Mutexes, sys_mutex_unlock(t, m)
    PROVE  IInv'
<1>1. /\ InUser(t) /\ m \in holds[t] /\ mutex' = unlocked(m)
      /\ status' = Woken(status, mutex[m].wait_queue) /\ holds' = [holds EXCEPT ![t] = @ \ {m}]
      /\ sem' = sem /\ cond' = cond /\ call' = call /\ arg' = arg /\ passed' = passed
  BY DEF sys_mutex_unlock
<1>2. Fits([mutexQueues EXCEPT ![m] = Rest(@)], semQueues, cond, status', call, arg)
  BY <1>1, HandOn
<1>3. /\ mutex' \in [Mutexes -> [locked : BOOLEAN, wait_queue : Seq(Threads)]]
      /\ mutexQueues' = [mutexQueues EXCEPT ![m] = Rest(@)]
      /\ LockedMeansOneOwner'
  <2>1. call'[t] # "lock"
    BY <1>1 DEF InUser
  <2> QED
    BY <1>1, <2>1, HandOnOwner
<1>4. SyncTypeOK'
  BY <1>1, <1>2, <1>3 DEF IInv, SyncTypeOK, Fits, FitsTypes
<1>5. CallHasObject'
  BY <1>1 DEF IInv, CallHasObject
<1>6. semQueues' = semQueues
  BY <1>1 DEF semQueues
<1>7. BlockedIffQueued'
  BY <1>1, <1>2, <1>3, <1>4, <1>6, FitsIsBlockedIffQueuedNext
<1> QED
  BY <1>3, <1>4, <1>5, <1>7 DEF IInv

(* sys_condvar_wait, up to the block. *)
LEMMA WaitKeeps ==
    ASSUME IInv, NEW t \in Threads, NEW c \in Condvars, NEW m \in Mutexes, sys_condvar_wait(t, c, m)
    PROVE  IInv'
<1> DEFINE st == Woken(status, mutex[m].wait_queue)
<1>1. /\ InUser(t) /\ m \in holds[t] /\ mutex' = unlocked(m)
      /\ cond' = [cond EXCEPT ![c] = Append(@, t)] /\ status' = [st EXCEPT ![t] = "Blocked"]
      /\ call' = [call EXCEPT ![t] = "wait"] /\ arg' = [arg EXCEPT ![t] = m]
      /\ holds' = [holds EXCEPT ![t] = @ \ {m}] /\ sem' = sem /\ passed' = passed
  BY DEF sys_condvar_wait
<1>2. Fits([mutexQueues EXCEPT ![m] = Rest(@)], semQueues, cond, st, call, arg)
  BY <1>1, HandOn
<1>3. st[t] = "Ready"
  <2>1. status \in [Threads -> {"Ready", "Blocked"}] /\ status[t] = "Ready"
    BY <1>1 DEF InUser, IInv, SyncTypeOK
  <2>2. mutex[m].wait_queue # << >> => Head(mutex[m].wait_queue) \in Threads \ {t}
    BY <1>1, HandOn
  <2> QED
    BY <2>1, <2>2 DEF Woken
<1> HIDE DEF st
<1>4. Fits([mutexQueues EXCEPT ![m] = Rest(@)], semQueues, cond', status', call', arg')
  BY <1>1, <1>2, <1>3, BlockOnCondvar
<1>5. /\ mutex' \in [Mutexes -> [locked : BOOLEAN, wait_queue : Seq(Threads)]]
      /\ mutexQueues' = [mutexQueues EXCEPT ![m] = Rest(@)]
      /\ LockedMeansOneOwner'
  <2>1. call'[t] # "lock"
    BY <1>1 DEF IInv, SyncTypeOK
  <2>2. \A u \in Threads \ {t} : status'[u] = st[u] /\ call'[u] = call[u] /\ arg'[u] = arg[u]
    BY <1>1, <1>2 DEF Fits, FitsTypes
  <2> QED
    BY <1>1, <2>1, <2>2, HandOnOwner DEF st
<1>6. SyncTypeOK'
  BY <1>1, <1>4, <1>5 DEF IInv, SyncTypeOK, Fits, FitsTypes
<1>7. CallHasObject'
  BY <1>1 DEF IInv, SyncTypeOK, CallHasObject
<1>8. semQueues' = semQueues
  BY <1>1 DEF semQueues
<1>9. BlockedIffQueued'
  BY <1>4, <1>5, <1>6, <1>8, FitsIsBlockedIffQueuedNext
<1> QED
  BY <1>5, <1>6, <1>7, <1>9 DEF IInv

(* A wakeup of a thread that does not wait for a mutex, or a new call of   *)
(* one, changes no owner.                                                  *)
LEMMA OtherCallKeepsOwners ==
    ASSUME IInv, mutex' = mutex, holds' = holds,
           \A u \in Threads : \/ status'[u] = status[u] /\ call'[u] = call[u] /\ arg'[u] = arg[u]
                              \/ call[u] # "lock" /\ call'[u] # "lock"
    PROVE  LockedMeansOneOwner'
<1>1. \A n \in Mutexes, u \in Threads : u \in Owners(n)' <=> u \in Owners(n)
  BY DEF Owners
<1> QED
  BY <1>1, OwnersKeep

(* sys_semaphore_up. *)
LEMMA UpKeeps ==
    ASSUME IInv, NEW t \in Threads, NEW s \in Semaphores, sys_semaphore_up(t, s)
    PROVE  IInv'
<1> DEFINE q == sem[s].wait_queue
           r == IF Wakes(s) THEN Rest(q) ELSE q
           k == sem[s].count + 1
<1>1. /\ sem' = [sem EXCEPT ![s] = [count |-> k, wait_queue |-> r]]
      /\ status' = IF Wakes(s) THEN Woken(status, q) ELSE status
      /\ passed' = [passed EXCEPT ![s] = @ - 1]
      /\ mutex' = mutex /\ cond' = cond /\ call' = call /\ arg' = arg /\ holds' = holds
  BY DEF sys_semaphore_up
<1>2. /\ Fits(mutexQueues, semQueues, cond, status, call, arg) /\ semQueues[s] = q
  BY IInvFits
<1>3. k \in Int /\ q \in Seq(Threads) /\ r \in Seq(Threads)
      /\ sem \in [Semaphores -> [count : Int, wait_queue : Seq(Threads)]]
  BY SMT DEF IInv, SyncTypeOK, Rest
<1>4. \/ r = q /\ status' = status
      \/ q # << >> /\ r = Rest(q) /\ status' = [status EXCEPT ![Head(q)] = "Ready"]
  BY <1>1 DEF Woken, Rest
<1> HIDE DEF q, r, k
<1>5. /\ sem' \in [Semaphores -> [count : Int, wait_queue : Seq(Threads)]]
      /\ sem'[s].wait_queue = r /\ \A n \in Semaphores \ {s} : sem'[n] = sem[n]
  BY <1>1, <1>3
<1>6. semQueues' = [semQueues EXCEPT ![s] = r] /\ mutexQueues' = mutexQueues
  BY <1>1, <1>5 DEF semQueues, mutexQueues
<1>7. CASE r = q /\ status' = status
  <2>1. semQueues' = semQueues
    BY <1>2, <1>6, <1>7 DEF Fits, FitsTypes
  <2>2. SyncTypeOK' /\ CallHasObject'
    <3>1. passed' \in [Semaphores -> Int]
      <4>1. passed \in [Semaphores -> Int]
        BY DEF IInv, SyncTypeOK
      <4> QED
        BY <1>1, <1>7, <4>1, SMT
    <3>2. SyncTypeOK'
      BY <1>1, <1>5, <1>7, <3>1 DEF IInv, SyncTypeOK
    <3>3. CallHasObject'
      BY <1>1, <1>7 DEF IInv, CallHasObject
    <3> QED
      BY <3>2, <3>3
  <2>3. BlockedIffQueued'
    BY <1>1, <1>2, <1>6, <1>7, <2>1, <2>2, FitsIsBlockedIffQueuedNext
  <2>4. LockedMeansOneOwner'
    BY <1>1, <1>7, OtherCallKeepsOwners
  <2> QED
    BY <2>2, <2>3, <2>4 DEF IInv
<1>8. CASE q # << >> /\ r = Rest(q) /\ status' = [status EXCEPT ![Head(q)] = "Ready"]
  <2>1. /\ Head(q) \in Threads /\ call[Head(q)] = "down"
        /\ Fits(mutexQueues, [semQueues EXCEPT ![s] = Rest(@)], cond,
                [status EXCEPT ![Head(q)] = "Ready"], call, arg)
    <3>1. /\ Head(semQueues[s]) \in Threads /\ call[Head(semQueues[s])] = "down"
          /\ Fits(mutexQueues, [semQueues EXCEPT ![s] = Rest(@)], cond,
                  [status EXCEPT ![Head(semQueues[s])] = "Ready"], call, arg)
      <4>1. Fits(mutexQueues, semQueues, cond, status, call, arg) /\ semQueues[s] # << >>
        BY <1>2, <1>8
      <4> QED
        BY <4>1, WakeFromSemaphore, SMT
    <3> QED
      BY <3>1, <1>2
  <2>2. Fits(mutexQueues', semQueues', cond', status', call', arg')
    BY <1>1, <1>2, <1>6, <1>8, <2>1
  <2>3. SyncTypeOK' /\ CallHasObject'
    <3>1. passed' \in [Semaphores -> Int]
      <4>1. passed \in [Semaphores -> Int]
        BY DEF IInv, SyncTypeOK
      <4> QED
        BY <1>1, <4>1, SMT
    <3>2. status' \in [Threads -> {"Ready", "Blocked"}]
      BY <2>2 DEF Fits, FitsTypes
    <3>3. SyncTypeOK'
      BY <1>1, <1>5, <3>1, <3>2 DEF IInv, SyncTypeOK
    <3>4. CallHasObject'
      BY <1>1 DEF IInv, CallHasObject
    <3> QED
      BY <3>3, <3>4
  <2>4. BlockedIffQueued'
    BY <2>2, <2>3, FitsIsBlockedIffQueuedNext
  <2>5. \A u \in Threads \ {Head(q)} : status'[u] = status[u]
    BY <1>8 DEF IInv, SyncTypeOK
  <2>6. LockedMeansOneOwner'
    BY <1>1, <2>1, <2>5, OtherCallKeepsOwners
  <2> QED
    BY <2>3, <2>4, <2>6 DEF IInv
<1> QED
  BY <1>4, <1>7, <1>8

(* sys_semaphore_down. *)
LEMMA DownKeeps ==
    ASSUME IInv, NEW t \in Threads, NEW s \in Semaphores, sys_semaphore_down(t, s)
    PROVE  IInv'
<1> DEFINE q == sem[s].wait_queue
           k == sem[s].count - 1
           r == IF k < 0 THEN Append(q, t) ELSE q
<1>1. /\ InUser(t) /\ sem' = [sem EXCEPT ![s] = [count |-> k, wait_queue |-> r]]
      /\ mutex' = mutex /\ cond' = cond /\ holds' = holds
  BY DEF sys_semaphore_down
<1>2. /\ Fits(mutexQueues, semQueues, cond, status, call, arg) /\ semQueues[s] = q
  BY IInvFits
<1>3. k \in Int /\ q \in Seq(Threads) /\ r \in Seq(Threads)
      /\ sem \in [Semaphores -> [count : Int, wait_queue : Seq(Threads)]]
  BY SMT DEF IInv, SyncTypeOK
<1>4. \/ /\ r = Append(q, t) /\ status' = [status EXCEPT ![t] = "Blocked"] /\ passed' = passed
         /\ call' = [call EXCEPT ![t] = "down"] /\ arg' = [arg EXCEPT ![t] = s]
      \/ /\ r = q /\ status' = status /\ call' = call /\ arg' = arg
         /\ passed' = [passed EXCEPT ![s] = @ + 1]
  BY DEF sys_semaphore_down
<1> HIDE DEF q, r, k
<1>5. /\ sem' \in [Semaphores -> [count : Int, wait_queue : Seq(Threads)]]
      /\ sem'[s].wait_queue = r /\ \A n \in Semaphores \ {s} : sem'[n] = sem[n]
  BY <1>1, <1>3
<1>6. semQueues' = [semQueues EXCEPT ![s] = r] /\ mutexQueues' = mutexQueues
  BY <1>1, <1>5 DEF semQueues, mutexQueues
<1>7. CASE /\ r = q /\ status' = status /\ call' = call /\ arg' = arg
           /\ passed' = [passed EXCEPT ![s] = @ + 1]
  <2>1. semQueues' = semQueues
    BY <1>2, <1>6, <1>7 DEF Fits, FitsTypes
  <2>2. SyncTypeOK' /\ CallHasObject'
    <3>1. passed' \in [Semaphores -> Int]
      <4>1. passed \in [Semaphores -> Int]
        BY DEF IInv, SyncTypeOK
      <4> QED
        BY <1>1, <1>7, <4>1, SMT
    <3>2. SyncTypeOK'
      BY <1>1, <1>5, <1>7, <3>1 DEF IInv, SyncTypeOK
    <3>3. CallHasObject'
      BY <1>1, <1>7 DEF IInv, CallHasObject
    <3> QED
      BY <3>2, <3>3
  <2>3. BlockedIffQueued'
    BY <1>1, <1>2, <1>6, <1>7, <2>1, <2>2, FitsIsBlockedIffQueuedNext
  <2>4. LockedMeansOneOwner'
    BY <1>1, <1>7, OtherCallKeepsOwners
  <2> QED
    BY <2>2, <2>3, <2>4 DEF IInv
<1>8. CASE /\ r = Append(q, t) /\ status' = [status EXCEPT ![t] = "Blocked"] /\ passed' = passed
           /\ call' = [call EXCEPT ![t] = "down"] /\ arg' = [arg EXCEPT ![t] = s]
  <2>1. status[t] = "Ready" /\ call[t] = "user"
    BY <1>1 DEF InUser
  <2>2. Fits(mutexQueues, [semQueues EXCEPT ![s] = Append(@, t)], cond, status', call', arg')
    BY <1>2, <1>8, <2>1, BlockOnSemaphore
  <2>3. Fits(mutexQueues', semQueues', cond', status', call', arg')
    BY <1>1, <1>2, <1>6, <1>8, <2>2
  <2>4. SyncTypeOK'
    BY <1>1, <1>5, <1>8, <2>3 DEF IInv, SyncTypeOK, Fits, FitsTypes
  <2>5. \A u \in Threads \ {t} : status'[u] = status[u] /\ call'[u] = call[u] /\ arg'[u] = arg[u]
    BY <1>8 DEF IInv, SyncTypeOK
  <2>6. call'[t] = "down" /\ arg'[t] = s
    BY <1>8 DEF IInv, SyncTypeOK
  <2>7. CallHasObject'
    BY <2>5, <2>6 DEF IInv, CallHasObject
  <2>8. BlockedIffQueued'
    BY <2>3, <2>4, FitsIsBlockedIffQueuedNext
  <2>9. LockedMeansOneOwner'
    BY <1>1, <2>1, <2>5, <2>6, OtherCallKeepsOwners
  <2> QED
    BY <2>4, <2>7, <2>8, <2>9 DEF IInv
<1> QED
  BY <1>4, <1>7, <1>8

(* sys_condvar_signal. *)
LEMMA SignalKeeps ==
    ASSUME IInv, NEW t \in Threads, NEW c \in Condvars, sys_condvar_signal(t, c)
    PROVE  IInv'
<1>1. /\ cond' = [cond EXCEPT ![c] = Rest(@)] /\ status' = Woken(status, cond[c])
      /\ mutex' = mutex /\ sem' = sem /\ call' = call /\ arg' = arg
      /\ holds' = holds /\ passed' = passed
  BY DEF sys_condvar_signal
<1>2. Fits(mutexQueues, semQueues, cond, status, call, arg)
  BY IInvFits
<1>3. semQueues' = semQueues /\ mutexQueues' = mutexQueues
  BY <1>1 DEF semQueues, mutexQueues
<1>4. CallHasObject'
  BY <1>1 DEF IInv, CallHasObject
<1>5. CASE cond[c] = << >>
  <2>1. cond' = cond /\ status' = status
    BY <1>1, <1>2, <1>5 DEF Rest, Woken, Fits, FitsTypes
  <2>2. SyncTypeOK'
    BY <1>1, <2>1 DEF IInv, SyncTypeOK
  <2>3. BlockedIffQueued'
    BY <1>1, <1>2, <1>3, <2>1, <2>2, FitsIsBlockedIffQueuedNext
  <2>4. LockedMeansOneOwner'
    BY <1>1, <2>1, OtherCallKeepsOwners
  <2> QED
    BY <1>4, <2>2, <2>3, <2>4 DEF IInv
<1>6. CASE cond[c] # << >>
  <2>1. status' = [status EXCEPT ![Head(cond[c])] = "Ready"]
    BY <1>1, <1>6 DEF Woken
  <2>2. /\ Head(cond[c]) \in Threads /\ call[Head(cond[c])] = "wait"
        /\ Fits(mutexQueues, semQueues, [cond EXCEPT ![c] = Rest(@)],
                [status EXCEPT ![Head(cond[c])] = "Ready"], call, arg)
    BY <1>2, <1>6, WakeFromCondvar, SMT
  <2>3. Fits(mutexQueues', semQueues', cond', status', call', arg')
    BY <1>1, <1>3, <2>1, <2>2
  <2>4. SyncTypeOK'
    BY <1>1, <2>3 DEF IInv, SyncTypeOK, Fits, FitsTypes
  <2>5. BlockedIffQueued'
    BY <2>3, <2>4, FitsIsBlockedIffQueuedNext
  <2>6. \A u \in Threads \ {Head(cond[c])} : status'[u] = status[u]
    BY <2>1 DEF IInv, SyncTypeOK
  <2>7. LockedMeansOneOwner'
    BY <1>1, <2>2, <2>6, OtherCallKeepsOwners
  <2> QED
    BY <1>4, <2>4, <2>5, <2>7 DEF IInv
<1> QED
  BY <1>5, <1>6

(* The return of a woken lock or down. *)
LEMMA ReturnKeeps ==
    ASSUME IInv, NEW t \in Threads, Return(t)
    PROVE  IInv'
<1>1. /\ status[t] = "Ready" /\ call[t] \in {"lock", "down"}
      /\ call' = [call EXCEPT ![t] = "user"] /\ arg' = [arg EXCEPT ![t] = NoObject]
      /\ mutex' = mutex /\ sem' = sem /\ cond' = cond /\ status' = status
  BY DEF Return
<1>2. \/ /\ call[t] = "lock" /\ arg[t] \in Mutexes /\ passed' = passed
         /\ holds' = [holds EXCEPT ![t] = @ \cup {arg[t]}]
      \/ /\ call[t] = "down" /\ arg[t] \in Semaphores /\ holds' = holds
         /\ passed' = [passed EXCEPT ![arg[t]] = @ + 1]
  BY <1>1 DEF Return, IInv, CallHasObject
<1>3. SyncTypeOK'
  <2>1. holds \in [Threads -> SUBSET Mutexes] /\ passed \in [Semaphores -> Int]
    BY DEF IInv, SyncTypeOK
  <2>2. holds' \in [Threads -> SUBSET Mutexes]
    BY <1>2, <2>1
  <2>3. ASSUME call[t] = "down" PROVE passed' \in [Semaphores -> Int]
    <3>1. arg[t] \in Semaphores /\ passed' = [passed EXCEPT ![arg[t]] = passed[arg[t]] + 1]
      BY <1>2, <2>3
    <3>2. passed[arg[t]] + 1 \in Int
      BY <3>1, <2>1, SMT
    <3> QED
      BY <3>1, <3>2, <2>1
  <2>4. passed' \in [Semaphores -> Int]
    BY <1>2, <2>1, <2>3
  <2> QED
    BY <1>1, <2>2, <2>4 DEF IInv, SyncTypeOK
<1>4. CallHasObject'
  BY <1>1 DEF IInv, SyncTypeOK, CallHasObject
<1>5. semQueues' = semQueues /\ mutexQueues' = mutexQueues
  BY <1>1 DEF semQueues, mutexQueues
<1>6. Fits(mutexQueues', semQueues', cond', status', call', arg')
  BY <1>1, <1>5, IInvFits, RunsOn
<1>7. BlockedIffQueued'
  BY <1>3, <1>6, FitsIsBlockedIffQueuedNext
<1>8. \A n \in Mutexes, u \in Threads : u \in Owners(n)' <=> u \in Owners(n)
  BY <1>1, <1>2, SMT DEF Owners, IInv, SyncTypeOK
<1>9. LockedMeansOneOwner'
  BY <1>1, <1>8, OwnersKeep
<1> QED
  BY <1>3, <1>4, <1>7, <1>9 DEF IInv
-----------------------------------------------------------------------------
(* At the start all queues are empty and nothing is locked. *)
LEMMA InitKeeps == SyncInit => IInv
<1> SUFFICES ASSUME SyncInit PROVE IInv
  OBVIOUS
<1>1. SyncTypeOK
  BY SyncAssumption, SMTT(30) DEF SyncInit, SyncTypeOK
<1>2. CallHasObject
  BY DEF SyncInit, CallHasObject
<1>3. BlockedIffQueued
  BY EmptyQueue DEF SyncInit, BlockedIffQueued, Waits
<1>4. LockedMeansOneOwner
  BY DEF SyncInit, LockedMeansOneOwner, Owners
<1> QED
  BY <1>1, <1>2, <1>3, <1>4 DEF IInv

(* Every step keeps IInv. *)
LEMMA NextKeeps == IInv /\ [SyncNext]_syncVars => IInv'
<1> SUFFICES ASSUME IInv, [SyncNext]_syncVars PROVE IInv'
  OBVIOUS
<1>1. CASE UNCHANGED syncVars
  <2>1. SyncTypeOK'
    BY <1>1 DEF syncVars, IInv, SyncTypeOK
  <2>2. CallHasObject'
    BY <1>1 DEF syncVars, IInv, CallHasObject
  <2>3. BlockedIffQueued'
    BY <1>1 DEF syncVars, IInv, BlockedIffQueued, Waits
  <2>4. LockedMeansOneOwner'
    <3>1. \A n \in Mutexes, u \in Threads : u \in Owners(n)' <=> u \in Owners(n)
      BY <1>1 DEF syncVars, Owners
    <3>2. mutex' = mutex
      BY <1>1 DEF syncVars
    <3> QED
      BY <3>1, <3>2, OwnersKeep
  <2> QED
    BY <2>1, <2>2, <2>3, <2>4 DEF IInv
<1>2. ASSUME NEW t \in Threads, Call(t, Mutexes, Semaphores, Condvars) PROVE IInv'
  <2>1. ASSUME NEW m \in Mutexes, sys_mutex_lock(t, m) PROVE IInv'
    BY <2>1, LockKeeps DEF sys_mutex_lock, InUser
  <2>2. CASE \E m \in Mutexes : sys_mutex_unlock(t, m)
    BY <2>2, UnlockKeeps
  <2>3. CASE \E s \in Semaphores : sys_semaphore_up(t, s) \/ sys_semaphore_down(t, s)
    <3>1. PICK s \in Semaphores : sys_semaphore_up(t, s) \/ sys_semaphore_down(t, s)
      BY <2>3
    <3>2. CASE sys_semaphore_up(t, s)
      BY <3>2, UpKeeps
    <3>3. CASE sys_semaphore_down(t, s)
      BY <3>3, DownKeeps
    <3> QED
      BY <3>1, <3>2, <3>3
  <2>4. CASE \E c \in Condvars : sys_condvar_signal(t, c)
    BY <2>4, SignalKeeps
  <2>5. CASE \E c \in Condvars, m \in Mutexes : sys_condvar_wait(t, c, m)
    BY <2>5, WaitKeeps
  <2> QED
    BY <1>2, <2>1, <2>2, <2>3, <2>4, <2>5 DEF Call
<1>3. ASSUME NEW t \in Threads, Continue(t) PROVE IInv'
  <2>1. CASE Relock(t)
    BY <2>1, LockKeeps DEF Relock, IInv, CallHasObject
  <2>2. CASE Spin(t)
    <3>1. status[t] = "Ready"
      BY <2>2 DEF Spin, IInv, SyncTypeOK, BlockedIffQueued
    <3> QED
      BY <2>2, <3>1, LockKeeps DEF Spin, IInv, CallHasObject
  <2> QED
    BY <1>3, <2>1, <2>2, ReturnKeeps DEF Continue
<1> QED
  BY <1>1, <1>2, <1>3 DEF SyncNext

(* Mutual exclusion for both kinds of mutex, through hand-offs and         *)
(* condition variables: at any time at most one thread has a mutex or has  *)
(* it coming, and a free one has no waiters.                               *)
THEOREM MutualExclusion == SyncSpec => []LockedMeansOneOwner
<1>1. SyncInit => IInv
  BY InitKeeps
<1>2. IInv /\ [SyncNext]_syncVars => IInv'
  BY NextKeeps
<1>3. IInv => LockedMeansOneOwner
  BY DEF IInv
<1> QED
  BY <1>1, <1>2, <1>3, PTL DEF SyncSpec

(* No wakeup is lost, doubled or sent to a thread that waits for something *)
(* else: the blocked threads are exactly those in the queues, each once.   *)
THEOREM NoLostWakeup == SyncSpec => []BlockedIffQueued
<1>1. SyncInit => IInv
  BY InitKeeps
<1>2. IInv /\ [SyncNext]_syncVars => IInv'
  BY NextKeeps
<1>3. IInv => BlockedIffQueued
  BY DEF IInv
<1> QED
  BY <1>1, <1>2, <1>3, PTL DEF SyncSpec
-----------------------------------------------------------------------------
(* The books of one semaphore. *)
SemBooks(s) ==
    /\ Len(sem[s].wait_queue) = Positive(-sem[s].count)
    /\ passed[s] + Cardinality(Granted(s)) + Positive(sem[s].count) = res_count[s]

(* The woken waiters of a semaphore are finitely many. *)
LEMMA GrantedFinite ==
    ASSUME NEW s
    PROVE  IsFiniteSet(Granted(s)) /\ Cardinality(Granted(s)) \in Nat
<1>1. Granted(s) \in SUBSET Threads
  BY DEF Granted
<1>2. IsFiniteSet(Granted(s))
  BY <1>1, SyncAssumption, FS_Subset
<1> QED
  BY <1>2, FS_CardinalityType

(* A step that leaves a semaphore alone, and everyone who downs it. *)
LEMMA BooksKept ==
    ASSUME NEW s \in Semaphores, SemBooks(s), sem'[s] = sem[s], passed'[s] = passed[s],
           \A u \in Threads : \/ status'[u] = status[u] /\ call'[u] = call[u] /\ arg'[u] = arg[u]
                              \/ /\ ~(call[u] = "down" /\ arg[u] = s)
                                 /\ ~(call'[u] = "down" /\ arg'[u] = s)
    PROVE  SemBooks(s)'
<1>1. \A u \in Threads : u \in Granted(s)' <=> u \in Granted(s)
  BY DEF Granted
<1>2. Granted(s) \subseteq Threads /\ Granted(s)' \subseteq Threads
  BY DEF Granted
<1>3. Granted(s)' = Granted(s)
  BY <1>1, <1>2
<1> QED
  BY <1>3 DEF SemBooks

(* The first waiter of a semaphore's queue waits for that semaphore. *)
LEMMA FirstWaits ==
    ASSUME IInv, NEW s \in Semaphores, sem[s].wait_queue # << >>
    PROVE  Head(sem[s].wait_queue) \in Threads /\ Waits(Head(sem[s].wait_queue), "down", s)
<1> DEFINE q == sem[s].wait_queue
<1>1. q \in Seq(Threads)
  BY DEF IInv, SyncTypeOK
<1>2. 1 \in DOMAIN q /\ Head(q) = q[1] /\ q[1] \in Threads
  BY <1>1, SMT
<1>3. In(q, Head(q))
  BY <1>2 DEF In
<1> HIDE DEF q
<1>4. In(sem[s].wait_queue, Head(q)) /\ Head(q) \in Threads
  BY <1>2, <1>3 DEF q
<1>5. Waits(Head(q), "down", s)
  BY <1>4 DEF IInv, BlockedIffQueued
<1> QED
  BY <1>4, <1>5 DEF q

(* Semaphore::up: the resource goes to the first waiter or to the counter. *)
LEMMA UpBooks ==
    ASSUME IInv, NEW t \in Threads, NEW s \in Semaphores, sys_semaphore_up(t, s), SemBooks(s)
    PROVE  SemBooks(s)'
<1> DEFINE q == sem[s].wait_queue
           k == sem[s].count
           G == Granted(s)
<1>1. /\ q \in Seq(Threads) /\ k \in Int /\ passed[s] \in Int
      /\ sem \in [Semaphores -> [count : Int, wait_queue : Seq(Threads)]]
      /\ passed \in [Semaphores -> Int] /\ status \in [Threads -> {"Ready", "Blocked"}]
      /\ res_count[s] \in Nat
  BY SyncAssumption DEF IInv, SyncTypeOK
<1>2. Len(q) = Positive(-k) /\ passed[s] + Cardinality(G) + Positive(k) = res_count[s]
  BY DEF SemBooks
<1>3. IsFiniteSet(G) /\ Cardinality(G) \in Nat
  BY GrantedFinite
<1>4. /\ sem'[s].count = k + 1
      /\ sem'[s].wait_queue = IF k + 1 <= 0 THEN Rest(q) ELSE q
      /\ passed'[s] = passed[s] - 1 /\ call' = call /\ arg' = arg
      /\ status' = IF k + 1 <= 0 THEN Woken(status, q) ELSE status
  BY <1>1 DEF sys_semaphore_up, Wakes
<1>5. CASE k + 1 <= 0
  <2>1. Len(q) = -k /\ q # << >>
    BY <1>1, <1>2, <1>5, SMT DEF Positive
  <2>2. Head(q) \in Threads /\ Waits(Head(q), "down", s)
    BY <2>1, FirstWaits
  <2>3. status' = [status EXCEPT ![Head(q)] = "Ready"] /\ sem'[s].wait_queue = Tail(q)
    BY <1>4, <1>5, <2>1 DEF Woken, Rest
  <2>4. Len(Tail(q)) = Len(q) - 1
    BY <1>1, <2>1, SMT
  <2> DEFINE h == Head(q)
  <2> HIDE DEF h
  <2>5. Granted(s)' = G \cup {h} /\ h \notin G
    <3>1. h \in Threads /\ status[h] = "Blocked" /\ call[h] = "down" /\ arg[h] = s
      BY <2>2 DEF h, Waits
    <3>2. \A u \in Threads : status'[u] = IF u = h THEN "Ready" ELSE status[u]
      BY <1>1, <2>3, <3>1 DEF h
    <3> QED
      BY <1>4, <3>1, <3>2 DEF Granted
  <2>6. Cardinality(Granted(s)') = Cardinality(G) + 1
    BY <1>3, <2>5, FS_AddElement
  <2> HIDE DEF G, q, k
  <2>7. Positive(k) = 0 /\ Positive(k + 1) = 0 /\ Positive(-(k + 1)) = -k - 1
    BY <1>1, <1>5, SMT DEF Positive
  <2>8. Len(sem'[s].wait_queue) = Positive(-sem'[s].count)
    BY <1>1, <1>4, <2>1, <2>3, <2>4, <2>7
  <2>9. passed'[s] + Cardinality(Granted(s)') + Positive(sem'[s].count) = res_count[s]
    BY <1>1, <1>2, <1>3, <1>4, <2>6, <2>7, SMT
  <2> QED
    BY <2>8, <2>9 DEF SemBooks
<1>6. CASE ~(k + 1 <= 0)
  <2>1. Granted(s)' = G
    BY <1>4, <1>6 DEF Granted
  <2> HIDE DEF G, q, k
  <2>2. Positive(k + 1) = Positive(k) + 1 /\ Positive(-(k + 1)) = Positive(-k)
    BY <1>1, <1>6, SMT DEF Positive
  <2>3. Len(sem'[s].wait_queue) = Positive(-sem'[s].count)
    BY <1>2, <1>4, <1>6, <2>2
  <2>4. Positive(k) \in Int
    BY <1>1, SMT DEF Positive
  <2>5. passed'[s] + Cardinality(Granted(s)') + Positive(sem'[s].count) = res_count[s]
    BY <1>1, <1>2, <1>3, <1>4, <2>1, <2>2, <2>4, SMTT(30)
  <2> QED
    BY <2>3, <2>5 DEF SemBooks
<1> QED
  BY <1>5, <1>6

(* Semaphore::down: the caller takes a resource or joins the queue. *)
LEMMA DownBooks ==
    ASSUME IInv, NEW t \in Threads, NEW s \in Semaphores, sys_semaphore_down(t, s), SemBooks(s)
    PROVE  SemBooks(s)'
<1> DEFINE q == sem[s].wait_queue
           k == sem[s].count
           G == Granted(s)
<1>1. /\ q \in Seq(Threads) /\ k \in Int /\ passed[s] \in Int
      /\ sem \in [Semaphores -> [count : Int, wait_queue : Seq(Threads)]]
      /\ passed \in [Semaphores -> Int] /\ status \in [Threads -> {"Ready", "Blocked"}]
      /\ call \in [Threads -> {"user", "lock", "spin", "down", "wait"}]
      /\ arg \in [Threads -> Mutexes \cup Semaphores \cup {NoObject}]
      /\ res_count[s] \in Nat
  BY SyncAssumption DEF IInv, SyncTypeOK
<1>2. Len(q) = Positive(-k) /\ passed[s] + Cardinality(G) + Positive(k) = res_count[s]
  BY DEF SemBooks
<1>3. IsFiniteSet(G) /\ Cardinality(G) \in Nat
  BY GrantedFinite
<1>4. /\ sem'[s].count = k - 1 /\ status[t] = "Ready" /\ call[t] = "user"
      /\ sem'[s].wait_queue = IF k - 1 < 0 THEN Append(q, t) ELSE q
  BY <1>1 DEF sys_semaphore_down, InUser
<1>5. CASE k - 1 < 0
  <2>1. /\ status' = [status EXCEPT ![t] = "Blocked"] /\ call' = [call EXCEPT ![t] = "down"]
        /\ arg' = [arg EXCEPT ![t] = s] /\ passed' = passed
    BY <1>5 DEF sys_semaphore_down
  <2>2. Granted(s)' = G
    <3>1. \A u \in Threads : u \in Granted(s)' <=> u \in G
      BY <1>1, <1>4, <2>1 DEF Granted
    <3>2. G \subseteq Threads /\ Granted(s)' \subseteq Threads
      BY DEF Granted
    <3> HIDE DEF G
    <3> QED
      BY <3>1, <3>2
  <2>3. Len(Append(q, t)) = Len(q) + 1
    BY <1>1, SMT
  <2> HIDE DEF G, q, k
  <2>4. Positive(k) = 0 /\ Positive(k - 1) = 0 /\ Positive(-(k - 1)) = Positive(-k) + 1
    BY <1>1, <1>5, SMT DEF Positive
  <2>5. Len(sem'[s].wait_queue) = Positive(-sem'[s].count)
    BY <1>2, <1>4, <1>5, <2>3, <2>4
  <2>6. passed'[s] + Cardinality(Granted(s)') + Positive(sem'[s].count) = res_count[s]
    BY <1>1, <1>2, <1>3, <1>4, <2>1, <2>2, <2>4
  <2> QED
    BY <2>5, <2>6 DEF SemBooks
<1>6. CASE ~(k - 1 < 0)
  <2>1. status' = status /\ call' = call /\ arg' = arg /\ passed'[s] = passed[s] + 1
    BY <1>1, <1>6 DEF sys_semaphore_down
  <2>2. Granted(s)' = G
    BY <2>1 DEF Granted
  <2> HIDE DEF G, q, k
  <2>3. Positive(k) = k /\ Positive(k - 1) = k - 1 /\ Positive(-(k - 1)) = Positive(-k)
    BY <1>1, <1>6, SMT DEF Positive
  <2>4. Len(sem'[s].wait_queue) = Positive(-sem'[s].count)
    BY <1>2, <1>4, <1>6, <2>3
  <2>5. passed'[s] + Cardinality(Granted(s)') + Positive(sem'[s].count) = res_count[s]
    <3> DEFINE a == passed[s]
               c == Cardinality(G)
               n == res_count[s]
    <3>1. /\ passed'[s] = a + 1 /\ Cardinality(Granted(s)') = c
          /\ Positive(sem'[s].count) = k - 1 /\ a + c + k = n
      BY <1>2, <1>4, <2>1, <2>2, <2>3
    <3>2. a \in Int /\ c \in Nat /\ k \in Int
      BY <1>1, <1>3
    <3> HIDE DEF a, c, n
    <3>3. (a + 1) + c + (k - 1) = n
      BY <3>1, <3>2, SMT
    <3> QED
      BY <3>1, <3>3 DEF n
  <2> QED
    BY <2>4, <2>5 DEF SemBooks
<1> QED
  BY <1>5, <1>6

(* The woken thread's down returns: the resource was set aside for it. *)
LEMMA ReturnBooks ==
    ASSUME IInv, NEW t \in Threads, Return(t), call[t] = "down",
           NEW s \in Semaphores, arg[t] = s, SemBooks(s)
    PROVE  SemBooks(s)'
<1> DEFINE G == Granted(s)
<1>1. /\ sem[s].count \in Int /\ passed[s] \in Int /\ passed \in [Semaphores -> Int]
      /\ call \in [Threads -> {"user", "lock", "spin", "down", "wait"}]
      /\ arg \in [Threads -> Mutexes \cup Semaphores \cup {NoObject}]
      /\ res_count[s] \in Nat
  BY SyncAssumption DEF IInv, SyncTypeOK
<1>2. IsFiniteSet(G) /\ Cardinality(G) \in Nat
  BY GrantedFinite
<1>3. /\ sem' = sem /\ status' = status /\ passed'[s] = passed[s] + 1 /\ status[t] = "Ready"
      /\ call' = [call EXCEPT ![t] = "user"] /\ arg' = [arg EXCEPT ![t] = NoObject]
  BY <1>1 DEF Return
<1>4. Granted(s)' = G \ {t} /\ t \in G
  <2>1. \A u \in Threads : u \in Granted(s)' <=> u \in G /\ u # t
    BY <1>1, <1>3 DEF Granted
  <2>2. t \in G /\ G \subseteq Threads /\ Granted(s)' \subseteq Threads
    BY <1>3 DEF Granted
  <2> HIDE DEF G
  <2> QED
    BY <2>1, <2>2
<1>5. Cardinality(Granted(s)') = Cardinality(G) - 1
  BY <1>2, <1>4, FS_RemoveElement
<1>6. /\ Len(sem[s].wait_queue) = Positive(-sem[s].count)
      /\ passed[s] + Cardinality(G) + Positive(sem[s].count) = res_count[s]
  BY DEF SemBooks
<1>7. Positive(sem[s].count) \in Int
  BY <1>1, SMT DEF Positive
<1> HIDE DEF G
<1>8. passed'[s] + Cardinality(Granted(s)') + Positive(sem[s].count) = res_count[s]
  BY <1>1, <1>2, <1>3, <1>5, <1>6, <1>7, SMTT(30)
<1> QED
  BY <1>3, <1>6, <1>8 DEF SemBooks

(* Mutex::lock is not about semaphores. *)
LEMMA LockLeavesBooks ==
    ASSUME IInv, NEW t \in Threads, NEW m \in Mutexes, lock(t, m), call[t] # "down",
           UNCHANGED <<sem, cond, passed>>, NEW s \in Semaphores, SemBooks(s)
    PROVE  SemBooks(s)'
<1>1. call \in [Threads -> {"user", "lock", "spin", "down", "wait"}]
      /\ status \in [Threads -> {"Ready", "Blocked"}]
      /\ arg \in [Threads -> Mutexes \cup Semaphores \cup {NoObject}]
  BY DEF IInv, SyncTypeOK
<1>2. \A u \in Threads \ {t} : status'[u] = status[u] /\ call'[u] = call[u] /\ arg'[u] = arg[u]
  BY <1>1 DEF lock
<1>3. call'[t] # "down"
  BY <1>1 DEF lock
<1> QED
  BY <1>2, <1>3, BooksKept

(* Nor is unlock, alone or in wait_with_mutex: it wakes a thread that      *)
(* waits for a mutex.                                                      *)
LEMMA UnlockLeavesBooks ==
    ASSUME IInv, NEW t \in Threads, NEW m \in Mutexes, InUser(t), m \in holds[t],
           \A u \in Threads \ {t} : /\ status'[u] = Woken(status, mutex[m].wait_queue)[u]
                                     /\ call'[u] = call[u] /\ arg'[u] = arg[u],
           call'[t] # "down", sem' = sem, passed' = passed, NEW s \in Semaphores, SemBooks(s)
    PROVE  SemBooks(s)'
<1> DEFINE q == mutex[m].wait_queue
<1>1. q # << >> => Head(q) \in Threads \ {t} /\ call[Head(q)] = "lock"
  BY HandOn
<1>2. status \in [Threads -> {"Ready", "Blocked"}] /\ call[t] = "user"
  BY DEF IInv, SyncTypeOK, InUser
<1>3. \A u \in Threads \ {t} : status'[u] = status[u] \/ call[u] = "lock"
  BY <1>1, <1>2 DEF Woken
<1>4. \A u \in Threads : \/ status'[u] = status[u] /\ call'[u] = call[u] /\ arg'[u] = arg[u]
                         \/ /\ ~(call[u] = "down" /\ arg[u] = s)
                            /\ ~(call'[u] = "down" /\ arg'[u] = s)
  BY <1>2, <1>3
<1> QED
  BY <1>4, BooksKept

(* Every step keeps the books of every semaphore. *)
LEMMA NextBooks ==
    ASSUME IInv, [SyncNext]_syncVars, NEW s \in Semaphores, SemBooks(s)
    PROVE  SemBooks(s)'
<1>0. /\ call \in [Threads -> {"user", "lock", "spin", "down", "wait"}]
      /\ status \in [Threads -> {"Ready", "Blocked"}]
      /\ arg \in [Threads -> Mutexes \cup Semaphores \cup {NoObject}]
      /\ sem \in [Semaphores -> [count : Int, wait_queue : Seq(Threads)]]
      /\ passed \in [Semaphores -> Int]
  BY DEF IInv, SyncTypeOK
<1>1. CASE UNCHANGED syncVars
  BY <1>1, BooksKept DEF syncVars
<1>2. ASSUME NEW t \in Threads, NEW m \in Mutexes, sys_mutex_lock(t, m) PROVE SemBooks(s)'
  BY <1>2, LockLeavesBooks DEF sys_mutex_lock, InUser
<1>3. ASSUME NEW t \in Threads, NEW m \in Mutexes, sys_mutex_unlock(t, m) PROVE SemBooks(s)'
  <2>1. call'[t] # "down"
    BY <1>3 DEF sys_mutex_unlock, InUser
  <2> QED
    BY <1>3, <2>1, UnlockLeavesBooks DEF sys_mutex_unlock
<1>4. ASSUME NEW t \in Threads, NEW n \in Semaphores, sys_semaphore_up(t, n) PROVE SemBooks(s)'
  <2>1. CASE n = s
    BY <1>4, <2>1, UpBooks
  <2>2. CASE n # s
    <3>1. sem'[s] = sem[s] /\ passed'[s] = passed[s] /\ call' = call /\ arg' = arg
      BY <1>0, <1>4, <2>2 DEF sys_semaphore_up
    <3>2. status' = status \/ /\ sem[n].wait_queue # << >>
                              /\ status' = [status EXCEPT ![Head(sem[n].wait_queue)] = "Ready"]
      BY <1>4 DEF sys_semaphore_up, Woken
    <3>3. sem[n].wait_queue # << >> => /\ Head(sem[n].wait_queue) \in Threads
                                       /\ arg[Head(sem[n].wait_queue)] = n
      BY FirstWaits DEF Waits
    <3>4. \A u \in Threads : status'[u] = status[u] \/ arg[u] = n
      BY <1>0, <3>2, <3>3
    <3> QED
      BY <2>2, <3>1, <3>4, BooksKept
  <2> QED
    BY <2>1, <2>2
<1>5. ASSUME NEW t \in Threads, NEW n \in Semaphores, sys_semaphore_down(t, n) PROVE SemBooks(s)'
  <2>1. CASE n = s
    BY <1>5, <2>1, DownBooks
  <2>2. CASE n # s
    <3>1. sem'[s] = sem[s] /\ passed'[s] = passed[s] /\ call[t] = "user"
      BY <1>0, <1>5, <2>2 DEF sys_semaphore_down, InUser
    <3>2. \A u \in Threads \ {t} : status'[u] = status[u] /\ call'[u] = call[u] /\ arg'[u] = arg[u]
      BY <1>0, <1>5 DEF sys_semaphore_down
    <3>3. call'[t] # "down" \/ arg'[t] = n
      BY <1>0, <1>5, <3>1 DEF sys_semaphore_down
    <3>4. \A u \in Threads : \/ status'[u] = status[u] /\ call'[u] = call[u] /\ arg'[u] = arg[u]
                             \/ /\ ~(call[u] = "down" /\ arg[u] = s)
                                /\ ~(call'[u] = "down" /\ arg'[u] = s)
      BY <2>2, <3>1, <3>2, <3>3
    <3> QED
      BY <3>1, <3>4, BooksKept
  <2> QED
    BY <2>1, <2>2
<1>6. ASSUME NEW t \in Threads, NEW c \in Condvars, sys_condvar_signal(t, c) PROVE SemBooks(s)'
  <2>1. /\ status' = Woken(status, cond[c]) /\ sem' = sem /\ call' = call /\ arg' = arg
        /\ passed' = passed
    BY <1>6 DEF sys_condvar_signal
  <2>2. cond[c] # << >> => Head(cond[c]) \in Threads /\ call[Head(cond[c])] = "wait"
    <3>1. Fits(mutexQueues, semQueues, cond, status, call, arg)
      BY IInvFits
    <3>2. ASSUME cond[c] # << >>
          PROVE  /\ Head(cond[c]) \in Threads /\ call[Head(cond[c])] = "wait"
                 /\ Fits(mutexQueues, semQueues, [cond EXCEPT ![c] = Rest(@)],
                         [status EXCEPT ![Head(cond[c])] = "Ready"], call, arg)
      BY <3>1, <3>2, WakeFromCondvar, SMT
    <3> QED
      BY <3>2
  <2>3. \A u \in Threads : status'[u] = status[u] \/ call[u] = "wait"
    BY <1>0, <2>1, <2>2 DEF Woken
  <2> QED
    BY <2>1, <2>3, BooksKept
<1>7. ASSUME NEW t \in Threads, NEW c \in Condvars, NEW m \in Mutexes, sys_condvar_wait(t, c, m)
      PROVE  SemBooks(s)'
  <2> DEFINE st == Woken(status, mutex[m].wait_queue)
  <2>1. /\ InUser(t) /\ m \in holds[t] /\ sem' = sem /\ passed' = passed
        /\ status' = [st EXCEPT ![t] = "Blocked"]
        /\ call' = [call EXCEPT ![t] = "wait"] /\ arg' = [arg EXCEPT ![t] = m]
    BY <1>7 DEF sys_condvar_wait
  <2>2. st \in [Threads -> {"Ready", "Blocked"}]
    BY <1>0 DEF Woken
  <2> HIDE DEF st
  <2>3. call'[t] # "down" /\ \A u \in Threads \ {t} :
           status'[u] = st[u] /\ call'[u] = call[u] /\ arg'[u] = arg[u]
    BY <1>0, <2>1, <2>2
  <2> QED
    BY <2>1, <2>3, UnlockLeavesBooks DEF st
<1>8. ASSUME NEW t \in Threads, Return(t) PROVE SemBooks(s)'
  <2>1. CASE call[t] = "down" /\ arg[t] = s
    BY <1>8, <2>1, ReturnBooks
  <2>2. CASE ~(call[t] = "down" /\ arg[t] = s)
    <3>1. /\ sem' = sem /\ status' = status
          /\ call' = [call EXCEPT ![t] = "user"] /\ arg' = [arg EXCEPT ![t] = NoObject]
      BY <1>8 DEF Return
    <3>2. passed'[s] = passed[s]
      BY <1>0, <1>8, <2>2 DEF Return
    <3>3. call'[t] = "user"
          /\ \A u \in Threads \ {t} : call'[u] = call[u] /\ arg'[u] = arg[u]
      BY <1>0, <3>1
    <3> QED
      BY <2>2, <3>1, <3>2, <3>3, BooksKept
  <2> QED
    BY <2>1, <2>2
<1>9. ASSUME NEW t \in Threads, Relock(t) \/ Spin(t) PROVE SemBooks(s)'
  <2>1. arg[t] \in Mutexes /\ call[t] # "down" /\ lock(t, arg[t]) /\ UNCHANGED <<sem, cond, passed>>
    BY <1>9 DEF Relock, Spin, IInv, CallHasObject
  <2> QED
    BY <2>1, LockLeavesBooks
<1> QED
  BY <1>1, <1>2, <1>3, <1>4, <1>5, <1>6, <1>7, <1>8, <1>9 DEF SyncNext, Call, Continue

(* Mutexes exclude and semaphores count right, for any number of threads:  *)
(* as many downs get through as there are resources, counting the threads  *)
(* that up has woken and that have not run yet, and the negative counter   *)
(* is the number of waiters.                                               *)
THEOREM LocksCountRight == SyncSpec => []LocksExact
<1>1. SyncInit => IInv /\ SemaphoreExact
  <2> SUFFICES ASSUME SyncInit PROVE SemaphoreExact
    BY InitKeeps
  <2> SUFFICES ASSUME NEW s \in Semaphores PROVE SemBooks(s)
    BY DEF SemaphoreExact, SemBooks
  <2>1. /\ res_count[s] \in Nat /\ passed[s] = 0
        /\ sem[s] = [count |-> res_count[s], wait_queue |-> << >>]
    BY SyncAssumption DEF SyncInit
  <2>2. Granted(s) = {}
    BY DEF SyncInit, Granted
  <2>3. Cardinality(Granted(s)) = 0
    BY <2>2, FS_EmptySet
  <2> QED
    BY <2>1, <2>3, SMTT(30) DEF SemBooks, Positive
<1>2. IInv /\ SemaphoreExact /\ [SyncNext]_syncVars => IInv' /\ SemaphoreExact'
  BY NextKeeps, NextBooks DEF SemaphoreExact, SemBooks
<1>3. IInv /\ SemaphoreExact => LocksExact
  BY DEF IInv, LocksExact
<1> QED
  BY <1>1, <1>2, <1>3, PTL DEF SyncSpec
-----------------------------------------------------------------------------
(* The line of a mutex: its owner and then its queue. *)
Line(m) == IF mutex[m].locked
           THEN <<CHOOSE t \in Owners(m) : TRUE>> \o mutex[m].wait_queue
           ELSE << >>

lines == [m \in Blocking |-> Line(m)]

(* A thread inside wait_with_mutex has let go of the mutex. *)
NotHeldYet == \A t \in Threads : call[t] = "wait" => arg[t] \notin holds[t]

(* The line of a mutex with the owner t. *)
LEMMA LineOf ==
    ASSUME NEW m, NEW t, mutex[m].locked, Owners(m) = {t}
    PROVE  Line(m) = <<t>> \o mutex[m].wait_queue
<1>1. (CHOOSE u \in Owners(m) : TRUE) = t
  OBVIOUS
<1> QED
  BY <1>1 DEF Line

(* The same after the step. *)
LEMMA LineOfNext ==
    ASSUME NEW m, NEW t, mutex'[m].locked, Owners(m)' = {t}
    PROVE  Line(m)' = <<t>> \o mutex'[m].wait_queue
<1>1. (CHOOSE u \in Owners(m)' : TRUE) = t
  OBVIOUS
<1> QED
  BY <1>1 DEF Line

(* lock enters the caller at the end of the line. *)
LEMMA LockLine ==
    ASSUME IInv, NEW t \in Threads, NEW m \in Mutexes, status[t] = "Ready", call[t] # "lock",
           m \notin holds[t], lock(t, m)
    PROVE  /\ \A n \in Mutexes \ {m} : Line(n)' = Line(n)
           /\ m \in Blocking => /\ \A i \in DOMAIN Line(m) : Line(m)[i] # t
                                /\ Line(m)' = Append(Line(m), t)
<1>0. /\ call \in [Threads -> {"user", "lock", "spin", "down", "wait"}]
      /\ status \in [Threads -> {"Ready", "Blocked"}]
      /\ arg \in [Threads -> Mutexes \cup Semaphores \cup {NoObject}]
      /\ holds \in [Threads -> SUBSET Mutexes]
      /\ mutex \in [Mutexes -> [locked : BOOLEAN, wait_queue : Seq(Threads)]]
  BY DEF IInv, SyncTypeOK
<1>1. \A n \in Mutexes \ {m} : mutex'[n] = mutex[n]
  BY <1>0 DEF lock, Queued
<1>2. ASSUME NEW n \in Mutexes \ {m}, NEW u \in Threads PROVE u \in Owners(n)' <=> u \in Owners(n)
  <2>1. n \in holds'[u] <=> n \in holds[u]
    BY <1>0, SMT DEF lock
  <2>2. CASE u # t
    <3>1. status'[u] = status[u] /\ call'[u] = call[u] /\ arg'[u] = arg[u]
      BY <1>0, <2>2 DEF lock
    <3> QED
      BY <2>1, <3>1 DEF Owners
  <2>3. CASE u = t
    <3>1. ~(call'[t] = "lock" /\ arg'[t] = n)
      BY <1>0 DEF lock
    <3> QED
      BY <2>1, <2>3, <3>1 DEF Owners
  <2> QED
    BY <2>2, <2>3
<1>3. ASSUME NEW n \in Mutexes \ {m} PROVE Line(n)' = Line(n)
  <2>1. Owners(n) \subseteq Threads /\ Owners(n)' \subseteq Threads
    BY DEF Owners
  <2>2. Owners(n)' = Owners(n)
    BY <1>2, <2>1
  <2> QED
    BY <1>1, <2>2, SMT DEF Line
<1>4. CASE ~mutex[m].locked
  <2>1. Owners(m) = {} /\ mutex[m].wait_queue = << >> /\ Line(m) = << >>
    BY <1>4 DEF IInv, LockedMeansOneOwner, Line
  <2>2. mutex'[m].locked /\ mutex'[m].wait_queue = mutex[m].wait_queue
    BY <1>0, <1>4, SMT DEF lock
  <2>3. /\ status' = status /\ holds' = [holds EXCEPT ![t] = @ \cup {m}]
        /\ call' = [call EXCEPT ![t] = "user"]
        /\ arg' = [arg EXCEPT ![t] = NoObject]
    BY <1>4 DEF lock
  <2>4. \A u \in Threads : u \in Owners(m)' <=> u \in Owners(m) \/ u = t
    BY <1>0, <2>3 DEF Owners
  <2>5. Owners(m)' = {t}
    <3>1. Owners(m)' \subseteq Threads
      BY DEF Owners
    <3> QED
      BY <2>1, <2>4, <3>1
  <2>6. Line(m)' = <<t>> \o << >>
    BY <2>1, <2>2, <2>5, LineOfNext
  <2>7. <<t>> \o << >> = Append(<< >>, t) /\ DOMAIN << >> = {}
    BY SMT
  <2> QED
    BY <1>3, <2>1, <2>6, <2>7
<1>5. CASE mutex[m].locked /\ m \in Blocking
  <2> DEFINE q == mutex[m].wait_queue
  <2>1. /\ mutex' = [mutex EXCEPT ![m].wait_queue = Append(q, t)] /\ holds' = holds
        /\ status' = [status EXCEPT ![t] = "Blocked"]
        /\ call' = [call EXCEPT ![t] = "lock"] /\ arg' = [arg EXCEPT ![t] = m]
    BY <1>5 DEF lock, Queued
  <2>2. PICK o \in Threads : Owners(m) = {o}
    BY <1>5 DEF IInv, LockedMeansOneOwner
  <2>3. t \notin Owners(m)
    BY DEF Owners
  <2>4. q \in Seq(Threads) /\ ~In(q, t)
    BY <1>0 DEF IInv, BlockedIffQueued, Waits
  <2>5. \A u \in Threads : u \in Owners(m)' <=> u \in Owners(m)
    BY <1>0, <2>1, <2>3 DEF Owners
  <2>6. Owners(m)' = {o}
    <3>1. Owners(m)' \subseteq Threads
      BY DEF Owners
    <3> QED
      BY <2>2, <2>5, <3>1
  <2> DEFINE r == Append(q, t)
  <2> HIDE DEF r
  <2>7. mutex'[m].locked /\ mutex'[m].wait_queue = r
    BY <1>0, <1>5, <2>1 DEF r
  <2>8. Line(m) = <<o>> \o q
    BY <1>5, <2>2, LineOf
  <2>9. Line(m)' = <<o>> \o r
    BY <2>6, <2>7, LineOfNext
  <2>10. o # t
    BY <2>2, <2>3
  <2> HIDE DEF q
  <2>11. <<o>> \o r = Append(<<o>> \o q, t)
    BY <2>4, SMT DEF r
  <2>12. ASSUME NEW i \in DOMAIN (<<o>> \o q) PROVE (<<o>> \o q)[i] # t
    <3>1. CASE i = 1
      BY <2>4, <2>10, <3>1, SMT
    <3>2. CASE i # 1
      <4>1. i - 1 \in DOMAIN q /\ (<<o>> \o q)[i] = q[i - 1]
        BY <2>4, <3>2, SMT
      <4> QED
        BY <2>4, <4>1 DEF In
    <3> QED
      BY <3>1, <3>2
  <2> QED
    BY <1>3, <2>8, <2>9, <2>11, <2>12
<1>6. CASE m \notin Blocking
  BY <1>3, <1>6
<1> QED
  BY <1>4, <1>5, <1>6

(* unlock, alone or in wait_with_mutex, lets the first of the line go. *)
LEMMA UnlockLine ==
    ASSUME IInv, NEW t \in Threads, NEW m \in Mutexes, InUser(t), m \in holds[t],
           mutex' = unlocked(m), holds' = [holds EXCEPT ![t] = @ \ {m}],
           \A u \in Threads \ {t} : /\ status'[u] = Woken(status, mutex[m].wait_queue)[u]
                                     /\ call'[u] = call[u] /\ arg'[u] = arg[u],
           call'[t] # "lock"
    PROVE  /\ \A n \in Mutexes \ {m} : Line(n)' = Line(n)
           /\ Line(m) # << >> /\ Line(m)' = Tail(Line(m))
<1> DEFINE q == mutex[m].wait_queue
<1>1. /\ \A n \in Mutexes \ {m} : mutex'[n] = mutex[n] /\ Owners(n)' = Owners(n)
      /\ IF q # << >> THEN Owners(m)' = {Head(q)} ELSE Owners(m)' = {}
  BY HandOnOwner
<1>2. ASSUME NEW n \in Mutexes \ {m} PROVE Line(n)' = Line(n)
  <2>1. mutex'[n] = mutex[n] /\ Owners(n)' = Owners(n)
    BY <1>1
  <2> QED
    BY <2>1, SMTT(30) DEF Line
<1>3. Owners(m) = {t} /\ mutex[m].locked
  <2>1. t \in Owners(m)
    BY DEF Owners
  <2> QED
    BY <2>1 DEF IInv, LockedMeansOneOwner
<1>4. Line(m) = <<t>> \o q
  BY <1>3, LineOf
<1>5. /\ q \in Seq(Threads)
      /\ mutex \in [Mutexes -> [locked : BOOLEAN, wait_queue : Seq(Threads)]]
  BY DEF IInv, SyncTypeOK
<1>6. mutex'[m].locked = (q # << >>) /\ mutex'[m].wait_queue = Rest(q)
  BY <1>5 DEF unlocked
<1> HIDE DEF q
<1>7. <<t>> \o q # << >> /\ Tail(<<t>> \o q) = q
  BY <1>5, SMT
<1>8. CASE q = << >>
  <2>1. Line(m)' = << >>
    BY <1>6, <1>8 DEF Line
  <2> QED
    BY <1>2, <1>4, <1>7, <1>8, <2>1
<1>9. CASE q # << >>
  <2>1. Line(m)' = <<Head(q)>> \o Tail(q)
    BY <1>1, <1>6, <1>9, LineOfNext DEF Rest
  <2>2. <<Head(q)>> \o Tail(q) = q
    BY <1>5, <1>9, SMT
  <2> QED
    BY <1>2, <1>4, <1>7, <2>1, <2>2
<1> QED
  BY <1>8, <1>9

(* A step that changes no owner and no mutex leaves every line as it is. *)
LEMMA LinesKept ==
    ASSUME mutex' = mutex, \A n \in Mutexes, u \in Threads : u \in Owners(n)' <=> u \in Owners(n),
           NEW n \in Mutexes
    PROVE  Line(n)' = Line(n)
<1>1. Owners(n) \subseteq Threads /\ Owners(n)' \subseteq Threads
  BY DEF Owners
<1>2. Owners(n)' = Owners(n)
  BY <1>1
<1> QED
  BY <1>2, SMT DEF Line

(* What a step does to the lines, seen from FifoLock. *)
LineStep ==
    \/ \A n \in Blocking : Line(n)' = Line(n)
    \/ \E m \in Blocking :
          /\ \A n \in Blocking \ {m} : Line(n)' = Line(n)
          /\ \/ Line(m) # << >> /\ Line(m)' = Tail(Line(m))
             \/ \E t \in Threads : /\ \A i \in DOMAIN Line(m) : Line(m)[i] # t
                                   /\ Line(m)' = Append(Line(m), t)

(* A LineStep is a step of FifoLock or none. *)
LEMMA LineStepIsFifo == LineStep => [Fifo!Next]_lines
<1> SUFFICES ASSUME LineStep PROVE Fifo!Next \/ lines' = lines
  OBVIOUS
<1>0. lines = [m \in Blocking |-> Line(m)] /\ lines' = [m \in Blocking |-> Line(m)']
  BY DEF lines
<1>1. CASE \A n \in Blocking : Line(n)' = Line(n)
  BY <1>0, <1>1
<1>2. ASSUME NEW m \in Blocking, \A n \in Blocking \ {m} : Line(n)' = Line(n),
             Line(m) # << >>, Line(m)' = Tail(Line(m))
      PROVE  Fifo!Next
  <2>1. lines[m] # << >> /\ lines' = [lines EXCEPT ![m] = Tail(@)]
    BY <1>0, <1>2
  <2>2. Fifo!Leave(m)
    BY <2>1 DEF Fifo!Leave, lines, Line
  <2> QED
    BY <2>2 DEF Fifo!Next
<1>3. ASSUME NEW m \in Blocking, \A n \in Blocking \ {m} : Line(n)' = Line(n), NEW t \in Threads,
             \A i \in DOMAIN Line(m) : Line(m)[i] # t, Line(m)' = Append(Line(m), t)
      PROVE  Fifo!Next
  <2>1. /\ \A i \in DOMAIN lines[m] : lines[m][i] # t
        /\ lines' = [lines EXCEPT ![m] = Append(@, t)]
    BY <1>0, <1>3
  <2>2. Fifo!Enter(t, m)
    BY <2>1 DEF Fifo!Enter, lines, Line
  <2> QED
    BY <2>2 DEF Fifo!Next
<1> QED
  BY <1>1, <1>2, <1>3 DEF LineStep

(* lock and unlock are LineSteps. *)
LEMMA LockLineStep ==
    ASSUME IInv, NEW t \in Threads, NEW m \in Mutexes, status[t] = "Ready", call[t] # "lock",
           m \notin holds[t], lock(t, m)
    PROVE  LineStep
<1>1. /\ \A n \in Mutexes \ {m} : Line(n)' = Line(n)
      /\ m \in Blocking => /\ \A i \in DOMAIN Line(m) : Line(m)[i] # t
                           /\ Line(m)' = Append(Line(m), t)
  BY LockLine
<1> QED
  BY <1>1, SyncAssumption DEF LineStep

(* unlock and the first half of wait_with_mutex are LineSteps. *)
LEMMA UnlockLineStep ==
    ASSUME IInv, NEW t \in Threads, NEW m \in Mutexes, InUser(t), m \in holds[t],
           mutex' = unlocked(m), holds' = [holds EXCEPT ![t] = @ \ {m}],
           \A u \in Threads \ {t} : /\ status'[u] = Woken(status, mutex[m].wait_queue)[u]
                                     /\ call'[u] = call[u] /\ arg'[u] = arg[u],
           call'[t] # "lock"
    PROVE  LineStep
<1>1. /\ \A n \in Mutexes \ {m} : Line(n)' = Line(n)
      /\ Line(m) # << >> /\ Line(m)' = Tail(Line(m))
  BY UnlockLine
<1> QED
  BY <1>1, SyncAssumption DEF LineStep

(* Every step is a LineStep. *)
LEMMA NextLineStep ==
    ASSUME IInv, NotHeldYet, [SyncNext]_syncVars
    PROVE  LineStep
<1>0. /\ call \in [Threads -> {"user", "lock", "spin", "down", "wait"}]
      /\ status \in [Threads -> {"Ready", "Blocked"}]
      /\ arg \in [Threads -> Mutexes \cup Semaphores \cup {NoObject}]
      /\ holds \in [Threads -> SUBSET Mutexes]
  BY DEF IInv, SyncTypeOK
<1>a. ASSUME mutex' = mutex, \A n \in Mutexes, u \in Threads : u \in Owners(n)' <=> u \in Owners(n)
      PROVE  LineStep
  BY <1>a, LinesKept, SyncAssumption DEF LineStep
<1>1. CASE UNCHANGED syncVars
  <2>1. mutex' = mutex /\ \A n \in Mutexes, u \in Threads : u \in Owners(n)' <=> u \in Owners(n)
    BY <1>1 DEF syncVars, Owners
  <2> QED
    BY <2>1, <1>a
<1>2. ASSUME NEW t \in Threads, NEW m \in Mutexes \ holds[t], sys_mutex_lock(t, m) PROVE LineStep
  BY <1>2, LockLineStep DEF sys_mutex_lock, InUser
<1>3. ASSUME NEW t \in Threads, NEW m \in Mutexes, sys_mutex_unlock(t, m) PROVE LineStep
  <2>1. call'[t] # "lock"
    BY <1>3 DEF sys_mutex_unlock, InUser
  <2> QED
    BY <1>3, <2>1, UnlockLineStep DEF sys_mutex_unlock
<1>4. ASSUME NEW t \in Threads, NEW s \in Semaphores, sys_semaphore_up(t, s) PROVE LineStep
  <2>1. mutex' = mutex /\ call' = call /\ arg' = arg /\ holds' = holds
    BY <1>4 DEF sys_semaphore_up
  <2>2. status' = status \/ /\ sem[s].wait_queue # << >>
                            /\ status' = [status EXCEPT ![Head(sem[s].wait_queue)] = "Ready"]
    BY <1>4 DEF sys_semaphore_up, Woken
  <2>3. sem[s].wait_queue # << >> => call[Head(sem[s].wait_queue)] = "down"
    BY FirstWaits DEF Waits
  <2>4. \A u \in Threads : status'[u] = status[u] \/ call[u] = "down"
    BY <1>0, <2>2, <2>3
  <2> QED
    BY <2>1, <2>4, <1>a DEF Owners
<1>5. ASSUME NEW t \in Threads, NEW s \in Semaphores, sys_semaphore_down(t, s) PROVE LineStep
  <2>1. mutex' = mutex /\ holds' = holds /\ call[t] = "user"
    BY <1>5 DEF sys_semaphore_down, InUser
  <2>2. call'[t] # "lock" /\ \A u \in Threads \ {t} :
            status'[u] = status[u] /\ call'[u] = call[u] /\ arg'[u] = arg[u]
    BY <1>0, <1>5, <2>1 DEF sys_semaphore_down
  <2>3. \A n \in Mutexes, u \in Threads : u \in Owners(n)' <=> u \in Owners(n)
    BY <2>1, <2>2 DEF Owners
  <2> QED
    BY <2>1, <2>3, <1>a
<1>6. ASSUME NEW t \in Threads, NEW c \in Condvars, sys_condvar_signal(t, c) PROVE LineStep
  <2>1. /\ status' = Woken(status, cond[c]) /\ mutex' = mutex /\ call' = call /\ arg' = arg
        /\ holds' = holds
    BY <1>6 DEF sys_condvar_signal
  <2>2. cond[c] # << >> => call[Head(cond[c])] = "wait"
    <3>1. Fits(mutexQueues, semQueues, cond, status, call, arg)
      BY IInvFits
    <3>2. ASSUME cond[c] # << >>
          PROVE  /\ Head(cond[c]) \in Threads /\ call[Head(cond[c])] = "wait"
                 /\ Fits(mutexQueues, semQueues, [cond EXCEPT ![c] = Rest(@)],
                         [status EXCEPT ![Head(cond[c])] = "Ready"], call, arg)
      BY <3>1, <3>2, WakeFromCondvar, SMT
    <3> QED
      BY <3>2
  <2>3. \A u \in Threads : status'[u] = status[u] \/ call[u] = "wait"
    BY <1>0, <2>1, <2>2 DEF Woken
  <2> QED
    BY <2>1, <2>3, <1>a DEF Owners
<1>7. ASSUME NEW t \in Threads, NEW c \in Condvars, NEW m \in Mutexes, sys_condvar_wait(t, c, m)
      PROVE  LineStep
  <2> DEFINE st == Woken(status, mutex[m].wait_queue)
  <2>1. /\ InUser(t) /\ m \in holds[t] /\ mutex' = unlocked(m)
        /\ status' = [st EXCEPT ![t] = "Blocked"] /\ holds' = [holds EXCEPT ![t] = @ \ {m}]
        /\ call' = [call EXCEPT ![t] = "wait"] /\ arg' = [arg EXCEPT ![t] = m]
    BY <1>7 DEF sys_condvar_wait
  <2>2. st \in [Threads -> {"Ready", "Blocked"}]
    BY <1>0 DEF Woken
  <2> HIDE DEF st
  <2>3. call'[t] # "lock" /\ \A u \in Threads \ {t} :
           status'[u] = st[u] /\ call'[u] = call[u] /\ arg'[u] = arg[u]
    BY <1>0, <2>1, <2>2
  <2> QED
    BY <2>1, <2>3, UnlockLineStep DEF st
<1>8. ASSUME NEW t \in Threads, Return(t) PROVE LineStep
  <2>1. /\ status[t] = "Ready" /\ call[t] \in {"lock", "down"} /\ mutex' = mutex
        /\ call' = [call EXCEPT ![t] = "user"] /\ arg' = [arg EXCEPT ![t] = NoObject]
        /\ status' = status
        /\ holds' = IF call[t] = "lock" THEN [holds EXCEPT ![t] = @ \cup {arg[t]}] ELSE holds
    BY <1>8 DEF Return
  <2>2. \A n \in Mutexes, u \in Threads : u \in Owners(n)' <=> u \in Owners(n)
    BY <1>0, <2>1 DEF Owners
  <2> QED
    BY <2>1, <2>2, <1>a
<1>9. ASSUME NEW t \in Threads, Relock(t) PROVE LineStep
  <2>1. arg[t] \in Mutexes /\ arg[t] \notin holds[t]
    BY <1>9 DEF Relock, IInv, CallHasObject, NotHeldYet
  <2> QED
    BY <1>9, <2>1, LockLineStep DEF Relock
<1>10. ASSUME NEW t \in Threads, Spin(t) PROVE LineStep
  <2>1. arg[t] \in Mutexes /\ status[t] = "Ready" /\ call[t] = "spin" /\ ~mutex[arg[t]].locked
    BY <1>10, <1>0 DEF Spin, IInv, CallHasObject, BlockedIffQueued
  <2>2. arg[t] \notin holds[t]
    BY <2>1 DEF IInv, LockedMeansOneOwner, Owners
  <2> QED
    BY <1>10, <2>1, <2>2, LockLineStep DEF Spin
<1> QED
  BY <1>1, <1>2, <1>3, <1>4, <1>5, <1>6, <1>7, <1>8, <1>9, <1>10 DEF SyncNext, Call, Continue

(* Nobody takes the mutex for a thread that is still in wait_with_mutex. *)
LEMMA NextNotHeldYet ==
    ASSUME IInv, NotHeldYet, [SyncNext]_syncVars
    PROVE  NotHeldYet'
<1>0. /\ call \in [Threads -> {"user", "lock", "spin", "down", "wait"}]
      /\ arg \in [Threads -> Mutexes \cup Semaphores \cup {NoObject}]
      /\ holds \in [Threads -> SUBSET Mutexes]
  BY DEF IInv, SyncTypeOK
<1> SUFFICES ASSUME NEW u \in Threads, call'[u] = "wait" PROVE arg'[u] \notin holds'[u]
  BY DEF NotHeldYet
<1>1. CASE UNCHANGED syncVars
  BY <1>1 DEF syncVars, NotHeldYet
<1>2. ASSUME NEW t \in Threads, NEW m \in Mutexes, lock(t, m) PROVE arg'[u] \notin holds'[u]
  BY <1>0, <1>2 DEF lock, NotHeldYet
<1>3. ASSUME NEW t \in Threads, NEW m \in Mutexes, sys_mutex_unlock(t, m)
      PROVE  arg'[u] \notin holds'[u]
  BY <1>0, <1>3 DEF sys_mutex_unlock, NotHeldYet
<1>4. ASSUME NEW t \in Threads, NEW s \in Semaphores,
             sys_semaphore_up(t, s) \/ sys_semaphore_down(t, s)
      PROVE  arg'[u] \notin holds'[u]
  BY <1>0, <1>4 DEF sys_semaphore_up, sys_semaphore_down, NotHeldYet
<1>5. ASSUME NEW t \in Threads, NEW c \in Condvars, sys_condvar_signal(t, c)
      PROVE  arg'[u] \notin holds'[u]
  BY <1>5 DEF sys_condvar_signal, NotHeldYet
<1>6. ASSUME NEW t \in Threads, NEW c \in Condvars, NEW m \in Mutexes, sys_condvar_wait(t, c, m)
      PROVE  arg'[u] \notin holds'[u]
  BY <1>0, <1>6 DEF sys_condvar_wait, NotHeldYet
<1>7. ASSUME NEW t \in Threads, Return(t) PROVE arg'[u] \notin holds'[u]
  BY <1>0, <1>7 DEF Return, NotHeldYet
<1>8. ASSUME NEW t \in Threads, Relock(t) \/ Spin(t) PROVE arg'[u] \notin holds'[u]
  <2>1. arg[t] \in Mutexes /\ lock(t, arg[t])
    BY <1>8 DEF Relock, Spin, IInv, CallHasObject
  <2> QED
    BY <2>1, <1>2
<1> QED
  BY <1>1, <1>2, <1>3, <1>4, <1>5, <1>6, <1>7, <1>8 DEF SyncNext, Call, Continue, sys_mutex_lock

(* A MutexBlocking serves its callers in the order of their calls: it      *)
(* implements the line of FifoLock, with the hand-over of unlock as the    *)
(* step to the next in line, so that a later caller, or a thread coming    *)
(* back from a condition variable, never gets in before a waiter.          *)
THEOREM MutexIsFifo == SyncSpec => ImplementsFifoLock
<1>1. SyncInit => IInv /\ NotHeldYet /\ Fifo!Init
  <2> SUFFICES ASSUME SyncInit PROVE NotHeldYet /\ Fifo!Init
    BY InitKeeps
  <2>1. NotHeldYet
    BY DEF SyncInit, NotHeldYet
  <2>2. \A m \in Blocking : ~mutex[m].locked
    BY SyncAssumption DEF SyncInit
  <2>3. Fifo!Init
    BY <2>2 DEF Fifo!Init
  <2> QED
    BY <2>1, <2>3
<1>2. IInv /\ NotHeldYet /\ [SyncNext]_syncVars => IInv' /\ NotHeldYet'
  BY NextKeeps, NextNotHeldYet
<1>3. IInv /\ NotHeldYet /\ [SyncNext]_syncVars => [Fifo!Next]_lines
  BY NextLineStep, LineStepIsFifo
<1> QED
  BY <1>1, <1>2, <1>3, PTL DEF SyncSpec, ImplementsFifoLock, Fifo!Spec, lines, Line
=============================================================================
