-------------------------- MODULE BlockCacheProofs --------------------------
(***************************************************************************)
(* The block cache cannot be told from the device, never runs out of       *)
(* blocks and loses nothing in a crash that it should not: for any device, *)
(* any cache that is larger than the handles of an operation, and any      *)
(* sequence of accesses and crashes.                                       *)
(***************************************************************************)
EXTENDS BlockCache, DiskWait, FiniteSetTheorems, WellFoundedInduction, TLAPS

Distinct(q) == \A i, j \in DOMAIN q : q[i] = q[j] => i = j

(* What makes the promises inductive: a block that is not marked is as on  *)
(* the device; only an operation marks blocks, through handles; and        *)
(* block_cache_sync_all has still to visit every block that is marked.     *)
IInv ==
    /\ CacheTypeOK /\ Coherent
    /\ \A b \in Range(queue) \ modified : cache[b] = disk[b]
    /\ todo # <<>> => working /\ held = <<>> /\ modified \subseteq Range(todo)
    /\ held # <<>> => working
    /\ ~working => modified = {}
    /\ \A b \in Blocks : disk[b] \in since[b] /\ stored[b] \in since[b]
-----------------------------------------------------------------------------
(* push_back. *)
LEMMA AppendSet ==
    ASSUME NEW S, NEW q \in Seq(S), NEW b \in S
    PROVE  /\ Append(q, b) \in Seq(S) /\ Range(Append(q, b)) = Range(q) \cup {b}
           /\ Distinct(q) /\ b \notin Range(q) => Distinct(Append(q, b))
<1> DEFINE n == Len(q)
           Q == Append(q, b)
<1>1. n \in Nat /\ DOMAIN q = 1 .. n /\ Q \in Seq(S) /\ DOMAIN Q = 1 .. n + 1
  OBVIOUS
<1>2. Q[n + 1] = b /\ \A i \in 1 .. n : Q[i] = q[i]
  OBVIOUS
<1>3. \A i : i \in 1 .. n + 1 <=> i \in 1 .. n \/ i = n + 1
  BY <1>1
<1> HIDE DEF n, Q
<1>4. Range(Q) = Range(q) \cup {b}
  BY <1>1, <1>2, <1>3 DEF Range
<1>5. ASSUME Distinct(q), b \notin Range(q) PROVE Distinct(Q)
  BY <1>1, <1>2, <1>3, <1>5 DEF Range, Distinct
<1> QED
  BY <1>1, <1>4, <1>5 DEF Q

(* A sequence without its first element. *)
LEMMA TailSet ==
    ASSUME NEW S, NEW q \in Seq(S), q # <<>>
    PROVE  /\ Head(q) \in S /\ Tail(q) \in Seq(S) /\ Range(q) = Range(Tail(q)) \cup {Head(q)}
<1> DEFINE n == Len(q)
           Q == Tail(q)
<1>1. n \in Nat /\ n > 0 /\ DOMAIN q = 1 .. n /\ Q \in Seq(S) /\ DOMAIN Q = 1 .. n - 1 /\ Head(q) \in S
  OBVIOUS
<1>2. q[1] = Head(q) /\ \A i \in 1 .. n - 1 : Q[i] = q[i + 1]
  OBVIOUS
<1>3. /\ 1 \in 1 .. n /\ \A i \in 1 .. n - 1 : i + 1 \in 1 .. n
      /\ \A i \in 1 .. n : i = 1 \/ (i - 1 \in 1 .. n - 1 /\ (i - 1) + 1 = i)
  BY <1>1
<1> HIDE DEF n, Q
<1>4. ASSUME NEW x \in Range(q) PROVE x \in Range(Q) \cup {Head(q)}
  <2>1. PICK i \in 1 .. n : x = q[i]
    BY <1>1 DEF Range
  <2>2. CASE i = 1
    BY <1>2, <2>1, <2>2
  <2>3. CASE i - 1 \in 1 .. n - 1 /\ (i - 1) + 1 = i
    <3>1. x = Q[i - 1] /\ i - 1 \in DOMAIN Q
      BY <1>1, <1>2, <2>1, <2>3
    <3> QED
      BY <3>1 DEF Range
  <2> QED
    BY <1>3, <2>2, <2>3
<1>5. ASSUME NEW x \in Range(Q) \cup {Head(q)} PROVE x \in Range(q)
  <2>1. CASE x = Head(q)
    BY <1>1, <1>2, <1>3, <2>1 DEF Range
  <2>2. CASE x \in Range(Q)
    <3>1. PICK i \in 1 .. n - 1 : x = Q[i]
      BY <1>1, <2>2 DEF Range
    <3> QED
      BY <1>1, <1>2, <1>3, <3>1 DEF Range
  <2> QED
    BY <2>1, <2>2
<1> QED
  BY <1>1, <1>4, <1>5 DEF Q

(* A sequence without its last element. *)
LEMMA FrontSet ==
    ASSUME NEW S, NEW q \in Seq(S), q # <<>>
    PROVE  /\ SubSeq(q, 1, Len(q) - 1) \in Seq(S) /\ Range(SubSeq(q, 1, Len(q) - 1)) \subseteq Range(q)
           /\ Len(SubSeq(q, 1, Len(q) - 1)) = Len(q) - 1
<1> DEFINE n == Len(q)
           Q == SubSeq(q, 1, Len(q) - 1)
<1>1. n \in Nat /\ n > 0 /\ DOMAIN q = 1 .. n
  OBVIOUS
<1>2. Q \in Seq(S) /\ Len(Q) = n - 1 /\ DOMAIN Q = 1 .. n - 1 /\ \A i \in 1 .. n - 1 : Q[i] = q[i]
  BY <1>1
<1>3. \A i \in 1 .. n - 1 : i \in 1 .. n
  BY <1>1
<1> HIDE DEF Q, n
<1>4. Range(Q) \subseteq Range(q)
  BY <1>1, <1>2, <1>3 DEF Range
<1> QED
  BY <1>2, <1>4 DEF Q, n

(* Two sequences put together. *)
LEMMA Joined ==
    ASSUME NEW S, NEW A \in Seq(S), NEW B \in Seq(S)
    PROVE  A \o B \in Seq(S) /\ Len(A \o B) = Len(A) + Len(B)
OBVIOUS

(* An element of the second of two sequences put together. *)
LEMMA SecondPart ==
    ASSUME NEW S, NEW A \in Seq(S), NEW B \in Seq(S), NEW i \in Len(A) + 1 .. Len(A) + Len(B)
    PROVE  (A \o B)[i] = B[i - Len(A)]
OBVIOUS

(* The elements of a sequence from the a-th on. *)
LEMMA LastPart ==
    ASSUME NEW S, NEW q \in Seq(S), NEW a \in 1 .. Len(q) + 1
    PROVE  /\ SubSeq(q, a, Len(q)) \in Seq(S) /\ Len(SubSeq(q, a, Len(q))) = Len(q) - a + 1
           /\ \A j \in 1 .. Len(q) - a + 1 : SubSeq(q, a, Len(q))[j] = q[a + j - 1]
OBVIOUS

(* drain of one element: it goes, the others stay. *)
LEMMA RemoveSet ==
    ASSUME NEW S, NEW q \in Seq(S), Distinct(q), NEW k \in DOMAIN q
    PROVE  /\ drained(q, k) \in Seq(S) /\ Len(drained(q, k)) = Len(q) - 1
           /\ Distinct(drained(q, k)) /\ Range(drained(q, k)) = Range(q) \ {q[k]}
<1> DEFINE n == Len(q)
           Q == drained(q, k)
           A == SubSeq(q, 1, k - 1)
           B == SubSeq(q, k + 1, n)
           f(i) == IF i < k THEN i ELSE i + 1
<1>1. n \in Nat /\ DOMAIN q = 1 .. n /\ k \in 1 .. n
  OBVIOUS
<1>2. Q \in Seq(S) /\ A \in Seq(S) /\ B \in Seq(S) /\ Len(Q) = n - 1 /\ DOMAIN Q = 1 .. n - 1
      /\ Len(A) = k - 1 /\ (\A j \in 1 .. k - 1 : A[j] = q[j])
      /\ Len(B) = n - k /\ (\A j \in 1 .. n - k : B[j] = q[k + j])
  <2>1. A \in Seq(S) /\ Len(A) = k - 1 /\ \A j \in 1 .. k - 1 : A[j] = q[j]
    BY <1>1
  <2>2. B \in Seq(S) /\ Len(B) = n - k /\ \A j \in 1 .. n - k : B[j] = q[k + j]
    <3>1. /\ k + 1 \in 1 .. n + 1 /\ n - (k + 1) + 1 = n - k
          /\ \A j \in 1 .. n - k : k + 1 + j - 1 = k + j
      BY <1>1
    <3> QED
      BY <1>1, <3>1, LastPart
  <2>3. Q = A \o B
    BY DEF drained
  <2> HIDE DEF A, B, Q, n
  <2>4. A \in Seq(S) /\ B \in Seq(S) /\ Len(A) = k - 1 /\ Len(B) = n - k
    BY <2>1, <2>2
  <2>5. Q \in Seq(S) /\ Len(Q) = Len(A) + Len(B)
    BY <2>3, <2>4, Joined
  <2>6. Len(Q) = n - 1
    BY <1>1, <2>4, <2>5
  <2> QED
    BY <2>1, <2>2, <2>5, <2>6
<1>3. ASSUME NEW i \in 1 .. n - 1 PROVE Q[i] = q[f(i)]
  <2>1. Q = A \o B
    BY DEF drained
  <2> HIDE DEF A, B, Q, n
  <2>2. CASE i < k
    <3>1. i \in 1 .. Len(A) /\ i \in 1 .. k - 1
      BY <1>1, <1>2, <2>2
    <3>2. Q[i] = A[i]
      BY <1>2, <2>1, <3>1
    <3> QED
      BY <1>2, <2>2, <3>1, <3>2
  <2>3. CASE ~(i < k)
    <3>1. Len(A) \in Nat /\ i \in Len(A) + 1 .. Len(A) + Len(B) /\ i - Len(A) = i - (k - 1)
      <4>1. Len(A) = k - 1 /\ Len(B) = n - k
        BY <1>2
      <4> QED
        BY <1>1, <2>3, <4>1
    <3>2. Q[i] = B[i - Len(A)]
      BY <1>2, <2>1, <3>1, SecondPart, SMTT(30)
    <3>3. i - (k - 1) \in 1 .. n - k /\ k + (i - (k - 1)) = i + 1
      BY <1>1, <2>3
    <3> QED
      BY <1>2, <2>3, <3>1, <3>2, <3>3, SMTT(30)
  <2> QED
    BY <2>2, <2>3
<1>4. /\ \A i \in 1 .. n - 1 : f(i) \in 1 .. n /\ f(i) # k
      /\ \A i, j \in 1 .. n - 1 : f(i) = f(j) => i = j
      /\ \A i \in 1 .. n : i # k => \E j \in 1 .. n - 1 : f(j) = i
  <2>1. \A i \in 1 .. n - 1 : f(i) \in 1 .. n /\ f(i) # k
    BY <1>1
  <2>2. \A i, j \in 1 .. n - 1 : f(i) = f(j) => i = j
    BY <1>1
  <2>3. ASSUME NEW i \in 1 .. n, i # k PROVE \E j \in 1 .. n - 1 : f(j) = i
    <3>1. CASE i < k
      <4>1. i \in 1 .. n - 1 /\ f(i) = i
        BY <1>1, <3>1
      <4> QED
        BY <4>1
    <3>2. CASE i > k
      <4>1. i - 1 \in 1 .. n - 1 /\ f(i - 1) = i
        BY <1>1, <3>2
      <4> QED
        BY <4>1
    <3> QED
      BY <1>1, <2>3, <3>1, <3>2
  <2> QED
    BY <2>1, <2>2, <2>3
<1> HIDE DEF n, Q, f
<1>5. Distinct(Q)
  BY <1>1, <1>2, <1>3, <1>4, SMTT(30) DEF Distinct
<1>6. ASSUME NEW x \in Range(Q) PROVE x \in Range(q) \ {q[k]}
  <2>1. PICK i \in 1 .. n - 1 : x = q[f(i)]
    BY <1>2, <1>3, ZenonT(30) DEF Range
  <2> QED
    BY <1>1, <1>4, <2>1 DEF Range, Distinct
<1>7. ASSUME NEW x \in Range(q) \ {q[k]} PROVE x \in Range(Q)
  <2>1. PICK i \in 1 .. n : x = q[i]
    BY <1>1 DEF Range
  <2>2. PICK j \in 1 .. n - 1 : f(j) = i
    BY <1>4, <2>1
  <2> QED
    BY <1>2, <1>3, <2>1, <2>2 DEF Range
<1> QED
  BY <1>2, <1>5, <1>6, <1>7, SMTT(30) DEF Q, n

(* Fewer handles than cached blocks leave one that nobody holds. *)
LEMMA SomeoneUnheld ==
    ASSUME NEW S, NEW q \in Seq(S), Distinct(q), NEW h \in Seq(S), Len(h) < Len(q)
    PROVE  \E i \in DOMAIN q : q[i] \notin Range(h)
<1> SUFFICES ASSUME \A i \in DOMAIN q : q[i] \in Range(h) PROVE FALSE
  OBVIOUS
<1> DEFINE n == Len(q)
           l == Len(h)
           f == [i \in 1 .. n |-> CHOOSE j \in 1 .. l : h[j] = q[i]]
<1>1. n \in Nat /\ l \in Nat /\ l < n /\ DOMAIN q = 1 .. n /\ DOMAIN h = 1 .. l
  OBVIOUS
<1> HIDE DEF n, l
<1>2. ASSUME NEW i \in 1 .. n PROVE f[i] \in 1 .. l /\ h[f[i]] = q[i]
  BY <1>1 DEF Range
<1>3. f \in [1 .. n -> 1 .. l]
  BY <1>2
<1> HIDE DEF f
<1>4. \A i, j \in 1 .. n : f[i] = f[j] => i = j
  BY <1>1, <1>2 DEF Distinct
<1>5. IsFiniteSet(1 .. n) /\ Cardinality(1 .. n) = n /\ IsFiniteSet(1 .. l) /\ Cardinality(1 .. l) = l
  <2>1. ASSUME NEW k \in Nat PROVE IsFiniteSet(1 .. k) /\ Cardinality(1 .. k) = k
    <3>1. IsFiniteSet(1 .. k) /\ Cardinality(1 .. k) = IF 1 > k THEN 0 ELSE k - 1 + 1
      <4>1. 1 \in Int /\ k \in Int
        OBVIOUS
      <4> QED
        BY <4>1, FS_Interval, Zenon
    <3>2. (IF 1 > k THEN 0 ELSE k - 1 + 1) = k
      OBVIOUS
    <3> QED
      BY <3>1, <3>2
  <2> QED
    BY <1>1, <2>1
<1>6. \E i, j \in 1 .. n : i # j /\ f[i] = f[j]
  BY <1>1, <1>3, <1>5, FS_PigeonHole
<1> QED
  BY <1>4, <1>6

(* A set of natural numbers has a least one. *)
LEMMA Least ==
    ASSUME NEW T, T \subseteq Nat, T # {}
    PROVE  \E x \in T : \A y \in T : x <= y
<1> DEFINE R == {ss \in Nat \X Nat : ss[1] < ss[2]}
<1>1. IsWellFoundedOn(R, Nat)
  BY NatLessThanWellFounded DEF OpToRel
<1>2. \A y, x \in Nat : <<y, x>> \in R <=> y < x
  OBVIOUS
<1> HIDE DEF R
<1>3. PICK x \in T : \A y \in T : ~(<<y, x>> \in R)
  BY <1>1, WFMin
<1>4. ASSUME NEW y \in T PROVE x <= y
  <2>1. x \in Nat /\ y \in Nat /\ ~(y < x)
    BY <1>2, <1>3
  <2> QED
    BY <2>1
<1> QED
  BY <1>4
-----------------------------------------------------------------------------
(* Constants of the model as the provers use them. *)
LEMMA Constants ==
    /\ Blank \in Values /\ Written \subseteq Blocks
    /\ BLOCK_CACHE_SIZE \in Nat /\ MaxHeld \in Nat /\ MaxHeld < BLOCK_CACHE_SIZE
BY BlockCacheAssumption

(* An empty cache. *)
LEMMA InitKeeps == Init => IInv
<1> SUFFICES ASSUME Init PROVE IInv
  OBVIOUS
<1>1. Range(<<>>) = {} /\ <<>> \in Seq(Blocks) /\ Len(<<>>) = 0
  BY DEF Range
<1>2. CacheTypeOK
  <2>1. Len(queue) <= BLOCK_CACHE_SIZE /\ Len(held) <= MaxHeld
    BY <1>1, Constants DEF Init
  <2>2. disk \in [Blocks -> Values] /\ cache = disk /\ stored = disk /\ since \in [Blocks -> SUBSET Values]
    BY Constants DEF Init
  <2> QED
    BY <1>1, <2>1, <2>2 DEF Init, CacheTypeOK
<1>3. Coherent
  BY <1>1 DEF Init, Coherent
<1> QED
  BY <1>1, <1>2, <1>3 DEF Init, IInv

(* modify. *)
LEMMA ModifyKeeps ==
    ASSUME IInv, NEW b \in Written, NEW v \in Values, modify(b, v)
    PROVE  IInv'
<1>1. /\ b \in Range(held) /\ modified' = modified \cup {b}
      /\ cache' = [cache EXCEPT ![b] = v] /\ stored' = [stored EXCEPT ![b] = v]
      /\ since' = [since EXCEPT ![b] = @ \cup {v}] /\ disk' = disk /\ queue' = queue
      /\ held' = held /\ todo' = todo /\ working' = working /\ panic' = panic
  BY DEF modify
<1>2. b \in Blocks /\ held # <<>> /\ todo = <<>> /\ working /\ b \in Range(queue)
  <2>1. held # <<>>
    BY <1>1 DEF Range
  <2> QED
    BY <1>1, <2>1, Constants DEF IInv, Coherent
<1>3. CacheTypeOK'
  BY <1>1, <1>2 DEF IInv, CacheTypeOK
<1>4. Coherent'
  BY <1>1, <1>2 DEF IInv, CacheTypeOK, Coherent
<1>5. \A x \in Blocks : disk'[x] \in since'[x] /\ stored'[x] \in since'[x]
  BY <1>1, <1>2 DEF IInv, CacheTypeOK
<1>6. \A x \in Range(queue)' \ modified' : cache'[x] = disk'[x]
  BY <1>1, <1>2 DEF IInv, CacheTypeOK
<1> QED
  BY <1>1, <1>2, <1>3, <1>4, <1>5, <1>6 DEF IInv

(* The end of a closure. *)
LEMMA ReleaseKeeps ==
    ASSUME IInv, Release
    PROVE  IInv'
<1>1. /\ held # <<>> /\ held' = SubSeq(held, 1, Len(held) - 1)
      /\ UNCHANGED <<disk, queue, cache, modified, todo, working, panic, stored, since>>
  BY DEF Release
<1>2. held \in Seq(Blocks) /\ Len(held) <= MaxHeld
  BY DEF IInv, CacheTypeOK
<1>3. held' \in Seq(Blocks) /\ Range(held)' \subseteq Range(held) /\ Len(held') = Len(held) - 1
  BY <1>1, <1>2, FrontSet
<1>4. working /\ todo = <<>>
  BY <1>1 DEF IInv
<1>5. CacheTypeOK'
  <2>1. Len(held') <= MaxHeld
    BY <1>2, <1>3, Constants
  <2> QED
    BY <1>1, <1>3, <2>1 DEF IInv, CacheTypeOK
<1>6. Coherent'
  BY <1>1, <1>3 DEF IInv, Coherent
<1> QED
  BY <1>1, <1>4, <1>5, <1>6 DEF IInv

(* The start of block_cache_sync_all. *)
LEMMA SyncAllKeeps ==
    ASSUME IInv, SyncAll
    PROVE  IInv'
<1>1. /\ working /\ held = <<>> /\ todo' = queue
      /\ UNCHANGED <<disk, queue, cache, modified, held, working, panic, stored, since>>
  BY DEF SyncAll
<1>2. CacheTypeOK'
  BY <1>1 DEF IInv, CacheTypeOK
<1>3. Coherent'
  BY <1>1 DEF IInv, Coherent
<1> QED
  BY <1>1, <1>2, <1>3 DEF IInv, Coherent

(* A crash. *)
LEMMA CrashKeeps ==
    ASSUME IInv, Crash
    PROVE  IInv'
<1>1. /\ queue' = <<>> /\ cache' = disk /\ modified' = {} /\ held' = <<>> /\ todo' = <<>>
      /\ working' = FALSE /\ stored' = disk /\ since' = [b \in Blocks |-> {disk[b]}]
      /\ disk' = disk /\ panic' = panic
  BY DEF Crash
<1>2. Range(<<>>) = {} /\ <<>> \in Seq(Blocks) /\ Len(<<>>) = 0
  BY DEF Range
<1>3. disk \in [Blocks -> Values] /\ panic \in BOOLEAN /\ ~panic
  BY DEF IInv, CacheTypeOK, Coherent
<1>4. CacheTypeOK'
  <2>1. Len(queue') <= BLOCK_CACHE_SIZE /\ Len(held') <= MaxHeld
    BY <1>1, <1>2, Constants
  <2>2. since' \in [Blocks -> SUBSET Values]
    BY <1>1, <1>3
  <2> QED
    BY <1>1, <1>2, <1>3, <2>1, <2>2 DEF CacheTypeOK
<1>5. Coherent'
  BY <1>1, <1>2, <1>3 DEF Coherent
<1> QED
  BY <1>1, <1>2, <1>3, <1>4, <1>5 DEF IInv

(* sync of one block. *)
LEMMA SyncKeeps ==
    ASSUME IInv, Sync
    PROVE  IInv'
<1> DEFINE b == Head(todo)
           rest == Tail(todo)
<1>1. /\ todo # <<>> /\ todo' = rest /\ modified' = modified \ {b}
      /\ disk' = IF b \in modified THEN [disk EXCEPT ![b] = cache[b]] ELSE disk
      /\ working' = (rest # <<>>)
      /\ since' = IF rest = <<>> THEN [x \in Blocks |-> {stored[x]}] ELSE since
      /\ queue' = queue /\ cache' = cache /\ held' = held /\ panic' = panic /\ stored' = stored
  BY DEF Sync
<1>2. /\ working /\ held = <<>> /\ modified \subseteq Range(todo)
      /\ b \in Blocks /\ rest \in Seq(Blocks) /\ Range(todo) = Range(rest) \cup {b}
  BY <1>1, TailSet DEF IInv, CacheTypeOK
<1> HIDE DEF b, rest
<1>3. \A x \in Blocks : disk'[x] = IF x = b /\ b \in modified THEN cache[x] ELSE disk[x]
  BY <1>1, <1>2 DEF IInv, CacheTypeOK
<1>4. disk' \in [Blocks -> Values] /\ modified \subseteq Blocks /\ modified \subseteq Range(queue)
      /\ Range(queue) \subseteq Blocks
  <2>1. Range(queue) \subseteq Blocks
    BY DEF IInv, CacheTypeOK, Range
  <2> QED
    BY <1>1, <1>2, <2>1 DEF IInv, CacheTypeOK, Coherent
<1>5. \A x \in Blocks : stored[x] = IF x \in Range(queue) THEN cache[x] ELSE disk'[x]
  BY <1>3, <1>4 DEF IInv, Coherent
<1>6. Coherent'
  BY <1>1, <1>4, <1>5 DEF IInv, Coherent
<1>7. \A x \in Range(queue) \ modified' : cache[x] = disk'[x]
  BY <1>1, <1>3, <1>4 DEF IInv
<1>8. modified' \subseteq Range(rest)
  BY <1>1, <1>2
<1>9. rest = <<>> => modified' = {}
  BY <1>8 DEF Range
<1>10. \A x \in Blocks : disk'[x] \in since[x] /\ stored[x] \in since[x]
  <2>1. \A x \in Blocks : disk'[x] = disk[x] \/ disk'[x] = stored[x]
    BY <1>3, <1>4 DEF IInv, Coherent
  <2> QED
    BY <2>1 DEF IInv
<1>11. \A x \in Blocks : disk'[x] \in since'[x] /\ stored[x] \in since'[x]
  <2>1. CASE rest = <<>>
    <3>1. \A x \in Blocks : disk'[x] = stored[x]
      BY <1>5, <1>7, <1>9, <2>1
    <3> QED
      BY <1>1, <2>1, <3>1
  <2>2. CASE rest # <<>>
    BY <1>1, <1>10, <2>2
  <2> QED
    BY <2>1, <2>2
<1>12. CacheTypeOK'
  <2>1. since' \in [Blocks -> SUBSET Values]
    BY <1>1 DEF IInv, CacheTypeOK
  <2> QED
    BY <1>1, <1>2, <1>4, <2>1 DEF IInv, CacheTypeOK
<1> QED
  BY <1>1, <1>2, <1>6, <1>7, <1>8, <1>9, <1>11, <1>12 DEF IInv

(* A handle on a block that is in the cache when it is taken. *)
LEMMA HoldKeeps ==
    ASSUME IInv, NEW b \in Blocks,
           todo = <<>>, Len(held) < MaxHeld, held' = Append(held, b), working' = TRUE,
           b \in Range(queue)', queue' \in Seq(Blocks), Len(queue') <= BLOCK_CACHE_SIZE,
           Distinct(queue'), Range(held) \subseteq Range(queue)',
           modified' \subseteq modified, modified' \subseteq Range(queue)',
           disk' \in [Blocks -> Values], cache' \in [Blocks -> Values],
           \A x \in Blocks : stored[x] = IF x \in Range(queue)' THEN cache'[x] ELSE disk'[x],
           \A x \in Range(queue)' \ modified' : cache'[x] = disk'[x],
           \A x \in Blocks : disk'[x] \in {disk[x], stored[x]},
           UNCHANGED <<todo, stored, since, panic>>
    PROVE  IInv'
<1>1. /\ held \in Seq(Blocks) /\ todo \in Seq(Blocks) /\ panic \in BOOLEAN /\ ~panic
      /\ modified \subseteq Blocks
      /\ stored \in [Blocks -> Values] /\ since \in [Blocks -> SUBSET Values]
  BY DEF IInv, CacheTypeOK, Coherent
<1>2. held' \in Seq(Blocks) /\ Range(held)' = Range(held) \cup {b}
  BY <1>1, AppendSet
<1>3. Len(held') <= MaxHeld
  BY <1>1, Constants
<1>4. CacheTypeOK'
  BY <1>1, <1>2, <1>3 DEF CacheTypeOK
<1>5. Coherent'
  BY <1>1, <1>2, SMTT(30) DEF Coherent, Distinct
<1>6. \A x \in Blocks : disk'[x] \in since'[x] /\ stored'[x] \in since'[x]
  BY DEF IInv
<1> QED
  BY <1>4, <1>5, <1>6 DEF IInv

(* get_block_cache. *)
LEMMA GetKeeps ==
    ASSUME IInv, NEW b \in Blocks, get_block_cache(b)
    PROVE  IInv'
<1> DEFINE Evictable == {i \in DOMAIN queue : queue[i] \notin Range(held)}
           idx == CHOOSE i \in Evictable : \A j \in Evictable : i <= j
           old == queue[idx]
<1>1. /\ todo = <<>> /\ Len(held) < MaxHeld /\ held' = Append(held, b) /\ working' = TRUE
      /\ UNCHANGED <<todo, stored, since>>
  BY DEF get_block_cache
<1>2. /\ queue \in Seq(Blocks) /\ Distinct(queue) /\ held \in Seq(Blocks)
      /\ Len(queue) <= BLOCK_CACHE_SIZE
      /\ disk \in [Blocks -> Values] /\ cache \in [Blocks -> Values]
      /\ modified \cup Range(held) \subseteq Range(queue)
      /\ \A x \in Blocks : stored[x] = IF x \in Range(queue) THEN cache[x] ELSE disk[x]
      /\ \A x \in Range(queue) \ modified : cache[x] = disk[x]
  BY DEF IInv, CacheTypeOK, Coherent, Distinct
<1>3. Range(queue) \subseteq Blocks
  BY <1>2 DEF Range
<1>4. CASE b \in Range(queue) /\ UNCHANGED <<queue, cache, modified, disk, panic>>
  BY <1>1, <1>2, <1>4, HoldKeeps, SMTT(30)
<1>5. CASE /\ b \notin Range(queue) /\ Len(queue) < BLOCK_CACHE_SIZE
           /\ UNCHANGED <<disk, modified, panic>> /\ Load(b, queue)
  <2>1. queue' = Append(queue, b) /\ cache' = [cache EXCEPT ![b] = disk[b]]
    BY <1>5 DEF Load
  <2>2. queue' \in Seq(Blocks) /\ Range(queue)' = Range(queue) \cup {b} /\ Distinct(queue')
    BY <1>2, <1>5, <2>1, AppendSet
  <2>3. Len(queue') <= BLOCK_CACHE_SIZE
    BY <1>2, <1>5, <2>1, Constants
  <2>4. cache' \in [Blocks -> Values] /\ cache'[b] = disk[b]
        /\ \A x \in Blocks \ {b} : cache'[x] = cache[x]
    BY <1>2, <2>1, SMTT(30)
  <2>5. \A x \in Blocks : stored[x] = IF x \in Range(queue)' THEN cache'[x] ELSE disk'[x]
    BY <1>2, <1>5, <2>2, <2>4, SMTT(30)
  <2>6. \A x \in Range(queue)' \ modified' : cache'[x] = disk'[x]
    BY <1>2, <1>3, <1>5, <2>2, <2>4, SMTT(30)
  <2> QED
    BY <1>1, <1>2, <1>5, <2>2, <2>3, <2>4, <2>5, <2>6, HoldKeeps
<1>6. CASE /\ b \notin Range(queue) /\ Len(queue) = BLOCK_CACHE_SIZE /\ Evictable # {}
           /\ Evict(old) /\ Load(b, drained(queue, idx)) /\ UNCHANGED panic
  <2>1. idx \in DOMAIN queue /\ old \notin Range(held)
    <3>1. Evictable \subseteq Nat
      BY <1>2
    <3>2. \E i \in Evictable : \A j \in Evictable : i <= j
      BY <1>6, <3>1, Least
    <3>3. idx \in Evictable
      BY <3>2
    <3> QED
      BY <3>3
  <2> DEFINE q == drained(queue, idx)
  <2> HIDE DEF Evictable, idx
  <2>2. /\ q \in Seq(Blocks) /\ Len(q) = Len(queue) - 1 /\ Distinct(q)
        /\ Range(q) = Range(queue) \ {old}
    <3>1. queue \in Seq(Blocks) /\ Distinct(queue) /\ idx \in DOMAIN queue
      BY <1>2, <2>1
    <3> QED
      BY <3>1, RemoveSet
  <2>3. old \in Range(queue) /\ old \in Blocks
    BY <1>3, <2>1 DEF Range
  <2>4. /\ disk' = IF old \in modified THEN [disk EXCEPT ![old] = cache[old]] ELSE disk
        /\ modified' = modified \ {old}
        /\ queue' = Append(q, b) /\ cache' = [cache EXCEPT ![b] = disk'[b]] /\ panic' = panic
    BY <1>6 DEF Evict, Load, Evictable, idx
  <2> HIDE DEF old, q
  <2>5. queue' \in Seq(Blocks) /\ Range(queue)' = Range(q) \cup {b} /\ Distinct(queue')
    BY <1>6, <2>2, <2>4, AppendSet
  <2>6. Len(queue') <= BLOCK_CACHE_SIZE
    BY <1>2, <2>2, <2>4, Constants
  <2>7. disk' \in [Blocks -> Values]
        /\ \A x \in Blocks : disk'[x] = IF x = old THEN cache[x] ELSE disk[x]
    BY <1>2, <2>3, <2>4
  <2>8. cache' \in [Blocks -> Values] /\ cache'[b] = disk'[b]
        /\ \A x \in Blocks \ {b} : cache'[x] = cache[x]
    BY <1>2, <2>4, <2>7
  <2>9. \A x \in Blocks : stored[x] = IF x \in Range(queue)' THEN cache'[x] ELSE disk'[x]
    BY <1>2, <1>6, <2>2, <2>3, <2>5, <2>7, <2>8, SMTT(30)
  <2>10. \A x \in Range(queue)' \ modified' : cache'[x] = disk'[x]
    BY <1>2, <1>3, <2>2, <2>3, <2>4, <2>5, <2>7, <2>8
  <2>11. \A x \in Blocks : disk'[x] \in {disk[x], stored[x]}
    BY <1>2, <2>3, <2>7
  <2>12. /\ Range(held) \subseteq Range(queue)' /\ modified' \subseteq Range(queue)'
         /\ modified' \subseteq modified /\ b \in Range(queue)'
    BY <1>2, <2>1, <2>2, <2>4, <2>5
  <2> QED
    BY <1>1, <2>4, <2>5, <2>6, <2>7, <2>8, <2>9, <2>10, <2>11, <2>12, HoldKeeps, SMTT(30)
<1>7. CASE Len(queue) = BLOCK_CACHE_SIZE /\ Evictable = {}
  <2>1. Len(held) < Len(queue)
    BY <1>1, <1>2, <1>7, Constants
  <2>2. \E i \in DOMAIN queue : queue[i] \notin Range(held)
    BY <1>2, <2>1, SomeoneUnheld
  <2> QED
    BY <1>7, <2>2
<1> QED
  BY <1>4, <1>5, <1>6, <1>7 DEF get_block_cache

(* Every step keeps IInv. *)
LEMMA NextKeeps == IInv /\ [Next]_vars => IInv'
<1> SUFFICES ASSUME IInv, [Next]_vars PROVE IInv'
  OBVIOUS
<1>1. CASE UNCHANGED vars
  BY <1>1 DEF vars, IInv, CacheTypeOK, Coherent
<1>2. ASSUME NEW b \in Blocks, get_block_cache(b) PROVE IInv'
  BY <1>2, GetKeeps
<1>3. ASSUME NEW b \in Written, NEW v \in Values, modify(b, v) PROVE IInv'
  BY <1>3, ModifyKeeps
<1> QED
  BY <1>1, <1>2, <1>3, ReleaseKeeps, SyncAllKeeps, SyncKeeps, CrashKeeps DEF Next

(* The cache of any size cannot be told from the device, and never runs    *)
(* out of blocks as long as it is larger than what one operation holds.    *)
THEOREM CacheIsCoherent == Spec => []CacheCoherent
<1>1. Init => IInv
  BY InitKeeps
<1>2. IInv /\ [Next]_vars => IInv'
  BY NextKeeps
<1>3. IInv => CacheCoherent
  BY DEF IInv, CacheCoherent
<1> QED
  BY <1>1, <1>2, <1>3, PTL DEF Spec

(* What an operation has written is on the device when it returns, and no  *)
(* crash leaves a block with anything older than the last return.          *)
THEOREM CacheIsDurable == Spec => []Durable
<1>1. Init => IInv
  BY InitKeeps
<1>2. IInv /\ [Next]_vars => IInv'
  BY NextKeeps
<1>3. IInv => Durable
  <2> SUFFICES ASSUME IInv PROVE Durable
    OBVIOUS
  <2>1. ASSUME ~working PROVE disk = stored
    <3>1. disk \in [Blocks -> Values] /\ stored \in [Blocks -> Values]
      BY DEF IInv, CacheTypeOK
    <3>2. \A b \in Blocks : disk[b] = stored[b]
      BY <2>1 DEF IInv, Coherent
    <3> QED
      BY <3>1, <3>2
  <2> QED
    BY <2>1 DEF IInv, Durable
<1> QED
  BY <1>1, <1>2, <1>3, PTL DEF Spec
-----------------------------------------------------------------------------
(* Waiting for the disk.  Zenon proves what needs no arithmetic; the other *)
(* leaves cite SMT.                                                        *)
USE ZenonT(30)

Outstanding == requests \cup Range(used_ring)

Caching == {"in_cache", "submitted"}

(* Where a task is tells who has the processor and the lock of the cache:  *)
(* a task sleeps on the disk with that lock, and the mode is "poll" only   *)
(* while the task on the processor is in exec.                             *)
TasksOK ==
    /\ \A t \in Tasks :
          /\ status[t] = "running" => cpu = t
          /\ cpu = t => status[t] = "running" \/ pc[t] = "submitted"
          /\ pc[t] = "submitted" => cpu = t /\ status[t] # "running"
          /\ manager = t <=> pc[t] \in Caching
          /\ status[t] = "blocked" => pc[t] \in Caching
    /\ ~nb => cpu # Nobody /\ call[cpu] = "exec" /\ pc[cpu] \notin {"user", "submitted"}

(* Every token that is out has a waiter of its own, and only these have.   *)
TokensOK ==
    /\ used_ring \in Seq(Tokens) /\ condvars \in [Tokens -> Seq(Tasks)]
    /\ requests \cap Range(used_ring) = {}
    /\ \A k \in Outstanding : \E t \in Tasks : condvars[k] = <<t>> /\ status[t] = "blocked"
    /\ \A k \in Tokens \ Outstanding : condvars[k] = <<>>
    /\ \A t \in Tasks : status[t] = "blocked" => \E k \in Outstanding : condvars[k] = <<t>>
    /\ \A j, k \in Outstanding : condvars[j] = condvars[k] => j = k

DiskIInv == DiskWaitTypeOK /\ TasksOK /\ TokensOK

(* The constants of the model of the disk. *)
LEMMA DiskConstants ==
    Nobody \notin Tasks /\ MaxAccesses \in Nat
BY DiskWaitAssumption DEF DiskWaitConstants

(* A queue of one task. *)
LEMMA QueueOfOne ==
    ASSUME NEW x
    PROVE  /\ <<x>> # <<>> /\ Head(<<x>>) = x /\ Tail(<<x>>) = <<>> /\ Append(<<>>, x) = <<x>>
           /\ \A y : <<x>> = <<y>> => x = y
           /\ \A S : x \in S => <<x>> \in Seq(S)
BY SMT

(* The tokens and their waiters stay as they are in every step that leaves *)
(* the device alone and blocks and wakes nobody.                           *)
LEMMA TokensStay ==
    ASSUME DiskIInv, UNCHANGED device,
           \A t \in Tasks : status'[t] = "blocked" <=> status[t] = "blocked"
    PROVE  TokensOK'
BY DEF DiskIInv, TokensOK, Outstanding, device

(* run_tasks gives the processor to a task. *)
LEMMA DispatchKeeps ==
    ASSUME DiskIInv, NEW t \in Tasks, Dispatch(t)
    PROVE  DiskIInv'
<1>1. DiskWaitTypeOK'
  BY DEF DiskIInv, Dispatch, DiskWaitTypeOK, locks, device
<1>2. TasksOK'
  BY DiskConstants DEF DiskIInv, Dispatch, DiskWaitTypeOK, TasksOK, locks
<1>3. TokensOK'
  BY TokensStay DEF DiskIInv, Dispatch, DiskWaitTypeOK
<1> QED
  BY <1>1, <1>2, <1>3 DEF DiskIInv

(* The timer takes it away in user mode. *)
LEMMA PreemptKeeps ==
    ASSUME DiskIInv, NEW t \in Tasks, Preempt(t)
    PROVE  DiskIInv'
<1>1. DiskWaitTypeOK'
  BY DEF DiskIInv, Preempt, DiskWaitTypeOK, locks, device
<1>2. TasksOK'
  BY DiskConstants DEF DiskIInv, Preempt, DiskWaitTypeOK, TasksOK, locks, Caching
<1>3. TokensOK'
  BY TokensStay DEF DiskIInv, Preempt, DiskWaitTypeOK, TasksOK, Caching
<1> QED
  BY <1>1, <1>2, <1>3 DEF DiskIInv

(* A file system call begins. *)
LEMMA EnterKeeps ==
    ASSUME DiskIInv, NEW t \in Tasks, NEW c \in {"exec", "read"}, NEW l \in {"wants_fs", "in_fs"},
           Enter(t, c, l)
    PROVE  DiskIInv'
<1>1. DiskWaitTypeOK'
  <2>1. MaxAccesses \in 0 .. MaxAccesses
    BY DiskConstants, SMT
  <2> QED
    BY <2>1 DEF DiskIInv, Enter, DiskWaitTypeOK, Goto, locks, device
<1>2. TasksOK'
  BY DiskConstants DEF DiskIInv, Enter, DiskWaitTypeOK, TasksOK, Goto, locks, Caching
<1>3. TokensOK'
  BY TokensStay DEF DiskIInv, Enter
<1> QED
  BY <1>1, <1>2, <1>3 DEF DiskIInv

(* It takes the lock of the file system. *)
LEMMA LockFsKeeps ==
    ASSUME DiskIInv, NEW t \in Tasks, LockFs(t)
    PROVE  DiskIInv'
<1>1. DiskWaitTypeOK'
  BY DEF DiskIInv, LockFs, DiskWaitTypeOK, Goto, device
<1>2. TasksOK'
  BY DiskConstants DEF DiskIInv, LockFs, DiskWaitTypeOK, TasksOK, Goto, Caching
<1>3. TokensOK'
  BY TokensStay DEF DiskIInv, LockFs
<1> QED
  BY <1>1, <1>2, <1>3 DEF DiskIInv

(* What a lookup or an access leaves to the call. *)
LEMMA OneLess ==
    ASSUME NEW n \in 0 .. MaxAccesses, n > 0
    PROVE  n - 1 \in 0 .. MaxAccesses
BY DiskConstants, SMT

(* It takes the lock of the block cache. *)
LEMMA LockManagerKeeps ==
    ASSUME DiskIInv, NEW t \in Tasks, LockManager(t)
    PROVE  DiskIInv'
<1>1. DiskWaitTypeOK'
  BY OneLess DEF DiskIInv, LockManager, DiskWaitTypeOK, Goto, device
<1>2. TasksOK'
  BY DiskConstants DEF DiskIInv, LockManager, DiskWaitTypeOK, TasksOK, Goto, Caching
<1>3. TokensOK'
  BY TokensStay DEF DiskIInv, LockManager
<1> QED
  BY <1>1, <1>2, <1>3 DEF DiskIInv

(* read_block or write_block, polling or with a request of its own. *)
LEMMA AccessKeeps ==
    ASSUME DiskIInv, NEW t \in Tasks, Access(t)
    PROVE  DiskIInv'
<1>1. CASE ~nb /\ UNCHANGED <<pc, status, device>>
  <2>1. DiskWaitTypeOK'
    BY <1>1, OneLess DEF DiskIInv, Access, DiskWaitTypeOK, locks, device
  <2>2. TasksOK'
    BY <1>1 DEF DiskIInv, Access, TasksOK, locks
  <2>3. TokensOK'
    BY <1>1, TokensStay DEF DiskIInv
  <2> QED
    BY <2>1, <2>2, <2>3 DEF DiskIInv
<1>2. ASSUME nb, Goto(t, "submitted"), NEW token \in Tokens \ Outstanding, Submit(t, token)
      PROVE  DiskIInv'
  <2>1. DiskWaitTypeOK /\ TasksOK /\ TokensOK /\ cpu = t /\ pc[t] = "in_cache" /\ status[t] = "running"
    BY DEF DiskIInv, Access, TasksOK
  <2>2. condvars' = [condvars EXCEPT ![token] = <<t>>]
    BY <1>2, <2>1, QueueOfOne DEF Submit, TokensOK
  <2>3. DiskWaitTypeOK'
    <3>1. \A k \in Tokens : Range(condvars'[k]) \subseteq Tasks
      <4>1. Range(<<t>>) = {t}
        BY SMT DEF Range
      <4> QED
        BY <2>1, <2>2, <4>1 DEF TokensOK, DiskWaitTypeOK
    <3> QED
      BY <1>2, <2>1, <3>1, OneLess DEF Access, DiskWaitTypeOK, Submit, Goto, locks
  <2>4. TasksOK'
    BY <1>2, <2>1, DiskConstants DEF Access, DiskWaitTypeOK, TasksOK, Submit, Goto, locks, Caching
  <2>5. TokensOK'
    <3>1. /\ Outstanding' = Outstanding \cup {token} /\ used_ring' = used_ring
          /\ requests' = requests \cup {token} /\ status' = [status EXCEPT ![t] = "blocked"]
      BY <1>2 DEF Submit, Outstanding
    <3>2. /\ condvars' \in [Tokens -> Seq(Tasks)]
          /\ condvars'[token] = <<t>> /\ \A k \in Tokens \ {token} : condvars'[k] = condvars[k]
          /\ status'[t] = "blocked" /\ \A u \in Tasks \ {t} : status'[u] = status[u]
      <4>1. condvars \in [Tokens -> Seq(Tasks)] /\ status \in [Tasks -> {"ready", "running", "blocked"}]
        BY <2>1 DEF TokensOK, DiskWaitTypeOK
      <4> QED
        BY <1>2, <2>2, <3>1, <4>1, QueueOfOne
    <3>3. Outstanding \subseteq Tokens /\ requests' \cap Range(used_ring') = {}
      <4>1. requests \subseteq Tokens /\ Range(used_ring) \subseteq Tokens /\ requests \cap Range(used_ring) = {}
        BY <2>1 DEF DiskWaitTypeOK, TokensOK
      <4> QED
        BY <1>2, <3>1, <4>1 DEF Outstanding
    <3>4. \A k \in Outstanding : \E u \in Tasks : condvars[k] = <<u>> /\ status[u] = "blocked"
      BY <2>1 DEF TokensOK
    <3>5. \A k \in Outstanding : condvars'[k] = condvars[k]
      BY <1>2, <3>2, <3>3
    <3>6. \A k \in Outstanding : condvars[k] # <<t>>
      BY <2>1, <3>4, QueueOfOne
    <3>7. \A k \in Outstanding' : \E u \in Tasks : condvars'[k] = <<u>> /\ status'[u] = "blocked"
      <4>1. ASSUME NEW k \in Outstanding
            PROVE  \E u \in Tasks : condvars'[k] = <<u>> /\ status'[u] = "blocked"
        <5>1. PICK u \in Tasks : condvars[k] = <<u>> /\ status[u] = "blocked"
          BY <3>4
        <5> QED
          BY <2>1, <3>2, <3>5, <5>1
      <4> QED
        BY <3>1, <3>2, <4>1
    <3>8. \A k \in Tokens \ Outstanding' : condvars'[k] = <<>>
      <4>1. \A k \in Tokens \ Outstanding : condvars[k] = <<>>
        BY <2>1 DEF TokensOK
      <4> QED
        BY <3>1, <3>2, <4>1
    <3>9. \A u \in Tasks : status'[u] = "blocked" => \E k \in Outstanding' : condvars'[k] = <<u>>
      <4>1. \A u \in Tasks : status[u] = "blocked" => \E k \in Outstanding : condvars[k] = <<u>>
        BY <2>1 DEF TokensOK
      <4> QED
        BY <3>1, <3>2, <3>5, <4>1
    <3>10. \A j, k \in Outstanding' : condvars'[j] = condvars'[k] => j = k
      <4>1. \A j, k \in Outstanding : condvars[j] = condvars[k] => j = k
        BY <2>1 DEF TokensOK
      <4>2. \A j \in Outstanding : condvars'[j] # condvars'[token]
        BY <3>2, <3>5, <3>6
      <4>3. \A j, k \in Outstanding : condvars'[j] = condvars'[k] => j = k
        BY <3>5, <4>1
      <4> QED
        BY <3>1, <4>2, <4>3
    <3>11. used_ring' \in Seq(Tokens)
      BY <2>1, <3>1 DEF TokensOK
    <3> QED
      BY <3>2, <3>3, <3>7, <3>8, <3>9, <3>10, <3>11 DEF TokensOK
  <2> QED
    BY <2>3, <2>4, <2>5 DEF DiskIInv
<1> QED
  BY <1>1, <1>2 DEF Access, Outstanding

(* The waiting task gives up the processor. *)
LEMMA ScheduleKeeps ==
    ASSUME DiskIInv, NEW t \in Tasks, Schedule(t)
    PROVE  DiskIInv'
<1>1. DiskWaitTypeOK'
  BY DEF DiskIInv, Schedule, DiskWaitTypeOK, Goto, locks, device
<1>2. TasksOK'
  <2>1. /\ cpu = t /\ pc[t] = "submitted" /\ status[t] # "running" /\ nb
        /\ pc \in [Tasks -> {"user", "wants_fs", "in_fs"} \cup Caching]
        /\ cpu' = Nobody /\ nb' = nb /\ status' = status /\ manager' = manager
        /\ pc'[t] = "in_cache" /\ \A u \in Tasks \ {t} : pc'[u] = pc[u]
    BY DEF DiskIInv, Schedule, TasksOK, DiskWaitTypeOK, Goto, locks, Caching
  <2> QED
    BY <2>1, DiskConstants DEF DiskIInv, TasksOK, Caching
<1>3. TokensOK'
  BY TokensStay DEF DiskIInv, Schedule
<1> QED
  BY <1>1, <1>2, <1>3 DEF DiskIInv

(* The lock of the block cache is released. *)
LEMMA UnlockManagerKeeps ==
    ASSUME DiskIInv, NEW t \in Tasks, UnlockManager(t)
    PROVE  DiskIInv'
<1>1. DiskWaitTypeOK'
  BY DEF DiskIInv, UnlockManager, DiskWaitTypeOK, Goto, device
<1>2. TasksOK'
  BY DiskConstants DEF DiskIInv, UnlockManager, DiskWaitTypeOK, TasksOK, Goto, Caching
<1>3. TokensOK'
  BY TokensStay DEF DiskIInv, UnlockManager
<1> QED
  BY <1>1, <1>2, <1>3 DEF DiskIInv

(* The call returns. *)
LEMMA ReturnKeeps ==
    ASSUME DiskIInv, NEW t \in Tasks, Return(t)
    PROVE  DiskIInv'
<1>1. DiskWaitTypeOK'
  BY DEF DiskIInv, Return, DiskWaitTypeOK, Goto, device
<1>2. TasksOK'
  BY DiskConstants DEF DiskIInv, Return, DiskWaitTypeOK, TasksOK, Goto, Caching
<1>3. TokensOK'
  BY TokensStay DEF DiskIInv, Return
<1> QED
  BY <1>1, <1>2, <1>3 DEF DiskIInv

(* The device finishes a request: the token is out as before. *)
LEMMA CompleteKeeps ==
    ASSUME DiskIInv, NEW token \in Tokens, Complete(token)
    PROVE  DiskIInv'
<1>1. /\ DiskWaitTypeOK /\ TasksOK /\ TokensOK /\ used_ring \in Seq(Tokens)
      /\ token \in requests /\ requests \cap Range(used_ring) = {}
  BY DEF DiskIInv, TokensOK, Complete
<1>2. /\ requests' = requests \ {token} /\ used_ring' \in Seq(Tokens)
      /\ Range(used_ring') = Range(used_ring) \cup {token}
  <2>1. used_ring \in Seq(Tokens)
    BY <1>1
  <2>2. /\ Append(used_ring, token) \in Seq(Tokens)
        /\ Range(Append(used_ring, token)) = Range(used_ring) \cup {token}
    BY <2>1, AppendSet, SMT
  <2> QED
    BY <2>2 DEF Complete
<1>3. Outstanding' = Outstanding /\ requests' \cap Range(used_ring') = {}
  BY <1>1, <1>2 DEF Outstanding
<1>4. DiskWaitTypeOK'
  BY <1>1, <1>2 DEF Complete, DiskWaitTypeOK, locks
<1>5. TasksOK'
  BY <1>1 DEF Complete, TasksOK, locks
<1>6. TokensOK'
  BY <1>1, <1>2, <1>3 DEF Complete, TokensOK
<1> QED
  BY <1>4, <1>5, <1>6 DEF DiskIInv

(* The interrupt handler wakes the waiter of every token in the used ring. *)
LEMMA IrqKeeps ==
    ASSUME DiskIInv, handle_irq
    PROVE  DiskIInv'
<1> DEFINE done == Range(used_ring)
           Woken == {Head(condvars[k]) : k \in {j \in done : condvars[j] # <<>>}}
<1>1. /\ DiskWaitTypeOK /\ TasksOK /\ done \subseteq Tokens /\ requests \subseteq Tokens
      /\ requests \cap done = {} /\ condvars \in [Tokens -> Seq(Tasks)]
      /\ status \in [Tasks -> {"ready", "running", "blocked"}]
  BY DEF DiskIInv, DiskWaitTypeOK, TokensOK
<1>2. \A k \in requests \cup done : \E t \in Tasks : condvars[k] = <<t>> /\ status[t] = "blocked"
  BY DEF DiskIInv, TokensOK, Outstanding
<1>3. \A k \in Tokens \ (requests \cup done) : condvars[k] = <<>>
  BY DEF DiskIInv, TokensOK, Outstanding
<1>4. \A t \in Tasks : status[t] = "blocked" => \E k \in requests \cup done : condvars[k] = <<t>>
  BY DEF DiskIInv, TokensOK, Outstanding
<1>5. \A j, k \in requests \cup done : condvars[j] = condvars[k] => j = k
  BY DEF DiskIInv, TokensOK, Outstanding
<1>6. \A t \in Tasks : t \in Woken <=> \E k \in done : condvars[k] = <<t>>
  <2>1. ASSUME NEW k \in done PROVE condvars[k] = <<Head(condvars[k])>>
    <3>1. PICK t \in Tasks : condvars[k] = <<t>>
      BY <1>2
    <3> QED
      BY <3>1, QueueOfOne
  <2>2. ASSUME NEW t \in Tasks, NEW k \in done, condvars[k] = <<t>> PROVE t \in Woken
    <3>1. condvars[k] # <<>> /\ Head(condvars[k]) = t
      BY <2>2, QueueOfOne
    <3> QED
      BY <3>1
  <2>3. ASSUME NEW t \in Tasks, t \in Woken PROVE \E k \in done : condvars[k] = <<t>>
    <3>1. PICK k \in done : condvars[k] # <<>> /\ t = Head(condvars[k])
      BY <2>3
    <3> QED
      BY <2>1, <3>1
  <2> QED
    BY <2>2, <2>3
<1>7. /\ status' \in [Tasks -> {"ready", "running", "blocked"}]
      /\ \A t \in Tasks : status'[t] = IF t \in Woken THEN "ready" ELSE status[t]
  BY <1>1 DEF handle_irq
<1>8. /\ condvars' \in [Tokens -> Seq(Tasks)]
      /\ \A k \in done : condvars'[k] = <<>>
      /\ \A k \in Tokens \ done : condvars'[k] = condvars[k]
  <2>1. condvars' = [k \in Tokens |-> IF k \in done /\ condvars[k] # <<>>
                                        THEN Tail(condvars[k]) ELSE condvars[k]]
    BY DEF handle_irq
  <2>2. ASSUME NEW k \in done PROVE condvars[k] # <<>> /\ Tail(condvars[k]) = <<>>
    <3>1. PICK t \in Tasks : condvars[k] = <<t>>
      BY <1>2
    <3> QED
      BY <3>1, QueueOfOne
  <2>3. <<>> \in Seq(Tasks)
    BY SMT
  <2> QED
    BY <1>1, <2>1, <2>2, <2>3
<1>9. used_ring' = <<>> /\ <<>> \in Seq(Tokens) /\ Range(<<>>) = {} /\ requests' = requests
  <2>1. <<>> \in Seq(Tokens) /\ Range(<<>>) = {}
    BY SMT DEF Range
  <2> QED
    BY <2>1 DEF handle_irq
<1> HIDE DEF done, Woken
<1>10. DiskWaitTypeOK'
  <2>1. \A k \in Tokens : Range(condvars'[k]) \subseteq Tasks
    BY <1>1, <1>8, <1>9 DEF DiskWaitTypeOK
  <2> QED
    BY <1>1, <1>7, <1>9, <2>1 DEF DiskWaitTypeOK, handle_irq, locks
<1>11. \A t \in Tasks : t \in Woken => status[t] = "blocked"
  <2> SUFFICES ASSUME NEW t \in Tasks, t \in Woken PROVE status[t] = "blocked"
    OBVIOUS
  <2>1. PICK k \in done : condvars[k] = <<t>>
    BY <1>6
  <2>2. PICK u \in Tasks : condvars[k] = <<u>> /\ status[u] = "blocked"
    BY <1>2
  <2> QED
    BY <2>1, <2>2, QueueOfOne
<1>12. TasksOK'
  <2>1. UNCHANGED <<cpu, pc, call, manager, nb>>
    BY DEF handle_irq, locks
  <2>2. \A t \in Tasks : /\ status'[t] = "running" <=> status[t] = "running"
                         /\ status'[t] = "blocked" => status[t] = "blocked"
    BY <1>7, <1>11
  <2> QED
    BY <1>1, <2>1, <2>2 DEF TasksOK
<1>13. \A k \in requests : \E t \in Tasks : condvars'[k] = <<t>> /\ status'[t] = "blocked"
  <2> SUFFICES ASSUME NEW k \in requests
               PROVE  \E t \in Tasks : condvars'[k] = <<t>> /\ status'[t] = "blocked"
    OBVIOUS
  <2>1. PICK t \in Tasks : condvars[k] = <<t>> /\ status[t] = "blocked"
    BY <1>2
  <2>2. t \notin Woken
    BY <1>1, <1>5, <1>6, <2>1
  <2>3. condvars'[k] = condvars[k]
    BY <1>1, <1>8
  <2> QED
    BY <1>7, <2>1, <2>2, <2>3
<1>14. \A k \in Tokens \ requests : condvars'[k] = <<>>
  BY <1>3, <1>8
<1>15. \A t \in Tasks : status'[t] = "blocked" => \E k \in requests : condvars'[k] = <<t>>
  <2> SUFFICES ASSUME NEW t \in Tasks, status'[t] = "blocked"
               PROVE  \E k \in requests : condvars'[k] = <<t>>
    OBVIOUS
  <2>1. t \notin Woken /\ status[t] = "blocked"
    BY <1>7
  <2>2. PICK k \in requests \cup done : condvars[k] = <<t>>
    BY <1>4, <2>1
  <2>3. k \in requests
    BY <1>6, <2>1, <2>2
  <2> QED
    BY <1>1, <1>8, <2>2, <2>3
<1>16. \A j, k \in requests : condvars'[j] = condvars'[k] => j = k
  <2>1. \A k \in requests : condvars'[k] = condvars[k]
    BY <1>1, <1>8
  <2> QED
    BY <1>5, <2>1
<1>17. TokensOK'
  <2>1. Outstanding' = requests
    BY <1>9 DEF Outstanding
  <2> QED
    BY <1>8, <1>9, <1>13, <1>14, <1>15, <1>16, <2>1 DEF TokensOK
<1> QED
  BY <1>10, <1>12, <1>17 DEF DiskIInv

(* The tasks in user mode with the device idle. *)
LEMMA DiskInitKeeps == DiskInit => DiskIInv
<1> SUFFICES ASSUME DiskInit PROVE DiskIInv
  OBVIOUS
<1>1. 0 \in 0 .. MaxAccesses
  BY DiskConstants, SMT
<1>2. \A S : <<>> \in Seq(S) /\ Range(<<>>) = {}
  BY SMT DEF Range
<1>3. DiskWaitTypeOK
  BY <1>1, <1>2 DEF DiskInit, DiskWaitTypeOK
<1>4. TasksOK
  BY DiskConstants DEF DiskInit, TasksOK, Caching
<1>5. TokensOK
  BY <1>2 DEF DiskInit, TokensOK, Outstanding
<1> QED
  BY <1>3, <1>4, <1>5 DEF DiskIInv

(* Every step of tasks, processor and device. *)
LEMMA DiskNextKeeps == DiskIInv /\ [DiskNext]_diskVars => DiskIInv'
<1>1. ASSUME DiskIInv, UNCHANGED diskVars PROVE DiskIInv'
  BY <1>1 DEF diskVars, DiskIInv, DiskWaitTypeOK, TasksOK, TokensOK, Outstanding
<1>2. ASSUME DiskIInv, NEW t \in Tasks, InKernel(t) PROVE DiskIInv'
  BY <1>2, LockFsKeeps, LockManagerKeeps, AccessKeeps, ScheduleKeeps, UnlockManagerKeeps, ReturnKeeps
     DEF InKernel
<1>3. ASSUME DiskIInv, DiskNext PROVE DiskIInv'
  BY <1>2, <1>3, DispatchKeeps, PreemptKeeps, EnterKeeps, CompleteKeeps, IrqKeeps DEF DiskNext
<1> QED
  BY <1>1, <1>3

(* A task that sleeps on the disk holds the lock of the cache, so beside   *)
(* one that is in the cache no token is out.                               *)
LEMMA CacheLockExcludes ==
    ASSUME DiskIInv, cpu \in Tasks, pc[cpu] = "in_cache"
    PROVE  Outstanding = {}
<1>1. manager = cpu /\ status[cpu] = "running"
  BY DEF DiskIInv, TasksOK, Caching
<1>2. ASSUME NEW k \in Outstanding PROVE FALSE
  <2>1. PICK t \in Tasks : status[t] = "blocked"
    BY DEF DiskIInv, TokensOK
  <2>2. manager = t
    BY <2>1 DEF DiskIInv, TasksOK
  <2> QED
    BY <1>1, <2>1, <2>2
<1> QED
  BY <1>2

(* No wakeup from the disk is lost or goes to the wrong task, and exec     *)
(* never pops the answer to another task's request, for any number of      *)
(* tasks, descriptors of the virtio queue and accesses of a call, and in   *)
(* whatever order the disk answers and its interrupt comes.                *)
THEOREM DiskWakeupsExact == DiskSpec => []DiskWaitSafe
<1>1. DiskIInv => DiskWaitSafe
  <2> SUFFICES ASSUME DiskIInv PROVE DiskWaitSafe
    OBVIOUS
  <2>1. NoLostDiskWakeup
    <3>1. \A t \in Tasks : \A k \in Outstanding : condvars[k] = <<t>> => status[t] = "blocked"
      <4> SUFFICES ASSUME NEW t \in Tasks, NEW k \in Outstanding, condvars[k] = <<t>>
                   PROVE  status[t] = "blocked"
        OBVIOUS
      <4>1. PICK u \in Tasks : condvars[k] = <<u>> /\ status[u] = "blocked"
        BY DEF DiskIInv, TokensOK
      <4> QED
        BY <4>1, QueueOfOne
    <3>2. \A t \in Tasks : status[t] = "blocked" => \E k \in Outstanding : condvars[k] = <<t>>
      BY DEF DiskIInv, TokensOK
    <3>3. \A k \in Tokens \ Outstanding : condvars[k] = <<>>
      BY DEF DiskIInv, TokensOK
    <3> QED
      BY <3>1, <3>2, <3>3 DEF NoLostDiskWakeup, Outstanding
  <2>2. PollsAlone
    <3>1. ~nb => cpu # Nobody /\ call[cpu] = "exec" /\ pc[cpu] # "user"
      BY DEF DiskIInv, TasksOK
    <3>2. ASSUME ~nb, pc[cpu] = "in_cache" PROVE requests = {} /\ used_ring = <<>>
      <4>1. cpu \in Tasks /\ used_ring \in Seq(Tokens)
        BY <3>1, <3>2 DEF DiskIInv, DiskWaitTypeOK, TokensOK
      <4>2. Outstanding = {}
        BY <3>2, <4>1, CacheLockExcludes
      <4>3. used_ring # <<>> => used_ring[1] \in Range(used_ring)
        BY <4>1, SMT DEF Range
      <4> QED
        BY <4>2, <4>3 DEF Outstanding
    <3> QED
      BY <3>1, <3>2 DEF PollsAlone
  <2> QED
    BY <2>1, <2>2 DEF DiskIInv, DiskWaitSafe
<1> QED
  BY <1>1, DiskInitKeeps, DiskNextKeeps, PTL DEF DiskSpec
=============================================================================
