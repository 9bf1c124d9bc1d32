---------------------------- MODULE MemoryProofs ----------------------------
(***************************************************************************)
(* Copy-on-write is sound for any number of address spaces, pages and      *)
(* frames: the reference counts are exact, page tables and areas agree, a  *)
(* writable page is in one space only, and the whole implements address    *)
(* spaces that share nothing (PrivateMemory).                              *)
(* The frame allocator accounts for every frame and implements FramePool,  *)
(* for memories of every size, any number of trackers on a frame and DMA   *)
(* requests of any length.                                                 *)
(***************************************************************************)
EXTENDS CowMemory, FrameAllocator, FiniteSetTheorems, TLAPS

(* Zenon proves what needs no arithmetic; the other leaves cite SMT. *)
USE ZenonT(30)

Entry == [ppn : Frames \cup {NoFrame}, w : BOOLEAN, cow : BOOLEAN, u : BOOLEAN]

(* The trackers on a frame. *)
Holders(df, f) == {x \in Spaces \X Pages : df[x[1]][x[2]] = f}

RefExact(rc, df) == \A f \in Frames : rc[f] = Cardinality(Holders(df, f))

Apart(A) == \A a, b \in A : a # b => vpn_range(a) \cap vpn_range(b) = {}

(* An entry gives the rights of its area, as writable or as copy-on-write. *)
Permits(e, a) ==
    /\ e.u = a.u
    /\ (e.w # e.cow) = a.w
    /\ ~(e.w /\ e.cow)

(* The areas A, trackers D and page table T of one address space agree. *)
SpaceOK(A, D, T) ==
    /\ A \in SUBSET Area /\ D \in [Pages -> Frames \cup {NoFrame}] /\ T \in [Pages -> Entry]
    /\ Apart(A)
    /\ \A p \in Pages : D[p] # NoFrame <=> p \in PagesOf(A)
    /\ \A p, q \in Pages : D[p] = D[q] /\ D[p] # NoFrame => p = q
    /\ \A p \in Pages : /\ T[p].ppn = D[p]
                        /\ is_valid(T[p]) <=> p \in PagesOf(A)
                        /\ is_valid(T[p]) => Permits(T[p], AreaAt(A, p))

(* A process that has not started or has exited holds nothing. *)
SpacesOK ==
    \A s \in Spaces :
        IF Alive(s) THEN SpaceOK(areas[s], data_frames[s], pte[s])
        ELSE areas[s] = {} /\ data_frames[s] = NoData /\ pte[s] \in [Pages -> Entry]

(* A page that is written without a fault is tracked by one space only. *)
Sole ==
    \A s \in Spaces, p \in Pages : Alive(s) /\ pte[s][p].w =>
        \A r \in Spaces, q \in Pages : data_frames[r][q] = data_frames[s][p] => r = s

(* The frames a blocked sys_read will fill are writable pages of its own. *)
BufferOK ==
    \A s \in Spaces : state[s] = "reading" =>
        \A f \in buffer[s] : \E p \in Pages : pte[s][p].ppn = f /\ pte[s][p].w /\ pte[s][p].u

IInv ==
    /\ TypeOK
    /\ RefExact(owners, data_frames)
    /\ SpacesOK
    /\ Sole
    /\ BufferOK
-----------------------------------------------------------------------------
(***************************************************************************)
(* Frames.                                                                 *)
(***************************************************************************)

(* Pages, their areas and the trackers are finite sets. *)
LEMMA PagesFinite ==
    /\ IsFiniteSet(Pages) /\ IsFiniteSet(Spaces \X Pages)
    /\ \A A \in SUBSET Area : PagesOf(A) \subseteq Pages
    /\ \A a \in Area : vpn_range(a) \subseteq Pages
<1>1. IsFiniteSet(Pages)
  BY CowAssumption, FS_Interval, SMT DEF Pages
<1>2. IsFiniteSet(Spaces \X Pages)
  BY <1>1, CowAssumption, FS_Product
<1>3. \A a \in Area : vpn_range(a) \subseteq Pages
  BY CowAssumption, SMT DEF Area, vpn_range, Pages
<1>4. \A A \in SUBSET Area : PagesOf(A) \subseteq Pages
  BY <1>3 DEF PagesOf
<1> QED
  BY <1>1, <1>2, <1>3, <1>4

(* What frame_alloc returns: different frames, all of them free. *)
IsGrant(g, P, free) ==
    /\ g \in [P -> free] /\ DOMAIN g = P
    /\ \A p, q \in P : g[p] = g[q] => p = q

(* An allocation for which there is enough memory succeeds. *)
LEMMA AllocGrants ==
    ASSUME NEW P \in SUBSET Pages, NEW free \in SUBSET Frames, Enough(P, free)
    PROVE  IsGrant(frame_alloc(P, free), P, free)
<1>1. IsFiniteSet(P) /\ IsFiniteSet(free)
  BY PagesFinite, CowAssumption, FS_Subset
<1> DEFINE n == Cardinality(P)
           m == Cardinality(free)
<1>2. /\ n \in Nat /\ m \in Nat /\ n <= m
      /\ ExistsBijection(1 .. n, P) /\ ExistsBijection(1 .. m, free)
  BY <1>1, FS_CardinalityType DEF Enough
<1> HIDE DEF n, m
<1>3. PICK f \in Bijection(1 .. n, P) : TRUE
  BY <1>2 DEF ExistsBijection
<1>4. PICK g \in Bijection(1 .. m, free) : TRUE
  BY <1>2 DEF ExistsBijection
<1>5. \A p \in P : \E i \in 1 .. n : f[i] = p
  BY <1>3 DEF Bijection, Surjection
<1>6. /\ g \in [1 .. m -> free]
      /\ \A i, j \in 1 .. m : g[i] = g[j] => i = j
  BY <1>4 DEF Bijection, Injection, IsInjective
<1> DEFINE at == [p \in P |-> CHOOSE i \in 1 .. n : f[i] = p]
           h == [p \in P |-> g[at[p]]]
<1>7. \A p \in P : at[p] \in 1 .. m /\ f[at[p]] = p
  BY <1>2, <1>5, SMT
<1> HIDE DEF at
<1>8. h \in Grants(P, free)
  BY <1>6, <1>7, SMT DEF Grants
<1>9. frame_alloc(P, free) \in Grants(P, free)
  BY <1>8 DEF frame_alloc
<1> QED
  BY <1>9 DEF Grants, IsGrant

(* The trackers on a frame are finitely many. *)
LEMMA HoldersFinite ==
    ASSUME NEW df, NEW f
    PROVE  /\ IsFiniteSet(Holders(df, f)) /\ Cardinality(Holders(df, f)) \in Nat
           /\ Cardinality(Holders(df, f)) = 0 <=> Holders(df, f) = {}
<1>1. IsFiniteSet(Holders(df, f))
  BY PagesFinite, FS_Subset DEF Holders
<1> QED
  BY <1>1, FS_CardinalityType, FS_EmptySet

(* A frame whose count is zero is tracked nowhere. *)
LEMMA FreeUntracked ==
    ASSUME NEW rc, NEW df, RefExact(rc, df), NEW f \in Free(rc),
           NEW s \in Spaces, NEW p \in Pages
    PROVE  df[s][p] # f
<1>1. f \in Frames /\ rc[f] = 0
  BY DEF Free
<1>2. Holders(df, f) = {}
  BY <1>1, HoldersFinite DEF RefExact
<1>3. <<s, p>> \in Spaces \X Pages
  OBVIOUS
<1> QED
  BY <1>2, <1>3, SMT DEF Holders

(* The pages of P that space s tracks on f, and the trackers that are.     *)
PagesOn(df, f, s, P) == {p \in P : df[s][p] = f}
HoldersIn(df, f, s, P) == {x \in {s} \X P : df[s][x[2]] = f}

(* They are equally many. *)
LEMMA OneSpaceCount ==
    ASSUME NEW df, NEW f, NEW s \in Spaces, NEW P \in SUBSET Pages
    PROVE  /\ IsFiniteSet(HoldersIn(df, f, s, P))
           /\ Cardinality(HoldersIn(df, f, s, P)) = Cardinality(PagesOn(df, f, s, P))
<1> DEFINE on == {p \in P : df[s][p] = f}
           here == {x \in {s} \X P : df[s][x[2]] = f}
           h == [p \in on |-> <<s, p>>]
<1>1. IsFiniteSet(on)
  BY PagesFinite, FS_Subset
<1>2. h \in [on -> here]
  OBVIOUS
<1>3. \A p, q \in on : h[p] = h[q] => p = q
  OBVIOUS
<1>4. \A x \in here : \E p \in on : h[p] = x
  <2> SUFFICES ASSUME NEW x \in here PROVE \E p \in on : h[p] = x
    OBVIOUS
  <2>1. x[2] \in on /\ x = <<s, x[2]>>
    BY SMT
  <2> QED
    BY <2>1
<1> HIDE DEF h, on, here
<1>5. h \in Bijection(on, here)
  BY <1>2, <1>3, <1>4 DEF Bijection, Injection, Surjection, IsInjective
<1>6. ExistsBijection(on, here)
  BY <1>5 DEF ExistsBijection
<1>7. IsFiniteSet(here) /\ Cardinality(here) = Cardinality(on)
  BY <1>1, <1>6, FS_Bijection
<1> QED
  BY <1>7 DEF on, here, PagesOn, HoldersIn

(* The trackers of space s on the pages P become those of D. *)
Retracked(df, new, s, P, D) ==
    \A r \in Spaces, q \in Pages :
        new[r][q] = IF r = s /\ q \in P THEN D[q] ELSE df[r][q]

(* frame_dealloc counts the trackers that are dropped. *)
LEMMA DropPages ==
    ASSUME NEW rc \in [Frames -> Nat], RefExact(rc, data_frames),
           NEW s \in Spaces, NEW P \in SUBSET Pages,
           NEW new, Retracked(data_frames, new, s, P, NoData)
    PROVE  /\ frame_dealloc(rc, s, P) \in [Frames -> Nat]
           /\ RefExact(frame_dealloc(rc, s, P), new)
           /\ Free(rc) \subseteq Free(frame_dealloc(rc, s, P))
<1> DEFINE here(f) == HoldersIn(data_frames, f, s, P)
           on(f) == PagesOn(data_frames, f, s, P)
           H(f) == Holders(data_frames, f)
<1>1. ASSUME NEW f \in Frames
      PROVE  /\ Cardinality(Holders(new, f)) = rc[f] - Cardinality(on(f))
             /\ Cardinality(Holders(new, f)) \in Nat
             /\ rc[f] = 0 => Cardinality(Holders(new, f)) = 0
  <2>1. Holders(new, f) = H(f) \ here(f)
    <3>1. ASSUME NEW x \in Spaces \X Pages
          PROVE  new[x[1]][x[2]] = f <=> data_frames[x[1]][x[2]] = f /\ x \notin here(f)
      <4>1. x[1] \in Spaces /\ x[2] \in Pages /\ x = <<x[1], x[2]>>
        BY SMT
      <4>2. CASE x[1] = s /\ x[2] \in P
        <5>1. new[x[1]][x[2]] = NoFrame /\ f # NoFrame
          BY <4>1, <4>2, CowAssumption DEF Retracked, NoData
        <5>2. x \in here(f) <=> data_frames[x[1]][x[2]] = f
          BY <4>1, <4>2 DEF HoldersIn
        <5> QED
          BY <5>1, <5>2
      <4>3. CASE ~(x[1] = s /\ x[2] \in P)
        <5>1. new[x[1]][x[2]] = data_frames[x[1]][x[2]]
          BY <4>1, <4>3 DEF Retracked
        <5>2. x \notin here(f)
          BY <4>1, <4>3 DEF HoldersIn
        <5> QED
          BY <5>1, <5>2
      <4> QED
        BY <4>2, <4>3
    <3> HIDE DEF here
    <3> QED
      BY <3>1 DEF Holders
  <2>2. H(f) \cap here(f) = here(f)
    BY DEF Holders, HoldersIn
  <2>3. IsFiniteSet(H(f)) /\ Cardinality(H(f)) = rc[f]
    BY HoldersFinite DEF RefExact
  <2>4. Cardinality(here(f)) = Cardinality(on(f))
    BY OneSpaceCount
  <2>5. Cardinality(H(f) \ here(f)) = Cardinality(H(f)) - Cardinality(H(f) \cap here(f))
    <3> HIDE DEF H, here
    <3> QED
      BY <2>3, FS_Difference
  <2>6. Cardinality(Holders(new, f)) \in Nat
    BY HoldersFinite
  <2>7. rc[f] = 0 => Cardinality(Holders(new, f)) = 0
    <3>1. rc[f] = 0 => H(f) = {}
      BY <2>3, FS_EmptySet
    <3>2. rc[f] = 0 => Holders(new, f) = {}
      BY <2>1, <3>1
    <3> QED
      BY <3>2, FS_EmptySet
  <2> QED
    BY <2>1, <2>2, <2>3, <2>4, <2>5, <2>6, <2>7
<1>2. \A f \in Frames : frame_dealloc(rc, s, P)[f] = rc[f] - Cardinality(on(f))
  BY DEF frame_dealloc, PagesOn
<1>3. frame_dealloc(rc, s, P) = [f \in Frames |-> rc[f] - Cardinality(on(f))]
  BY DEF frame_dealloc, PagesOn
<1> HIDE DEF on
<1>4. frame_dealloc(rc, s, P) \in [Frames -> Nat]
  BY <1>1, <1>3
<1> QED
  BY <1>1, <1>2, <1>4 DEF RefExact, Free

(* A frame that is handed out has one tracker. *)
LEMMA GrantPages ==
    ASSUME NEW rc \in [Frames -> Nat], NEW df, RefExact(rc, df),
           NEW s \in Spaces, NEW P \in SUBSET Pages, \A p \in P : df[s][p] = NoFrame,
           NEW g, IsGrant(g, P, Free(rc)),
           NEW new, Retracked(df, new, s, P, g)
    PROVE  /\ Counted(rc, g) \in [Frames -> Nat]
           /\ RefExact(Counted(rc, g), new)
<1>1. Counted(rc, g) \in [Frames -> Nat]
  BY DEF Counted
<1>2. ASSUME NEW f \in Frames PROVE Counted(rc, g)[f] = Cardinality(Holders(new, f))
  <2>1. CASE f \in Granted(g)
    <3>1. PICK p \in P : g[p] = f
      BY <2>1 DEF Granted, IsGrant
    <3>2. f \in Free(rc)
      BY <3>1 DEF IsGrant
    <3>3. ASSUME NEW x \in Spaces \X Pages PROVE new[x[1]][x[2]] = f <=> x = <<s, p>>
      <4>1. x[1] \in Spaces /\ x[2] \in Pages /\ x = <<x[1], x[2]>>
        BY SMT
      <4>2. CASE x[1] = s /\ x[2] \in P
        <5>1. new[x[1]][x[2]] = g[x[2]]
          BY <4>1, <4>2 DEF Retracked
        <5>2. g[x[2]] = f <=> x[2] = p
          BY <3>1, <4>2 DEF IsGrant
        <5> QED
          BY <4>1, <4>2, <5>1, <5>2, SMT
      <4>3. CASE ~(x[1] = s /\ x[2] \in P)
        <5>1. new[x[1]][x[2]] = df[x[1]][x[2]] /\ df[x[1]][x[2]] # f
          BY <3>2, <4>1, <4>3, FreeUntracked, SMT DEF Retracked
        <5> QED
          BY <3>1, <4>3, <5>1, SMT
      <4> QED
        BY <4>2, <4>3
    <3>4. Holders(new, f) = {<<s, p>>}
      <4>1. <<s, p>> \in Spaces \X Pages
        BY <3>1
      <4> QED
        BY <3>3, <4>1 DEF Holders
    <3>5. Cardinality(Holders(new, f)) = 1
      BY <3>4, FS_Singleton
    <3> QED
      BY <2>1, <3>5 DEF Counted
  <2>2. CASE f \notin Granted(g)
    <3>1. ASSUME NEW x \in Spaces \X Pages
          PROVE  new[x[1]][x[2]] = f <=> df[x[1]][x[2]] = f
      <4>1. x[1] \in Spaces /\ x[2] \in Pages
        OBVIOUS
      <4>2. CASE x[1] = s /\ x[2] \in P
        <5>1. new[x[1]][x[2]] = g[x[2]] /\ df[x[1]][x[2]] = NoFrame
          BY <4>1, <4>2 DEF Retracked
        <5>2. g[x[2]] \in Granted(g) /\ f # NoFrame
          BY <4>2, CowAssumption DEF IsGrant, Granted
        <5> QED
          BY <2>2, <5>1, <5>2
      <4>3. CASE ~(x[1] = s /\ x[2] \in P)
        BY <4>1, <4>3 DEF Retracked
      <4> QED
        BY <4>2, <4>3
    <3>2. Holders(new, f) = Holders(df, f)
      BY <3>1 DEF Holders
    <3> QED
      BY <2>2, <3>2 DEF Counted, RefExact
  <2> QED
    BY <2>1, <2>2
<1> QED
  BY <1>1, <1>2 DEF RefExact

(* frame_add_ref counts the trackers that are cloned into space c. *)
LEMMA SharePages ==
    ASSUME NEW rc \in [Frames -> Nat], RefExact(rc, data_frames),
           NEW s \in Spaces, NEW c \in Spaces, data_frames[c] = NoData,
           NEW P \in SUBSET Pages,
           NEW new, Retracked(data_frames, new, c, P, data_frames[s])
    PROVE  /\ frame_add_ref(rc, s, P) \in [Frames -> Nat]
           /\ RefExact(frame_add_ref(rc, s, P), new)
           /\ Free(rc) \subseteq Free(frame_add_ref(rc, s, P))
<1> DEFINE on(f) == PagesOn(data_frames, f, s, P)
           H(f) == Holders(data_frames, f)
           here(f) == HoldersIn(new, f, c, P)
<1>1. ASSUME NEW f \in Frames
      PROVE  /\ Cardinality(Holders(new, f)) = rc[f] + Cardinality(on(f))
             /\ Cardinality(Holders(new, f)) \in Nat
             /\ rc[f] = 0 => Cardinality(on(f)) = 0
  <2>1. f # NoFrame
    BY CowAssumption
  <2>2. ASSUME NEW x \in Spaces \X Pages
        PROVE  /\ new[x[1]][x[2]] = f <=> data_frames[x[1]][x[2]] = f \/ x \in here(f)
               /\ ~(x \in H(f) /\ x \in here(f))
    <3>1. x[1] \in Spaces /\ x[2] \in Pages /\ x = <<x[1], x[2]>>
      BY SMT
    <3>2. CASE x[1] = c /\ x[2] \in P
      <4>1. data_frames[x[1]][x[2]] = NoFrame
        BY <3>1, <3>2 DEF NoData
      <4>2. x \in here(f) <=> new[x[1]][x[2]] = f
        BY <3>1, <3>2 DEF HoldersIn
      <4> QED
        BY <2>1, <4>1, <4>2 DEF Holders
    <3>3. CASE ~(x[1] = c /\ x[2] \in P)
      <4>1. new[x[1]][x[2]] = data_frames[x[1]][x[2]]
        BY <3>1, <3>3 DEF Retracked
      <4>2. x \notin here(f)
        BY <3>1, <3>3 DEF HoldersIn
      <4> QED
        BY <4>1, <4>2
    <3> QED
      BY <3>2, <3>3
  <2>3. here(f) \subseteq Spaces \X Pages /\ H(f) \subseteq Spaces \X Pages
    BY DEF HoldersIn, Holders
  <2>4. Holders(new, f) = H(f) \cup here(f) /\ H(f) \cap here(f) = {}
    <3> HIDE DEF here
    <3> QED
      BY <2>2, <2>3 DEF Holders
  <2>5. IsFiniteSet(H(f)) /\ Cardinality(H(f)) = rc[f]
    BY HoldersFinite DEF RefExact
  <2>6. IsFiniteSet(here(f)) /\ Cardinality(here(f)) = Cardinality(PagesOn(new, f, c, P))
    BY OneSpaceCount
  <2>7. PagesOn(new, f, c, P) = on(f)
    BY DEF PagesOn, Retracked
  <2>8. Cardinality(H(f) \cup here(f))
           = Cardinality(H(f)) + Cardinality(here(f)) - Cardinality(H(f) \cap here(f))
    <3> HIDE DEF H, here
    <3> QED
      BY <2>5, <2>6, FS_Union
  <2>9. Cardinality(H(f) \cap here(f)) = 0
    BY <2>4, FS_EmptySet
  <2>10. Cardinality(Holders(new, f)) \in Nat /\ Cardinality(here(f)) \in Nat
    BY <2>6, HoldersFinite, FS_CardinalityType
  <2>11. rc[f] = 0 => Cardinality(on(f)) = 0
    <3>1. ASSUME rc[f] = 0 PROVE on(f) = {}
      <4>1. f \in Free(rc)
        BY <3>1 DEF Free
      <4> QED
        BY <4>1, FreeUntracked DEF PagesOn
    <3> QED
      BY <3>1, FS_EmptySet
  <2> HIDE DEF on, H, here
  <2> QED
    BY <2>4, <2>5, <2>6, <2>7, <2>8, <2>9, <2>10, <2>11, SMT
<1>2. /\ \A f \in Frames : frame_add_ref(rc, s, P)[f] = rc[f] + Cardinality(on(f))
      /\ frame_add_ref(rc, s, P) = [f \in Frames |-> rc[f] + Cardinality(on(f))]
  BY DEF frame_add_ref, PagesOn
<1> HIDE DEF on
<1>3. frame_add_ref(rc, s, P) \in [Frames -> Nat]
  BY <1>1, <1>2
<1> QED
  BY <1>1, <1>2, <1>3, SMT DEF RefExact, Free
-----------------------------------------------------------------------------
(***************************************************************************)
(* One address space.                                                      *)
(***************************************************************************)

(* A page lies in one area at most. *)
LEMMA AreaAtIs ==
    ASSUME NEW A, Apart(A), NEW a \in A, NEW p \in vpn_range(a)
    PROVE  AreaAt(A, p) = a
BY DEF Apart, AreaAt

(* A mapped page lies in the area the code finds for it. *)
LEMMA AreaAtHas ==
    ASSUME NEW A, NEW p \in PagesOf(A)
    PROVE  AreaAt(A, p) \in A /\ p \in vpn_range(AreaAt(A, p))
<1>1. \E a \in A : p \in vpn_range(a)
  BY DEF PagesOf
<1> QED
  BY <1>1 DEF AreaAt

(* A fresh entry is valid and gives the rights of its area. *)
LEMMA FreshEntry ==
    ASSUME NEW f \in Frames, NEW a \in Area,
           NEW e, e = [ppn |-> f, w |-> a.w, cow |-> FALSE, u |-> a.u]
    PROVE  e \in Entry /\ e.ppn = f /\ is_valid(e) /\ Permits(e, a)
<1>1. a.w \in BOOLEAN /\ a.u \in BOOLEAN
  BY DEF Area
<1>2. e \in Entry
  BY <1>1 DEF Entry
<1>3. e.ppn = f /\ e.w = a.w /\ e.cow = FALSE /\ e.u = a.u
  OBVIOUS
<1>4. is_valid(e)
  BY <1>3, CowAssumption DEF is_valid, Invalid
<1>5. Permits(e, a)
  BY <1>1, <1>3 DEF Permits
<1> QED
  BY <1>2, <1>3, <1>4, <1>5

(* The invalid entry is an entry without rights. *)
LEMMA InvalidEntry ==
    /\ Invalid \in Entry /\ Invalid.ppn = NoFrame /\ ~Invalid.w /\ ~Invalid.cow /\ ~Invalid.u
    /\ ~is_valid(Invalid)
BY DEF Invalid, Entry, is_valid

(* from_elf and alloc_user_res: the space of a new program. *)
LEMMA SpaceLoaded ==
    ASSUME NEW g, IsGrant(g, PagesOf(ElfAreas), Frames)
    PROVE  SpaceOK(ElfAreas, [p \in Pages |-> IF p \in DOMAIN g THEN g[p] ELSE NoFrame],
                   map(ElfAreas, g))
<1> DEFINE D == [p \in Pages |-> IF p \in DOMAIN g THEN g[p] ELSE NoFrame]
           T == map(ElfAreas, g)
           P == PagesOf(ElfAreas)
<1>1. /\ ElfAreas \in SUBSET Area /\ Apart(ElfAreas) /\ P \subseteq Pages
      /\ NoFrame \notin Frames
  BY CowAssumption, PagesFinite DEF Apart
<1>2. /\ DOMAIN g = P /\ \A p \in P : g[p] \in Frames
      /\ \A p, q \in P : g[p] = g[q] => p = q
  BY DEF IsGrant
<1>3. ASSUME NEW p \in P
      PROVE  /\ T[p] \in Entry /\ T[p].ppn = g[p] /\ is_valid(T[p])
             /\ Permits(T[p], AreaAt(ElfAreas, p))
  <2>1. AreaAt(ElfAreas, p) \in Area
    BY <1>1, AreaAtHas
  <2>2. T[p] = [ppn |-> g[p], w |-> AreaAt(ElfAreas, p).w, cow |-> FALSE,
                u |-> AreaAt(ElfAreas, p).u]
    BY <1>1, <1>2 DEF map
  <2> HIDE DEF T
  <2> QED
    BY <1>2, <2>1, <2>2, FreshEntry
<1>4. \A p \in Pages : p \notin P => T[p] = Invalid
  BY <1>2 DEF map
<1>5. \A p \in Pages : D[p] = IF p \in P THEN g[p] ELSE NoFrame
  BY <1>2
<1>6. T \in [Pages -> Entry]
  <2>1. \A p \in Pages : T[p] \in Entry
    BY <1>3, <1>4, InvalidEntry
  <2>2. T = [p \in Pages |-> T[p]]
    BY DEF map
  <2> HIDE DEF T
  <2> QED
    BY <2>1, <2>2
<1>7. D \in [Pages -> Frames \cup {NoFrame}]
  BY <1>2
<1> HIDE DEF D, T, P
<1>8. \A p \in Pages : D[p] # NoFrame <=> p \in P
  BY <1>1, <1>2, <1>5
<1>9. \A p, q \in Pages : D[p] = D[q] /\ D[p] # NoFrame => p = q
  BY <1>2, <1>5, <1>8
<1>10. \A p \in Pages : /\ T[p].ppn = D[p]
                        /\ is_valid(T[p]) <=> p \in P
                        /\ is_valid(T[p]) => Permits(T[p], AreaAt(ElfAreas, p))
  BY <1>3, <1>4, <1>5, InvalidEntry
<1>11. SpaceOK(ElfAreas, D, T)
  BY <1>1, <1>6, <1>7, <1>8, <1>9, <1>10 DEF SpaceOK, P
<1> QED
  BY <1>11 DEF D, T

(* mmap: one more area, apart from the others. *)
LEMMA SpaceMapped ==
    ASSUME NEW A, NEW D, NEW T, SpaceOK(A, D, T), NEW a \in Area,
           \A b \in A : vpn_range(a) \cap vpn_range(b) = {},
           NEW g, IsGrant(g, vpn_range(a), Frames),
           \A p \in vpn_range(a), q \in Pages : g[p] # D[q]
    PROVE  SpaceOK(A \cup {a},
                   [p \in Pages |-> IF p \in DOMAIN g THEN g[p] ELSE D[p]],
                   [p \in Pages |-> IF p \in DOMAIN g THEN map({a}, g)[p] ELSE T[p]])
<1> DEFINE B == A \cup {a}
           P == vpn_range(a)
           E == [p \in Pages |-> IF p \in DOMAIN g THEN g[p] ELSE D[p]]
           U == [p \in Pages |-> IF p \in DOMAIN g THEN map({a}, g)[p] ELSE T[p]]
<1>1. /\ A \in SUBSET Area /\ D \in [Pages -> Frames \cup {NoFrame}] /\ T \in [Pages -> Entry]
      /\ Apart(A) /\ P \subseteq Pages /\ NoFrame \notin Frames
  BY PagesFinite, CowAssumption DEF SpaceOK
<1>2. /\ DOMAIN g = P /\ \A p \in P : g[p] \in Frames
      /\ \A p, q \in P : g[p] = g[q] => p = q
  BY DEF IsGrant
<1>3. B \in SUBSET Area /\ Apart(B)
  BY <1>1 DEF Apart
<1>4. \A p : p \in PagesOf(B) <=> p \in PagesOf(A) \/ p \in P
  BY DEF PagesOf
<1>5. \A p \in P : p \notin PagesOf(A)
  BY DEF PagesOf
<1>6. \A p \in P : AreaAt(B, p) = a
  BY <1>3, AreaAtIs
<1>7. \A p \in PagesOf(A) : AreaAt(B, p) = AreaAt(A, p)
  <2> SUFFICES ASSUME NEW p \in PagesOf(A) PROVE AreaAt(B, p) = AreaAt(A, p)
    OBVIOUS
  <2>1. AreaAt(A, p) \in B /\ p \in vpn_range(AreaAt(A, p))
    BY AreaAtHas
  <2> HIDE DEF B
  <2> QED
    BY <1>3, <2>1, AreaAtIs
<1>8. ASSUME NEW p \in P
      PROVE  U[p] \in Entry /\ U[p].ppn = g[p] /\ is_valid(U[p]) /\ Permits(U[p], a)
  <2>1. AreaAt({a}, p) = a
    BY DEF AreaAt
  <2>2. U[p] = [ppn |-> g[p], w |-> a.w, cow |-> FALSE, u |-> a.u]
    BY <1>1, <1>2, <2>1 DEF map
  <2> HIDE DEF U
  <2> QED
    BY <1>2, <2>2, FreshEntry
<1>9. \A p \in Pages : p \notin P => U[p] = T[p]
  BY <1>2
<1>10. U \in [Pages -> Entry]
  <2>1. \A p \in Pages : U[p] \in Entry
    BY <1>1, <1>8, <1>9
  <2>2. U = [p \in Pages |-> U[p]]
    OBVIOUS
  <2> HIDE DEF U
  <2> QED
    BY <2>1, <2>2
<1>11. /\ E \in [Pages -> Frames \cup {NoFrame}]
       /\ \A p \in Pages : E[p] = IF p \in P THEN g[p] ELSE D[p]
  BY <1>1, <1>2
<1>12. /\ \A p \in Pages : D[p] # NoFrame <=> p \in PagesOf(A)
       /\ \A p, q \in Pages : D[p] = D[q] /\ D[p] # NoFrame => p = q
       /\ \A p \in Pages : /\ T[p].ppn = D[p]
                           /\ is_valid(T[p]) <=> p \in PagesOf(A)
                           /\ is_valid(T[p]) => Permits(T[p], AreaAt(A, p))
  BY DEF SpaceOK
<1> HIDE DEF B, E, U, P
<1>13. \A p \in Pages : E[p] # NoFrame <=> p \in PagesOf(B)
  BY <1>1, <1>2, <1>4, <1>5, <1>11, <1>12, SMT
<1>14. \A p, q \in Pages : E[p] = E[q] /\ E[p] # NoFrame => p = q
  <2>1. \A p \in P, q \in Pages : g[p] # D[q]
    BY DEF P
  <2> QED
    BY <1>1, <1>2, <1>11, <1>12, <2>1, SMT
<1>15. \A p \in Pages : /\ U[p].ppn = E[p]
                        /\ is_valid(U[p]) <=> p \in PagesOf(B)
                        /\ is_valid(U[p]) => Permits(U[p], AreaAt(B, p))
  BY <1>4, <1>6, <1>7, <1>8, <1>9, <1>11, <1>12
<1>16. SpaceOK(B, E, U)
  BY <1>3, <1>10, <1>11, <1>13, <1>14, <1>15 DEF SpaceOK
<1> QED
  BY <1>16 DEF B, E, U

(* munmap: one area less. *)
LEMMA SpaceUnmapped ==
    ASSUME NEW A, NEW D, NEW T, SpaceOK(A, D, T), NEW a \in A
    PROVE  SpaceOK(A \ {a},
                   [p \in Pages |-> IF p \in vpn_range(a) THEN NoFrame ELSE D[p]],
                   [p \in Pages |-> IF p \in vpn_range(a) THEN Invalid ELSE T[p]])
<1> DEFINE B == A \ {a}
           P == vpn_range(a)
           E == [p \in Pages |-> IF p \in P THEN NoFrame ELSE D[p]]
           U == [p \in Pages |-> IF p \in P THEN Invalid ELSE T[p]]
<1>1. /\ A \in SUBSET Area /\ D \in [Pages -> Frames \cup {NoFrame}] /\ T \in [Pages -> Entry]
      /\ Apart(A)
      /\ \A p \in Pages : D[p] # NoFrame <=> p \in PagesOf(A)
      /\ \A p, q \in Pages : D[p] = D[q] /\ D[p] # NoFrame => p = q
      /\ \A p \in Pages : /\ T[p].ppn = D[p]
                          /\ is_valid(T[p]) <=> p \in PagesOf(A)
                          /\ is_valid(T[p]) => Permits(T[p], AreaAt(A, p))
  BY DEF SpaceOK
<1>2. B \in SUBSET Area /\ Apart(B)
  BY <1>1 DEF Apart
<1>3. \A p : p \in PagesOf(B) <=> p \in PagesOf(A) /\ p \notin P
  BY <1>1, SMT DEF PagesOf, Apart
<1>4. \A p \in PagesOf(B) : AreaAt(B, p) = AreaAt(A, p)
  <2> SUFFICES ASSUME NEW p \in PagesOf(B) PROVE AreaAt(B, p) = AreaAt(A, p)
    OBVIOUS
  <2>1. AreaAt(B, p) \in A /\ p \in vpn_range(AreaAt(B, p))
    BY AreaAtHas
  <2> HIDE DEF B
  <2> QED
    BY <1>1, <2>1, AreaAtIs
<1>5. /\ E \in [Pages -> Frames \cup {NoFrame}] /\ U \in [Pages -> Entry]
      /\ \A p \in Pages : /\ E[p] = IF p \in P THEN NoFrame ELSE D[p]
                          /\ U[p] = IF p \in P THEN Invalid ELSE T[p]
  BY <1>1, InvalidEntry
<1> HIDE DEF B, E, U, P
<1>6. /\ \A p \in Pages : E[p] # NoFrame <=> p \in PagesOf(B)
      /\ \A p, q \in Pages : E[p] = E[q] /\ E[p] # NoFrame => p = q
  BY <1>1, <1>3, <1>5
<1>7. \A p \in Pages : /\ U[p].ppn = E[p]
                       /\ is_valid(U[p]) <=> p \in PagesOf(B)
                       /\ is_valid(U[p]) => Permits(U[p], AreaAt(B, p))
  BY <1>1, <1>3, <1>4, <1>5, InvalidEntry
<1>8. SpaceOK(B, E, U)
  BY <1>2, <1>5, <1>6, <1>7 DEF SpaceOK
<1> QED
  BY <1>8 DEF B, E, U, P

(* Trackers and entries change together, areas and rights do not. *)
LEMMA SpaceRetracked ==
    ASSUME NEW A, NEW D, NEW T, SpaceOK(A, D, T),
           NEW E \in [Pages -> Frames \cup {NoFrame}], NEW U \in [Pages -> Entry],
           \A p \in Pages : E[p] # NoFrame <=> D[p] # NoFrame,
           \A p, q \in Pages : E[p] = E[q] /\ E[p] # NoFrame => p = q,
           \A p \in Pages : /\ U[p].ppn = E[p]
                            /\ U[p].u = T[p].u
                            /\ (U[p].w \/ U[p].cow) <=> (T[p].w \/ T[p].cow)
                            /\ ~(U[p].w /\ U[p].cow)
                            /\ is_valid(U[p]) <=> is_valid(T[p])
    PROVE  SpaceOK(A, E, U)
<1>1. /\ A \in SUBSET Area /\ D \in [Pages -> Frames \cup {NoFrame}] /\ T \in [Pages -> Entry]
      /\ Apart(A)
      /\ \A p \in Pages : D[p] # NoFrame <=> p \in PagesOf(A)
      /\ \A p \in Pages : /\ is_valid(T[p]) <=> p \in PagesOf(A)
                          /\ is_valid(T[p]) => Permits(T[p], AreaAt(A, p))
  BY DEF SpaceOK
<1>2. ASSUME NEW p \in Pages, is_valid(U[p]) PROVE Permits(U[p], AreaAt(A, p))
  <2>1. Permits(T[p], AreaAt(A, p))
    BY <1>1, <1>2
  <2>2. /\ T[p].w \in BOOLEAN /\ T[p].cow \in BOOLEAN /\ U[p].w \in BOOLEAN
        /\ U[p].cow \in BOOLEAN
    BY <1>1 DEF Entry
  <2>3. (U[p].w # U[p].cow) = (T[p].w # T[p].cow)
    BY <2>1, <2>2 DEF Permits
  <2> QED
    BY <2>1, <2>3 DEF Permits
<1> QED
  BY <1>1, <1>2 DEF SpaceOK

(* An entry with a frame is valid. *)
LEMMA FrameIsValid ==
    ASSUME NEW e, e.ppn \in Frames
    PROVE  is_valid(e)
BY CowAssumption, InvalidEntry DEF is_valid

(* mark_cow takes the right to write away, ... *)
LEMMA MarkedEntry ==
    ASSUME NEW e \in Entry, e.ppn \in Frames
    PROVE  /\ mark_cow(e) \in Entry /\ is_valid(mark_cow(e))
           /\ mark_cow(e).ppn = e.ppn /\ mark_cow(e).u = e.u
           /\ mark_cow(e).w = FALSE /\ mark_cow(e).cow = TRUE
<1>1. /\ mark_cow(e) \in Entry
      /\ mark_cow(e).ppn = e.ppn /\ mark_cow(e).u = e.u
      /\ mark_cow(e).w = FALSE /\ mark_cow(e).cow = TRUE
  BY DEF mark_cow, Entry
<1> QED
  BY <1>1, FrameIsValid

(* ... a resolved fault gives it back, on another frame or the same, ... *)
LEMMA ResolvedEntry ==
    ASSUME NEW e \in Entry, NEW f \in Frames
    PROVE  /\ resolved(e, f) \in Entry /\ is_valid(resolved(e, f))
           /\ resolved(e, f).ppn = f /\ resolved(e, f).u = e.u
           /\ resolved(e, f).w = TRUE /\ resolved(e, f).cow = FALSE
<1>1. /\ resolved(e, f) \in Entry
      /\ resolved(e, f).ppn = f /\ resolved(e, f).u = e.u
      /\ resolved(e, f).w = TRUE /\ resolved(e, f).cow = FALSE
  BY DEF resolved, Entry
<1> QED
  BY <1>1, FrameIsValid

(* ... and a copied kernel page has the rights of the original. *)
LEMMA MovedEntry ==
    ASSUME NEW e \in Entry, NEW f \in Frames,
           NEW d, d = [e EXCEPT !.ppn = f]
    PROVE  /\ d \in Entry /\ is_valid(d)
           /\ d.ppn = f /\ d.u = e.u /\ d.w = e.w /\ d.cow = e.cow
<1>1. d \in Entry /\ d.ppn = f /\ d.u = e.u /\ d.w = e.w /\ d.cow = e.cow
  BY DEF Entry
<1> QED
  BY <1>1, FrameIsValid
-----------------------------------------------------------------------------
(***************************************************************************)
(* All address spaces.                                                     *)
(***************************************************************************)

(* What the invariant says of a page that is mapped. *)
LEMMA MappedPage ==
    ASSUME IInv, NEW s \in Spaces, Alive(s), NEW p \in Pages, is_valid(pte[s][p])
    PROVE  /\ pte[s][p] \in Entry
           /\ pte[s][p].ppn = data_frames[s][p] /\ data_frames[s][p] \in Frames
           /\ ~(pte[s][p].w /\ pte[s][p].cow)
<1>1. SpaceOK(areas[s], data_frames[s], pte[s])
  BY DEF IInv, SpacesOK
<1> QED
  BY <1>1, SMT DEF SpaceOK, Permits

(* A page with rights is mapped. *)
LEMMA RightsAreValid ==
    ASSUME NEW e, e.w \/ e.cow \/ e.u
    PROVE  is_valid(e)
BY InvalidEntry DEF is_valid

(* Every space tracks frames or nothing. *)
LEMMA TrackersTyped ==
    ASSUME IInv, NEW s \in Spaces
    PROVE  /\ data_frames[s] \in [Pages -> Frames \cup {NoFrame}]
           /\ pte[s] \in [Pages -> Entry] /\ areas[s] \in SUBSET Area
BY DEF IInv, TypeOK, Entry

(* A page that is written without a fault has the only tracker of its      *)
(* frame.                                                                  *)
LEMMA SoleCount ==
    ASSUME IInv, NEW s \in Spaces, Alive(s), NEW p \in Pages, pte[s][p].w
    PROVE  owners[pte[s][p].ppn] = 1
<1> DEFINE f == data_frames[s][p]
<1>1. pte[s][p].ppn = f /\ f \in Frames
  BY MappedPage, RightsAreValid
<1>2. Holders(data_frames, f) = {<<s, p>>}
  <2>1. ASSUME NEW x \in Holders(data_frames, f) PROVE x = <<s, p>>
    <3>1. /\ x[1] \in Spaces /\ x[2] \in Pages /\ x = <<x[1], x[2]>>
          /\ data_frames[x[1]][x[2]] = f
      BY SMT DEF Holders
    <3>2. x[1] = s
      BY <3>1 DEF IInv, Sole
    <3>3. SpaceOK(areas[s], data_frames[s], pte[s])
      BY DEF IInv, SpacesOK
    <3>4. \A a, b \in Pages :
             data_frames[s][a] = data_frames[s][b] /\ data_frames[s][a] # NoFrame => a = b
      BY <3>3 DEF SpaceOK
    <3>5. f # NoFrame
      BY <1>1, CowAssumption
    <3>6. x[2] = p
      BY <3>1, <3>2, <3>4, <3>5
    <3> QED
      BY <3>1, <3>2, <3>6
  <2>2. <<s, p>> \in Holders(data_frames, f)
    BY DEF Holders
  <2> QED
    BY <2>1, <2>2
<1>3. owners[f] = 1
  BY <1>1, <1>2, FS_Singleton DEF IInv, RefExact
<1> QED
  BY <1>1, <1>3

(* A frame with one tracker is tracked by the space that has it. *)
LEMMA OneHolder ==
    ASSUME IInv, NEW s \in Spaces, NEW p \in Pages, data_frames[s][p] \in Frames,
           owners[data_frames[s][p]] = 1,
           NEW r \in Spaces, NEW q \in Pages, data_frames[r][q] = data_frames[s][p]
    PROVE  r = s /\ q = p
<1> DEFINE f == data_frames[s][p]
<1>1. IsFiniteSet(Holders(data_frames, f)) /\ Cardinality(Holders(data_frames, f)) = 1
  BY HoldersFinite DEF IInv, RefExact
<1>2. PICK x : Holders(data_frames, f) = {x}
  BY <1>1, FS_Singleton
<1>3. <<s, p>> \in Holders(data_frames, f) /\ <<r, q>> \in Holders(data_frames, f)
  BY DEF Holders
<1>4. <<s, p>> = <<r, q>>
  BY <1>2, <1>3
<1> QED
  BY <1>4

(* The copies of pages that fork and a fault make. *)
CopiedMemory(s, g) ==
    [f \in Frames |-> IF f \in Granted(g)
                      THEN memory[pte[s][CHOOSE p \in DOMAIN g : g[p] = f].ppn] ELSE memory[f]]

IsCopy(mem, s, P, g) ==
    /\ \A p \in P : mem[g[p]] = memory[pte[s][p].ppn]
    /\ \A f \in Frames : f \notin Granted(g) => mem[f] = memory[f]

(* Each new frame holds its page's value, and no other frame changes. *)
LEMMA CopiesPages ==
    ASSUME IInv, NEW s \in Spaces, Alive(s), NEW P \in SUBSET Pages,
           \A p \in P : is_valid(pte[s][p]),
           NEW g, IsGrant(g, P, Free(owners))
    PROVE  /\ CopiedMemory(s, g) \in [Frames -> Values]
           /\ IsCopy(CopiedMemory(s, g), s, P, g)
<1>1. /\ DOMAIN g = P /\ \A p \in P : g[p] \in Frames
      /\ \A p, q \in P : g[p] = g[q] => p = q
  BY DEF IsGrant, Free
<1>2. ASSUME NEW p \in P PROVE (CHOOSE q \in DOMAIN g : g[q] = g[p]) = p
  BY <1>1
<1>3. \A p \in P : pte[s][p].ppn \in Frames
  BY MappedPage
<1>4. memory \in [Frames -> Values]
  BY DEF IInv, TypeOK
<1>5. \A p \in P : g[p] \in Granted(g)
  BY <1>1 DEF Granted
<1>6. \A p \in P : CopiedMemory(s, g)[g[p]] = memory[pte[s][p].ppn]
  BY <1>1, <1>2, <1>5 DEF CopiedMemory
<1>7. \A f \in Frames : f \notin Granted(g) => CopiedMemory(s, g)[f] = memory[f]
  BY DEF CopiedMemory
<1>8. \A f \in Frames : CopiedMemory(s, g)[f] \in Values
  <2>1. \A f \in Granted(g) : \E p \in P : f = g[p]
    BY <1>1 DEF Granted
  <2> QED
    BY <1>3, <1>4, <1>6, <1>7, <2>1, SMT
<1>9. CopiedMemory(s, g) = [f \in Frames |-> CopiedMemory(s, g)[f]]
  BY SMT DEF CopiedMemory
<1> QED
  BY <1>6, <1>7, <1>8, <1>9 DEF IsCopy

(* handle_cow_fault on copy-on-write pages R of space s: what it leaves    *)
(* behind.                                                                 *)
Faulted(s, R, g) ==
    /\ g \in [Shared(s, R) -> Free(owners)]
    /\ IsGrant(g, Shared(s, R), Free(owners))
    /\ owners' = Counted(frame_dealloc(owners, s, Shared(s, R)), g)
    /\ memory' = CopiedMemory(s, g)
    /\ \A r \in Spaces : r # s => data_frames'[r] = data_frames[r] /\ pte'[r] = pte[r]
    /\ \A p \in Pages :
          /\ data_frames'[s][p] = IF p \in Shared(s, R) THEN g[p] ELSE data_frames[s][p]
          /\ pte'[s][p] = IF p \in Shared(s, R) THEN resolved(pte[s][p], g[p])
                          ELSE IF p \in R THEN resolved(pte[s][p], pte[s][p].ppn)
                          ELSE pte[s][p]

(* handle_cow_fault does that: fresh frames for the shared pages of R.     *)
LEMMA FaultIs ==
    ASSUME IInv, NEW s \in Spaces, state[s] = "live",
           NEW R \in SUBSET Pages, \A p \in R : pte[s][p].cow,
           handle_cow_fault(s, R)
    PROVE  /\ \E g : Faulted(s, R, g)
           /\ data_frames' \in [Spaces -> [Pages -> Frames \cup {NoFrame}]]
           /\ pte' \in [Spaces -> [Pages -> Entry]]
<1> DEFINE S == Shared(s, R)
           g == frame_alloc(S, Free(owners))
<1>1. S \in SUBSET Pages /\ Free(owners) \in SUBSET Frames /\ Enough(S, Free(owners))
  BY DEF Shared, Free, handle_cow_fault
<1>2. IsGrant(g, S, Free(owners))
  BY <1>1, AllocGrants
<1>3. DOMAIN g = S /\ g \in [S -> Free(owners)] /\ \A p \in S : g[p] \in Frames
  BY <1>2 DEF IsGrant, Free
<1>4. /\ owners' = Counted(frame_dealloc(owners, s, DOMAIN g), g)
      /\ memory' = CopiedMemory(s, g)
      /\ data_frames' = [data_frames EXCEPT ![s] =
            [p \in Pages |-> IF p \in DOMAIN g THEN g[p] ELSE data_frames[s][p]]]
      /\ pte' = [pte EXCEPT ![s] = [p \in Pages |->
            IF p \in DOMAIN g THEN resolved(pte[s][p], g[p])
            ELSE IF p \in R THEN resolved(pte[s][p], pte[s][p].ppn)
            ELSE pte[s][p]]]
  BY SMT DEF handle_cow_fault, CopiedMemory
<1> HIDE DEF g, S
<1>5. /\ data_frames \in [Spaces -> [Pages -> Frames \cup {NoFrame}]]
      /\ pte \in [Spaces -> [Pages -> Entry]]
  BY DEF IInv, TypeOK, Entry
<1>6. data_frames' \in [Spaces -> [Pages -> Frames \cup {NoFrame}]]
  BY <1>3, <1>4, <1>5
<1>7. \A p \in R : resolved(pte[s][p], pte[s][p].ppn) \in Entry
  BY <1>5, RightsAreValid, MappedPage, ResolvedEntry DEF Alive
<1>8. \A p \in S : resolved(pte[s][p], g[p]) \in Entry
  <2>1. S \subseteq R
    BY DEF S, Shared
  <2> QED
    BY <1>3, <1>5, <2>1, ResolvedEntry
<1>9. pte' \in [Spaces -> [Pages -> Entry]]
  BY <1>3, <1>4, <1>5, <1>7, <1>8
<1>10. /\ \A r \in Spaces : r # s => data_frames'[r] = data_frames[r] /\ pte'[r] = pte[r]
       /\ \A p \in Pages :
            /\ data_frames'[s][p] = IF p \in S THEN g[p] ELSE data_frames[s][p]
            /\ pte'[s][p] = IF p \in S THEN resolved(pte[s][p], g[p])
                            ELSE IF p \in R THEN resolved(pte[s][p], pte[s][p].ppn)
                            ELSE pte[s][p]
  BY <1>3, <1>4, <1>5
<1>11. Faulted(s, R, g)
  BY <1>2, <1>3, <1>4, <1>10 DEF Faulted, S
<1> QED
  BY <1>6, <1>9, <1>11

(* A fault keeps the counts, the agreement of tables and areas, and that   *)
(* what is writable is in one space.                                       *)
LEMMA FaultKeeps ==
    ASSUME IInv, NEW s \in Spaces, state[s] = "live",
           NEW R \in SUBSET Pages, \A p \in R : pte[s][p].cow,
           handle_cow_fault(s, R), areas' = areas,
           \A r \in Spaces : Alive(r)' <=> Alive(r)
    PROVE  /\ owners' \in [Frames -> Nat] /\ memory' \in [Frames -> Values]
           /\ RefExact(owners', data_frames')
           /\ SpacesOK' /\ Sole'
<1>1. PICK g : Faulted(s, R, g)
  BY FaultIs
<1> DEFINE S == Shared(s, R)
<1>2. /\ S \in SUBSET Pages /\ S \subseteq R /\ Alive(s)
      /\ IsGrant(g, S, Free(owners))
      /\ \A p \in S : g[p] \in Free(owners) /\ g[p] \in Frames
      /\ owners \in [Frames -> Nat] /\ RefExact(owners, data_frames)
      /\ NoFrame \notin Frames
  BY <1>1, CowAssumption DEF Shared, Alive, IInv, TypeOK, Faulted, IsGrant, Free
<1>3. \A p \in R : /\ is_valid(pte[s][p]) /\ pte[s][p] \in Entry
                   /\ pte[s][p].ppn = data_frames[s][p] /\ data_frames[s][p] \in Frames
                   /\ pte[s][p].cow /\ ~pte[s][p].w
  BY <1>2, MappedPage, RightsAreValid
<1>4. memory' \in [Frames -> Values]
  BY <1>1, <1>2, <1>3, CopiesPages DEF Faulted
<1>5. /\ \A r \in Spaces : r # s => data_frames'[r] = data_frames[r] /\ pte'[r] = pte[r]
      /\ \A p \in Pages :
            /\ data_frames'[s][p] = IF p \in S THEN g[p] ELSE data_frames[s][p]
            /\ pte'[s][p] = IF p \in S THEN resolved(pte[s][p], g[p])
                            ELSE IF p \in R THEN resolved(pte[s][p], pte[s][p].ppn)
                            ELSE pte[s][p]
  BY <1>1 DEF Faulted
<1>6. owners' \in [Frames -> Nat] /\ RefExact(owners', data_frames')
  <2> DEFINE mid == [r \in Spaces |-> [q \in Pages |->
                       IF r = s /\ q \in S THEN NoFrame ELSE data_frames[r][q]]]
             rc == frame_dealloc(owners, s, S)
  <2>1. Retracked(data_frames, mid, s, S, NoData)
    BY DEF Retracked, NoData
  <2>2. \A p \in S : mid[s][p] = NoFrame
    BY <1>2
  <2>3. Retracked(mid, data_frames', s, S, g)
    BY <1>2, <1>5 DEF Retracked
  <2> HIDE DEF mid
  <2>4. rc \in [Frames -> Nat] /\ RefExact(rc, mid) /\ Free(owners) \subseteq Free(rc)
    BY <1>2, <2>1, DropPages
  <2>5. IsGrant(g, S, Free(rc))
    BY <1>2, <2>4 DEF IsGrant
  <2>6. owners' = Counted(rc, g)
    BY <1>1 DEF Faulted
  <2> HIDE DEF rc, S
  <2> QED
    BY <1>2, <2>2, <2>3, <2>4, <2>5, <2>6, GrantPages
<1> HIDE DEF S
<1>7. \A f \in Free(owners), r \in Spaces, q \in Pages : data_frames[r][q] # f
  BY <1>2, FreeUntracked
<1>8. /\ data_frames' \in [Spaces -> [Pages -> Frames \cup {NoFrame}]]
      /\ pte' \in [Spaces -> [Pages -> Entry]]
  BY FaultIs
<1>9. ASSUME NEW p \in R, NEW f \in Frames
      PROVE  /\ resolved(pte[s][p], f).ppn = f /\ resolved(pte[s][p], f).u = pte[s][p].u
             /\ resolved(pte[s][p], f).w /\ ~resolved(pte[s][p], f).cow
             /\ is_valid(resolved(pte[s][p], f))
  BY <1>3, ResolvedEntry
<1>10. SpaceOK(areas[s], data_frames'[s], pte'[s])
  <2> DEFINE D == data_frames[s]
             T == pte[s]
             E == data_frames'[s]
             U == pte'[s]
  <2>1. SpaceOK(areas[s], D, T)
    BY <1>2 DEF IInv, SpacesOK
  <2>2. E \in [Pages -> Frames \cup {NoFrame}] /\ U \in [Pages -> Entry]
    BY <1>8
  <2>3. /\ \A p, q \in Pages : D[p] = D[q] /\ D[p] # NoFrame => p = q
        /\ \A p \in Pages : /\ T[p].ppn = D[p]
                            /\ is_valid(T[p]) => ~(T[p].w /\ T[p].cow)
    BY <2>1 DEF SpaceOK, Permits
  <2>4. \A p \in Pages : E[p] # NoFrame <=> D[p] # NoFrame
    BY <1>2, <1>3, <1>5, SMT
  <2>5. \A p, q \in Pages : E[p] = E[q] /\ E[p] # NoFrame => p = q
    BY <1>2, <1>5, <1>7, <2>3, SMT DEF IsGrant
  <2>6. ASSUME NEW p \in Pages
        PROVE  /\ U[p].ppn = E[p]
               /\ U[p].u = T[p].u
               /\ (U[p].w \/ U[p].cow) <=> (T[p].w \/ T[p].cow)
               /\ ~(U[p].w /\ U[p].cow)
               /\ is_valid(U[p]) <=> is_valid(T[p])
    <3>1. CASE p \in S
      BY <1>2, <1>3, <1>5, <1>9, <3>1, SMT
    <3>2. CASE p \notin S /\ p \in R
      BY <1>2, <1>3, <1>5, <1>9, <3>2, SMT
    <3>3. CASE p \notin S /\ p \notin R
      <4>1. U[p] = T[p] /\ E[p] = D[p]
        BY <1>5, <3>3
      <4>2. ~(T[p].w /\ T[p].cow)
        BY <2>3, RightsAreValid
      <4> QED
        BY <2>3, <4>1, <4>2
    <3> QED
      BY <3>1, <3>2, <3>3
  <2> HIDE DEF D, T, E, U
  <2>7. SpaceOK(areas[s], E, U)
    BY <2>1, <2>2, <2>4, <2>5, <2>6, SpaceRetracked
  <2> QED
    BY <2>7 DEF E, U
<1>11. SpacesOK'
  BY <1>2, <1>5, <1>10 DEF IInv, SpacesOK
<1>12. Sole'
  <2> SUFFICES ASSUME NEW r \in Spaces, NEW p \in Pages, Alive(r), pte'[r][p].w,
                      NEW t \in Spaces, NEW q \in Pages,
                      data_frames'[t][q] = data_frames'[r][p], t # r
               PROVE  FALSE
    BY DEF Sole
  <2>1. CASE r # s
    <3>1. /\ pte[r][p].w /\ data_frames'[r][p] = data_frames[r][p]
          /\ data_frames[r][p] \in Frames
      BY <1>5, <2>1, RightsAreValid, MappedPage
    <3>2. CASE t = s /\ q \in S
      BY <1>2, <1>5, <1>7, <3>1, <3>2, SMT
    <3>3. CASE ~(t = s /\ q \in S)
      <4>1. data_frames'[t][q] = data_frames[t][q]
        BY <1>5, <3>3
      <4> QED
        BY <3>1, <4>1, SMT DEF IInv, Sole
    <3> QED
      BY <3>2, <3>3
  <2>2. CASE r = s
    <3>1. data_frames'[t][q] = data_frames[t][q]
      BY <1>5, <2>2
    <3>2. CASE p \in S
      BY <1>2, <1>5, <1>7, <2>2, <3>1, <3>2, SMT
    <3>3. CASE p \notin S /\ p \in R
      <4>1. owners[data_frames[s][p]] = 1
        BY <1>3, <3>3 DEF S, Shared
      <4>2. data_frames[t][q] = data_frames[s][p]
        BY <1>5, <2>2, <3>1, <3>3
      <4> QED
        BY <1>3, <2>2, <3>3, <4>1, <4>2, OneHolder, SMT
    <3>4. CASE p \notin S /\ p \notin R
      BY <1>5, <2>2, <3>1, <3>4, SMT DEF IInv, Sole
    <3> QED
      BY <3>2, <3>3, <3>4
  <2> QED
    BY <2>1, <2>2
<1> QED
  BY <1>4, <1>6, <1>11, <1>12

(* No space but s tracks the frame. *)
Fresh(s, f) == \A r \in Spaces, q \in Pages : r # s => data_frames[r][q] # f

(* Only space s changes. *)
Others(s) ==
    \A r \in Spaces : r # s =>
        /\ areas'[r] = areas[r] /\ data_frames'[r] = data_frames[r]
        /\ pte'[r] = pte[r] /\ state'[r] = state[r]

(* One space changes: when its own areas, trackers and entries agree and   *)
(* what it writes without a fault is nobody else's, the whole is sound.    *)
LEMMA OneSpace ==
    ASSUME IInv, NEW s \in Spaces, Others(s), TypeOK', RefExact(owners', data_frames'),
           IF Alive(s)' THEN SpaceOK(areas'[s], data_frames'[s], pte'[s])
                        ELSE areas'[s] = {} /\ data_frames'[s] = NoData,
           \A p \in Pages : \/ data_frames'[s][p] = NoFrame
                            \/ data_frames'[s][p] = data_frames[s][p]
                            \/ Fresh(s, data_frames'[s][p]),
           \A p \in Pages : Alive(s)' /\ pte'[s][p].w => Fresh(s, data_frames'[s][p]),
           buffer' = buffer, state'[s] # "reading"
    PROVE  IInv'
<1>1. \A r \in Spaces : r # s => (Alive(r)' <=> Alive(r))
  BY DEF Others, Alive
<1>2. Sole'
  <2> SUFFICES ASSUME NEW r \in Spaces, NEW p \in Pages, Alive(r)', pte'[r][p].w,
                      NEW t \in Spaces, NEW q \in Pages,
                      data_frames'[t][q] = data_frames'[r][p], t # r
               PROVE  FALSE
    BY DEF Sole
  <2>1. CASE r = s
    <3>1. Fresh(s, data_frames'[s][p]) /\ data_frames'[t] = data_frames[t]
      BY <2>1 DEF Others
    <3> QED
      BY <2>1, <3>1 DEF Fresh
  <2>2. CASE r # s
    <3>1. pte[r][p].w /\ Alive(r) /\ data_frames'[r][p] = data_frames[r][p]
      BY <1>1, <2>2 DEF Others
    <3>2. data_frames[r][p] \in Frames /\ data_frames[r][p] # NoFrame
      BY <3>1, RightsAreValid, MappedPage, CowAssumption, SMT
    <3>3. \A u \in Spaces, v \in Pages : data_frames[u][v] = data_frames[r][p] => u = r
      BY <3>1 DEF IInv, Sole
    <3>4. t = s
      BY <3>1, <3>3 DEF Others
    <3>5. ~Fresh(s, data_frames'[s][q])
      BY <2>2, <3>1, <3>4 DEF Fresh
    <3> QED
      BY <2>2, <3>1, <3>2, <3>3, <3>4, <3>5
  <2> QED
    BY <2>1, <2>2
<1>3. SpacesOK'
  <2> SUFFICES ASSUME NEW r \in Spaces
               PROVE  IF Alive(r)' THEN SpaceOK(areas'[r], data_frames'[r], pte'[r])
                      ELSE /\ areas'[r] = {} /\ data_frames'[r] = NoData
                           /\ pte'[r] \in [Pages -> Entry]
    BY DEF SpacesOK
  <2>1. pte'[r] \in [Pages -> Entry]
    BY DEF TypeOK, Entry
  <2>2. CASE r # s
    BY <1>1, <2>1, <2>2 DEF IInv, SpacesOK, Others
  <2> QED
    BY <2>1, <2>2
<1>4. BufferOK'
  <2> SUFFICES ASSUME NEW r \in Spaces, state'[r] = "reading", NEW f \in buffer'[r]
               PROVE  \E p \in Pages : pte'[r][p].ppn = f /\ pte'[r][p].w /\ pte'[r][p].u
    BY DEF BufferOK
  <2>1. state[r] = "reading" /\ f \in buffer[r] /\ pte'[r] = pte[r]
    BY DEF Others
  <2> QED
    BY <2>1, SMT DEF IInv, BufferOK
<1> QED
  BY <1>2, <1>3, <1>4 DEF IInv

(* What a space tracks and writes is fresh already. *)
LEMMA WritableFresh ==
    ASSUME IInv, NEW s \in Spaces, Alive(s), NEW p \in Pages, pte[s][p].w
    PROVE  Fresh(s, data_frames[s][p])
BY DEF IInv, Sole, Fresh

(* A free frame is fresh. *)
LEMMA FreeFresh ==
    ASSUME IInv, NEW s \in Spaces, NEW f \in Free(owners)
    PROVE  Fresh(s, f)
BY FreeUntracked DEF IInv, Fresh

(* The frames of a new program: two allocations, with the old areas        *)
(* dropped between them.                                                   *)
Loaded(s, g) ==
    /\ IsGrant(g, PagesOf(ElfAreas), Frames)
    /\ \A p \in PagesOf(ElfAreas) : Fresh(s, g[p])
    /\ memory' = Cleared(memory, g)
    /\ data_frames' = [data_frames EXCEPT ![s] =
          [p \in Pages |-> IF p \in DOMAIN g THEN g[p] ELSE NoFrame]]
    /\ pte' = [pte EXCEPT ![s] = map(ElfAreas, g)]

(* exec gives back all pages of the space and loads the new program into   *)
(* fresh frames.                                                           *)
LEMMA ExecLoads ==
    ASSUME IInv, NEW s \in Spaces, Exec(s)
    PROVE  /\ \E g : Loaded(s, g)
           /\ owners' \in [Frames -> Nat] /\ RefExact(owners', data_frames')
<1> DEFINE sections == PagesOf(ElfAreas \ UserRes)
           res == PagesOf(UserRes)
           g1 == frame_alloc(sections, Free(owners))
           rc == frame_dealloc(Counted(owners, g1), s, Pages)
           g2 == frame_alloc(res, Free(rc))
           g == [p \in sections \cup res |-> IF p \in res THEN g2[p] ELSE g1[p]]
           rc0 == frame_dealloc(owners, s, Pages)
           mid0 == [r \in Spaces |-> IF r = s THEN NoData ELSE data_frames[r]]
           mid1 == [r \in Spaces |-> IF r = s
                      THEN [p \in Pages |-> IF p \in sections THEN g1[p] ELSE NoFrame]
                      ELSE data_frames[r]]
<1>1. /\ Enough(sections, Free(owners)) /\ Enough(res, Free(rc))
      /\ owners' = Counted(rc, g2)
      /\ memory' = Cleared(memory, g)
      /\ data_frames' = [data_frames EXCEPT ![s] =
            [p \in Pages |-> IF p \in DOMAIN g THEN g[p] ELSE NoFrame]]
      /\ pte' = [pte EXCEPT ![s] = map(ElfAreas, g)]
  <2> DEFINE Fin(r, h2, h) ==
               /\ owners' = Counted(r, h2)
               /\ memory' = Cleared(memory, h)
               /\ data_frames' = [data_frames EXCEPT ![s] =
                     [p \in Pages |-> IF p \in DOMAIN h THEN h[p] ELSE NoFrame]]
               /\ pte' = [pte EXCEPT ![s] = map(ElfAreas, h)]
             Join(h1, h2) == [p \in sections \cup res |-> IF p \in res THEN h2[p] ELSE h1[p]]
             Res(h1, r) == /\ Enough(res, Free(r))
                           /\ \E h2 \in {frame_alloc(res, Free(r))} :
                              \E h \in {Join(h1, h2)} : Fin(r, h2, h)
             Dropped(h1) == \E r \in {frame_dealloc(Counted(owners, h1), s, Pages)} :
                               Res(h1, r)
  <2>1. /\ Enough(sections, Free(owners))
        /\ \E h1 \in {frame_alloc(sections, Free(owners))} : Dropped(h1)
    BY DEF Exec
  <2>2. Dropped(g1)
    <3> HIDE DEF Dropped
    <3> QED
      BY <2>1
  <2>3. Res(g1, rc)
    <3> HIDE DEF Res
    <3> QED
      BY <2>2 DEF Dropped
  <2>4. Enough(res, Free(rc)) /\ Fin(rc, g2, Join(g1, g2))
    <3> HIDE DEF Fin, Join, rc, g1
    <3> QED
      BY <2>3
  <2>5. Fin(rc, g2, g)
    <3> HIDE DEF Fin, rc, g1, g2
    <3> QED
      BY <2>4
  <2> HIDE DEF g, g2, rc, g1
  <2> QED
    BY <2>1, <2>4, <2>5
<1>2. /\ sections \in SUBSET Pages /\ res \in SUBSET Pages
      /\ sections \cup res = PagesOf(ElfAreas)
      /\ \A p : ~(p \in sections /\ p \in res)
  <2>1. (ElfAreas \ UserRes) \in SUBSET Area /\ UserRes \in SUBSET Area /\ UserRes \subseteq ElfAreas
    BY CowAssumption
  <2>2. sections \in SUBSET Pages /\ res \in SUBSET Pages
    BY <2>1, PagesFinite
  <2>3. sections \cup res = PagesOf(ElfAreas)
    BY <2>1 DEF PagesOf
  <2>4. \A a, b \in ElfAreas : a # b => vpn_range(a) \cap vpn_range(b) = {}
    BY CowAssumption
  <2>5. \A p : ~(p \in sections /\ p \in res)
    BY <2>1, <2>4, SMT DEF PagesOf
  <2> QED
    BY <2>2, <2>3, <2>5
<1>3. /\ owners \in [Frames -> Nat] /\ RefExact(owners, data_frames)
      /\ data_frames \in [Spaces -> [Pages -> Frames \cup {NoFrame}]]
      /\ NoFrame \notin Frames
  BY CowAssumption DEF IInv, TypeOK
<1> HIDE DEF sections, res
<1>4. IsGrant(g1, sections, Free(owners))
  <2>1. Free(owners) \in SUBSET Frames
    BY DEF Free
  <2> QED
    BY <1>1, <1>2, <2>1, AllocGrants
<1>5. rc0 \in [Frames -> Nat] /\ RefExact(rc0, mid0) /\ Free(owners) \subseteq Free(rc0)
  <2>1. Retracked(data_frames, mid0, s, Pages, NoData)
    BY DEF Retracked
  <2> HIDE DEF mid0
  <2> QED
    BY <1>3, <2>1, DropPages
<1> HIDE DEF g1
<1>6. rc = Counted(rc0, g1)
  <2>1. ASSUME NEW f \in Frames PROVE rc[f] = Counted(rc0, g1)[f]
    <3>1. CASE f \in Granted(g1)
      <4>1. f \in Free(owners)
        BY <1>4, <3>1, SMT DEF Granted, IsGrant
      <4>2. {p \in Pages : data_frames[s][p] = f} = {}
        BY <1>3, <4>1, FreeUntracked
      <4>3. rc[f] = 1 - 0
        BY <3>1, <4>2, FS_EmptySet DEF frame_dealloc, Counted
      <4> QED
        BY <3>1, <4>3, SMT DEF Counted
    <3>2. CASE f \notin Granted(g1)
      BY <3>2 DEF Counted, frame_dealloc
    <3> QED
      BY <3>1, <3>2
  <2>2. rc = [f \in Frames |-> rc[f]] /\ Counted(rc0, g1) = [f \in Frames |-> Counted(rc0, g1)[f]]
    BY DEF frame_dealloc, Counted
  <2> HIDE DEF rc, rc0
  <2> QED
    BY <2>1, <2>2
<1>7. rc \in [Frames -> Nat] /\ RefExact(rc, mid1)
  <2>1. Retracked(mid0, mid1, s, sections, g1)
    BY DEF Retracked, NoData
  <2>2. \A p \in sections : mid0[s][p] = NoFrame
    BY <1>2 DEF NoData
  <2>3. IsGrant(g1, sections, Free(rc0))
    BY <1>4, <1>5 DEF IsGrant
  <2> HIDE DEF mid0, mid1, rc0, rc
  <2> QED
    BY <1>2, <1>5, <1>6, <2>1, <2>2, <2>3, GrantPages
<1> HIDE DEF rc0, rc
<1>8. IsGrant(g2, res, Free(rc))
  <2>1. Free(rc) \in SUBSET Frames
    BY DEF Free
  <2> QED
    BY <1>1, <1>2, <2>1, AllocGrants
<1> HIDE DEF g2
<1>9. /\ DOMAIN g = PagesOf(ElfAreas)
      /\ \A p \in res : g[p] = g2[p] /\ g2[p] \in Free(rc)
      /\ \A p \in sections : g[p] = g1[p] /\ g1[p] \in Free(owners)
  BY <1>2, <1>4, <1>8 DEF IsGrant
<1>10. /\ \A r \in Spaces, q \in Pages : r # s => mid1[r][q] = data_frames[r][q]
       /\ \A p \in sections : mid1[s][p] = g1[p]
       /\ \A p \in res : mid1[s][p] = NoFrame
  BY <1>2
<1>11. \A f \in Free(rc), r \in Spaces, q \in Pages : mid1[r][q] # f
  <2> HIDE DEF mid1
  <2> QED
    BY <1>7, FreeUntracked
<1>12. IsGrant(g, PagesOf(ElfAreas), Frames)
  <2>1. \A p \in PagesOf(ElfAreas) : g[p] \in Frames
    BY <1>2, <1>9 DEF Free
  <2>2. \A p \in res, q \in sections : g[p] # g[q]
    BY <1>2, <1>9, <1>10, <1>11
  <2>3. /\ \A p, q \in res : g[p] = g[q] => p = q
        /\ \A p, q \in sections : g[p] = g[q] => p = q
    BY <1>4, <1>8, <1>9, SMT DEF IsGrant
  <2>4. g \in [PagesOf(ElfAreas) -> Frames]
    BY <1>2, <2>1
  <2> HIDE DEF g
  <2>5. \A p, q \in PagesOf(ElfAreas) : g[p] = g[q] => p = q
    BY <1>2, <2>2, <2>3
  <2> QED
    BY <2>4, <2>5, <1>9 DEF IsGrant
<1>13. \A p \in PagesOf(ElfAreas) : Fresh(s, g[p])
  <2>1. \A p \in res : Fresh(s, g[p])
    <3> HIDE DEF mid1, g
    <3> QED
      BY <1>9, <1>10, <1>11 DEF Fresh
  <2>2. \A p \in sections : Fresh(s, g[p])
    <3> HIDE DEF g
    <3> QED
      BY <1>9, FreeFresh
  <2> HIDE DEF g
  <2> QED
    BY <1>2, <2>1, <2>2
<1>14. Retracked(mid1, data_frames', s, res, g2)
  <2>1. \A r \in Spaces : r # s => data_frames'[r] = data_frames[r]
    BY <1>1, <1>3
  <2>2. \A p \in Pages : data_frames'[s][p] = IF p \in DOMAIN g THEN g[p] ELSE NoFrame
    <3> HIDE DEF g
    <3> QED
      BY <1>1, <1>3
  <2>3. \A p \in Pages : data_frames'[s][p] = IF p \in res THEN g2[p] ELSE mid1[s][p]
    BY <1>2, <1>9, <2>2
  <2> HIDE DEF mid1, g
  <2> QED
    BY <1>10, <2>1, <2>3 DEF Retracked
<1>15. owners' \in [Frames -> Nat] /\ RefExact(owners', data_frames')
  <2> HIDE DEF mid1, g
  <2> QED
    BY <1>1, <1>2, <1>7, <1>8, <1>10, <1>14, GrantPages
<1>16. Loaded(s, g)
  <2> HIDE DEF g
  <2> QED
    BY <1>1, <1>12, <1>13 DEF Loaded
<1> QED
  BY <1>15, <1>16

(* Cleared pages hold values. *)
LEMMA ClearedTyped ==
    ASSUME NEW mem \in [Frames -> Values], NEW g
    PROVE  Cleared(mem, g) \in [Frames -> Values]
BY CowAssumption DEF Cleared

(* ProcessControlBlock::exec *)
LEMMA ExecKeeps ==
    ASSUME IInv, NEW s \in Spaces, Exec(s)
    PROVE  IInv'
<1>1. PICK g : Loaded(s, g)
  BY ExecLoads
<1>2. owners' \in [Frames -> Nat] /\ RefExact(owners', data_frames')
  BY ExecLoads
<1>3. /\ state' = state /\ buffer' = buffer /\ areas' = [areas EXCEPT ![s] = ElfAreas]
      /\ state[s] = "live"
  BY DEF Exec
<1> DEFINE D == [p \in Pages |-> IF p \in DOMAIN g THEN g[p] ELSE NoFrame]
<1>4. /\ data_frames' = [data_frames EXCEPT ![s] = D]
      /\ pte' = [pte EXCEPT ![s] = map(ElfAreas, g)]
      /\ IsGrant(g, PagesOf(ElfAreas), Frames)
      /\ memory' = Cleared(memory, g)
      /\ \A p \in PagesOf(ElfAreas) : Fresh(s, g[p])
  BY <1>1 DEF Loaded
<1>5. SpaceOK(ElfAreas, D, map(ElfAreas, g))
  BY <1>4, SpaceLoaded
<1>6. \A p \in Pages : D[p] = NoFrame \/ Fresh(s, D[p])
  BY <1>4 DEF IsGrant
<1>7. \A p \in Pages : map(ElfAreas, g)[p].w => Fresh(s, D[p])
  <2> SUFFICES ASSUME NEW p \in Pages, map(ElfAreas, g)[p].w PROVE Fresh(s, D[p])
    OBVIOUS
  <2>1. p \in DOMAIN g
    BY InvalidEntry DEF map
  <2> QED
    BY <1>4, <2>1 DEF IsGrant
<1> HIDE DEF D
<1>8. /\ areas'[s] = ElfAreas /\ data_frames'[s] = D /\ pte'[s] = map(ElfAreas, g)
      /\ Others(s)
  BY <1>3, <1>4 DEF IInv, TypeOK, Others
<1>9. TypeOK'
  <2>1. D \in [Pages -> Frames \cup {NoFrame}] /\ map(ElfAreas, g) \in [Pages -> Entry]
    BY <1>5 DEF SpaceOK
  <2>2. memory' \in [Frames -> Values]
    BY <1>4, ClearedTyped DEF IInv, TypeOK
  <2>3. data_frames' \in [Spaces -> [Pages -> Frames \cup {NoFrame}]]
    BY <1>4, <2>1 DEF IInv, TypeOK
  <2>4. pte' \in [Spaces -> [Pages -> Entry]]
    BY <1>4, <2>1 DEF IInv, TypeOK, Entry
  <2>5. areas' \in [Spaces -> SUBSET Area]
    BY <1>3, CowAssumption DEF IInv, TypeOK
  <2>6. state' \in [Spaces -> {"none", "live", "reading", "zombie"}] /\ buffer' \in [Spaces -> SUBSET Frames]
    BY <1>3 DEF IInv, TypeOK
  <2> QED
    BY <1>2, <2>2, <2>3, <2>4, <2>5, <2>6 DEF TypeOK, Entry
<1>10. Alive(s)' /\ state'[s] # "reading"
  BY <1>3 DEF Alive
<1> QED
  BY <1>2, <1>3, <1>5, <1>6, <1>7, <1>8, <1>9, <1>10, OneSpace

(* sys_mmap *)
LEMMA MmapIs ==
    ASSUME IInv, NEW s \in Spaces, NEW a \in Area, Mmap(s, a)
    PROVE  \E g : /\ IsGrant(g, vpn_range(a), Free(owners))
                  /\ \A p \in vpn_range(a) : data_frames[s][p] = NoFrame
                  /\ owners' = Counted(owners, g)
                  /\ memory' = Cleared(memory, g)
                  /\ data_frames' = [data_frames EXCEPT ![s] =
                        [p \in Pages |-> IF p \in DOMAIN g THEN g[p] ELSE data_frames[s][p]]]
                  /\ pte' = [pte EXCEPT ![s] =
                        [p \in Pages |-> IF p \in DOMAIN g THEN map({a}, g)[p] ELSE pte[s][p]]]
                  /\ \A b \in areas[s] : vpn_range(a) \cap vpn_range(b) = {}
                  /\ SpaceOK(areas[s], data_frames[s], pte[s])
<1> DEFINE g == frame_alloc(vpn_range(a), Free(owners))
<1>1. /\ Enough(vpn_range(a), Free(owners))
      /\ owners' = Counted(owners, g)
      /\ memory' = Cleared(memory, g)
      /\ data_frames' = [data_frames EXCEPT ![s] =
            [p \in Pages |-> IF p \in DOMAIN g THEN g[p] ELSE data_frames[s][p]]]
      /\ pte' = [pte EXCEPT ![s] =
            [p \in Pages |-> IF p \in DOMAIN g THEN map({a}, g)[p] ELSE pte[s][p]]]
  BY Zenon DEF Mmap
<1>2. vpn_range(a) \in SUBSET Pages /\ Free(owners) \in SUBSET Frames
  BY PagesFinite DEF Free
<1>3. IsGrant(g, vpn_range(a), Free(owners))
  BY <1>1, <1>2, AllocGrants
<1>4. SpaceOK(areas[s], data_frames[s], pte[s])
  BY DEF Mmap, IInv, SpacesOK, Alive
<1>5. \A b \in areas[s] : vpn_range(a) \cap vpn_range(b) = {}
  <2> SUFFICES ASSUME NEW b \in areas[s], NEW p \in vpn_range(a), p \in vpn_range(b)
               PROVE  FALSE
    OBVIOUS
  <2>1. ~(a.start < b.end /\ b.start < a.end)
    BY DEF Mmap, area_conflicts
  <2>2. b \in Area
    BY <1>4 DEF SpaceOK
  <2>3. /\ a.start \in Int /\ a.end \in Int /\ b.start \in Int /\ b.end \in Int
    BY <2>2, CowAssumption, SMT DEF Area, Pages
  <2> QED
    BY <2>1, <2>3, SMT DEF vpn_range
<1>6. \A p \in vpn_range(a) : data_frames[s][p] = NoFrame
  <2> SUFFICES ASSUME NEW p \in vpn_range(a), data_frames[s][p] # NoFrame PROVE FALSE
    OBVIOUS
  <2>1. p \in PagesOf(areas[s])
    BY <1>2, <1>4 DEF SpaceOK
  <2> QED
    BY <1>5, <2>1 DEF PagesOf
<1> HIDE DEF g
<1> QED
  BY <1>1, <1>3, <1>4, <1>5, <1>6

(* sys_mmap maps a new area on free frames. *)
LEMMA MmapKeeps ==
    ASSUME IInv, NEW s \in Spaces, NEW a \in Area, Mmap(s, a)
    PROVE  IInv'
<1>1. PICK g : /\ IsGrant(g, vpn_range(a), Free(owners))
               /\ \A p \in vpn_range(a) : data_frames[s][p] = NoFrame
               /\ owners' = Counted(owners, g)
               /\ memory' = Cleared(memory, g)
               /\ data_frames' = [data_frames EXCEPT ![s] =
                     [p \in Pages |-> IF p \in DOMAIN g THEN g[p] ELSE data_frames[s][p]]]
               /\ pte' = [pte EXCEPT ![s] =
                     [p \in Pages |-> IF p \in DOMAIN g THEN map({a}, g)[p] ELSE pte[s][p]]]
               /\ \A b \in areas[s] : vpn_range(a) \cap vpn_range(b) = {}
               /\ SpaceOK(areas[s], data_frames[s], pte[s])
  BY MmapIs
<1>2. /\ state' = state /\ buffer' = buffer /\ areas' = [areas EXCEPT ![s] = @ \cup {a}]
      /\ state[s] = "live"
  BY DEF Mmap
<1> DEFINE D == [p \in Pages |-> IF p \in DOMAIN g THEN g[p] ELSE data_frames[s][p]]
           T == [p \in Pages |-> IF p \in DOMAIN g THEN map({a}, g)[p] ELSE pte[s][p]]
<1>3. \A p \in vpn_range(a) : g[p] \in Free(owners) /\ g[p] \in Frames /\ Fresh(s, g[p])
  <2>1. \A p \in vpn_range(a) : g[p] \in Free(owners)
    BY <1>1 DEF IsGrant
  <2> QED
    BY <2>1, FreeFresh DEF Free
<1>4. SpaceOK(areas[s] \cup {a}, D, T)
  <2>1. IsGrant(g, vpn_range(a), Frames)
    BY <1>1, <1>3 DEF IsGrant
  <2>2. \A p \in vpn_range(a), q \in Pages : g[p] # data_frames[s][q]
    BY <1>3, FreeUntracked DEF IInv
  <2> QED
    BY <1>1, <2>1, <2>2, SpaceMapped, SMT
<1>5. \A p \in Pages : D[p] = data_frames[s][p] \/ Fresh(s, D[p])
  BY <1>1, <1>3 DEF IsGrant
<1>6. \A p \in Pages : T[p].w => Fresh(s, D[p])
  <2> SUFFICES ASSUME NEW p \in Pages, T[p].w PROVE Fresh(s, D[p])
    OBVIOUS
  <2>1. CASE p \in DOMAIN g
    BY <1>1, <1>3, <2>1 DEF IsGrant
  <2>2. CASE p \notin DOMAIN g
    <3>1. pte[s][p].w /\ D[p] = data_frames[s][p] /\ Alive(s)
      BY <1>2, <2>2 DEF Alive
    <3> QED
      BY <3>1, WritableFresh
  <2> QED
    BY <2>1, <2>2
<1>7. /\ data_frames' = [data_frames EXCEPT ![s] = D] /\ pte' = [pte EXCEPT ![s] = T]
  BY <1>1
<1> HIDE DEF D, T
<1>8. /\ areas'[s] = areas[s] \cup {a} /\ data_frames'[s] = D /\ pte'[s] = T
      /\ Others(s)
  BY <1>2, <1>7 DEF IInv, TypeOK, Others
<1>9. owners' \in [Frames -> Nat] /\ RefExact(owners', data_frames')
  <2>1. Retracked(data_frames, data_frames', s, vpn_range(a), g)
    BY <1>1, <1>8, SMT DEF Retracked, Others, D, IsGrant
  <2>2. vpn_range(a) \in SUBSET Pages
    BY PagesFinite
  <2> QED
    BY <1>1, <2>1, <2>2, GrantPages DEF IInv, TypeOK
<1>10. TypeOK'
  <2>1. D \in [Pages -> Frames \cup {NoFrame}] /\ T \in [Pages -> Entry]
    BY <1>4 DEF SpaceOK
  <2>2. memory' \in [Frames -> Values]
    BY <1>1, ClearedTyped DEF IInv, TypeOK
  <2>3. data_frames' \in [Spaces -> [Pages -> Frames \cup {NoFrame}]]
    BY <1>7, <2>1 DEF IInv, TypeOK
  <2>4. pte' \in [Spaces -> [Pages -> Entry]]
    BY <1>7, <2>1 DEF IInv, TypeOK, Entry
  <2>5. areas' \in [Spaces -> SUBSET Area]
    BY <1>2 DEF IInv, TypeOK
  <2>6. state' \in [Spaces -> {"none", "live", "reading", "zombie"}] /\ buffer' \in [Spaces -> SUBSET Frames]
    BY <1>2 DEF IInv, TypeOK
  <2> QED
    BY <1>9, <2>2, <2>3, <2>4, <2>5, <2>6 DEF TypeOK, Entry
<1>11. Alive(s)' /\ state'[s] # "reading"
  BY <1>2 DEF Alive
<1> QED
  BY <1>2, <1>4, <1>5, <1>6, <1>8, <1>9, <1>10, <1>11, OneSpace

(* sys_munmap *)
LEMMA MunmapKeeps ==
    ASSUME IInv, NEW s \in Spaces, NEW a \in areas[s], Munmap(s, a)
    PROVE  IInv'
<1> DEFINE P == vpn_range(a)
           D == [p \in Pages |-> IF p \in P THEN NoFrame ELSE data_frames[s][p]]
           T == [p \in Pages |-> IF p \in P THEN Invalid ELSE pte[s][p]]
<1>1. /\ state' = state /\ buffer' = buffer /\ memory' = memory
      /\ areas' = [areas EXCEPT ![s] = @ \ {a}]
      /\ state[s] = "live"
      /\ owners' = frame_dealloc(owners, s, P)
      /\ data_frames' = [data_frames EXCEPT ![s] = D] /\ pte' = [pte EXCEPT ![s] = T]
  BY DEF Munmap, unmap
<1>2. SpaceOK(areas[s], data_frames[s], pte[s]) /\ Alive(s)
  BY <1>1 DEF IInv, SpacesOK, Alive
<1>3. SpaceOK(areas[s] \ {a}, D, T)
  BY <1>2, SpaceUnmapped, SMT
<1>4. P \in SUBSET Pages
  <2>1. a \in Area
    BY <1>2 DEF SpaceOK
  <2> QED
    BY <2>1, PagesFinite
<1>5. \A p \in Pages : T[p].w => Fresh(s, D[p])
  <2> SUFFICES ASSUME NEW p \in Pages, T[p].w PROVE Fresh(s, D[p])
    OBVIOUS
  <2>1. p \notin P
    BY InvalidEntry
  <2>2. pte[s][p].w /\ D[p] = data_frames[s][p]
    BY <2>1
  <2> QED
    BY <1>2, <2>2, WritableFresh
<1>6. \A p \in Pages : D[p] = NoFrame \/ D[p] = data_frames[s][p]
  OBVIOUS
<1> HIDE DEF D, T, P
<1>7. /\ areas'[s] = areas[s] \ {a} /\ data_frames'[s] = D /\ pte'[s] = T
      /\ Others(s)
  BY <1>1 DEF IInv, TypeOK, Others
<1>8. owners' \in [Frames -> Nat] /\ RefExact(owners', data_frames')
  <2>1. Retracked(data_frames, data_frames', s, P, NoData)
    BY <1>7, SMT DEF Retracked, Others, D, NoData
  <2> QED
    BY <1>1, <1>4, <2>1, DropPages DEF IInv, TypeOK
<1>9. TypeOK'
  <2>1. D \in [Pages -> Frames \cup {NoFrame}] /\ T \in [Pages -> Entry]
    BY <1>3 DEF SpaceOK
  <2>2. data_frames' \in [Spaces -> [Pages -> Frames \cup {NoFrame}]]
    BY <1>1, <2>1 DEF IInv, TypeOK
  <2>3. pte' \in [Spaces -> [Pages -> Entry]]
    BY <1>1, <2>1 DEF IInv, TypeOK, Entry
  <2>4. areas' \in [Spaces -> SUBSET Area]
    BY <1>1 DEF IInv, TypeOK
  <2> QED
    BY <1>1, <1>8, <2>2, <2>3, <2>4 DEF IInv, TypeOK, Entry
<1>10. Alive(s)' /\ state'[s] # "reading"
  BY <1>1 DEF Alive
<1> QED
  BY <1>1, <1>3, <1>5, <1>6, <1>7, <1>8, <1>9, <1>10, OneSpace

(* exit_current_and_run_next of the last thread *)
LEMMA ExitKeeps ==
    ASSUME IInv, NEW s \in Spaces, Exit(s)
    PROVE  IInv'
<1> DEFINE T == [p \in Pages |-> IF p \in PagesOf(UserRes) THEN Invalid ELSE pte[s][p]]
<1>1. /\ state' = [state EXCEPT ![s] = "zombie"] /\ buffer' = buffer /\ memory' = memory
      /\ areas' = [areas EXCEPT ![s] = {}]
      /\ owners' = frame_dealloc(owners, s, Pages)
      /\ data_frames' = [data_frames EXCEPT ![s] =
            [p \in Pages |-> IF p \in Pages THEN NoFrame ELSE data_frames[s][p]]]
      /\ pte' = [pte EXCEPT ![s] = T]
  BY DEF Exit, unmap
<1>2. data_frames' = [data_frames EXCEPT ![s] = NoData]
  BY <1>1 DEF NoData
<1>3. T \in [Pages -> Entry] /\ NoData \in [Pages -> Frames \cup {NoFrame}]
  BY TrackersTyped, InvalidEntry DEF NoData
<1> HIDE DEF T
<1>4. /\ areas'[s] = {} /\ data_frames'[s] = NoData /\ state'[s] = "zombie" /\ Others(s)
  BY <1>1, <1>2 DEF IInv, TypeOK, Others
<1>5. owners' \in [Frames -> Nat] /\ RefExact(owners', data_frames')
  <2>1. Retracked(data_frames, data_frames', s, Pages, NoData)
    BY <1>4 DEF Retracked, Others, NoData
  <2> QED
    BY <1>1, <2>1, DropPages DEF IInv, TypeOK
<1>6. TypeOK'
  <2>1. data_frames' \in [Spaces -> [Pages -> Frames \cup {NoFrame}]]
    BY <1>2, <1>3 DEF IInv, TypeOK
  <2>2. pte' \in [Spaces -> [Pages -> Entry]]
    BY <1>1, <1>3 DEF IInv, TypeOK, Entry
  <2>3. areas' \in [Spaces -> SUBSET Area]
    BY <1>1 DEF IInv, TypeOK
  <2>4. state' \in [Spaces -> {"none", "live", "reading", "zombie"}]
    BY <1>1 DEF IInv, TypeOK
  <2> QED
    BY <1>1, <1>5, <2>1, <2>2, <2>3, <2>4 DEF IInv, TypeOK, Entry
<1>7. ~Alive(s)'
  BY <1>4 DEF Alive
<1>8. \A p \in Pages : data_frames'[s][p] = NoFrame
  BY <1>4 DEF NoData
<1> QED
  BY <1>1, <1>4, <1>5, <1>6, <1>7, <1>8, OneSpace

(* sys_waitpid *)
LEMMA ReapKeeps ==
    ASSUME IInv, NEW s \in Spaces, Reap(s)
    PROVE  IInv'
<1>1. /\ state' = [state EXCEPT ![s] = "none"] /\ pte' = [pte EXCEPT ![s] = NoPtes]
      /\ state[s] = "zombie"
      /\ UNCHANGED <<owners, memory, areas, data_frames, buffer>>
  BY DEF Reap
<1>2. NoPtes \in [Pages -> Entry]
  BY InvalidEntry DEF NoPtes
<1>3. state'[s] = "none" /\ Others(s)
  BY <1>1 DEF IInv, TypeOK, Others
<1>4. TypeOK'
  <2>1. pte' \in [Spaces -> [Pages -> Entry]]
    BY <1>1, <1>2 DEF IInv, TypeOK, Entry
  <2>2. state' \in [Spaces -> {"none", "live", "reading", "zombie"}]
    BY <1>1 DEF IInv, TypeOK
  <2> QED
    BY <1>1, <2>1, <2>2 DEF IInv, TypeOK, Entry
<1>5. ~Alive(s)' /\ ~Alive(s)
  BY <1>1, <1>3 DEF Alive
<1>6. areas'[s] = {} /\ data_frames'[s] = NoData
  BY <1>1, <1>5 DEF IInv, SpacesOK
<1>7. RefExact(owners', data_frames')
  BY <1>1 DEF IInv
<1> QED
  BY <1>1, <1>3, <1>4, <1>5, <1>6, <1>7, OneSpace

(* A store, or bytes that arrive in a buffer, change no table. *)
LEMMA WriteKeeps ==
    ASSUME IInv, NEW f \in Frames, NEW v \in Values, memory' = [memory EXCEPT ![f] = v],
           UNCHANGED <<owners, state, areas, data_frames, pte, buffer>>
    PROVE  IInv'
<1>1. TypeOK'
  BY DEF IInv, TypeOK
<1>2. SpacesOK' /\ Sole' /\ BufferOK' /\ RefExact(owners', data_frames')
  BY SMT DEF IInv, SpacesOK, Sole, BufferOK, Alive
<1> QED
  BY <1>1, <1>2 DEF IInv

(* A blocked sys_read returns. *)
LEMMA ReadEndKeeps ==
    ASSUME IInv, NEW s \in Spaces, ReadEnd(s)
    PROVE  IInv'
<1>1. /\ state[s] = "reading" /\ state' = [state EXCEPT ![s] = "live"]
      /\ buffer' = [buffer EXCEPT ![s] = {}]
      /\ UNCHANGED <<owners, memory, areas, data_frames, pte>>
  BY DEF ReadEnd
<1>2. TypeOK'
  BY <1>1 DEF IInv, TypeOK
<1>3. \A r \in Spaces : (Alive(r)' <=> Alive(r)) /\ (state'[r] = "reading" => state[r] = "reading" /\ buffer'[r] = buffer[r])
  BY <1>1 DEF IInv, TypeOK, Alive
<1>4. SpacesOK' /\ Sole'
  BY <1>1, <1>3 DEF IInv, SpacesOK, Sole
<1>5. BufferOK'
  BY <1>1, <1>3 DEF IInv, BufferOK
<1>6. RefExact(owners', data_frames')
  BY <1>1 DEF IInv
<1> QED
  BY <1>2, <1>4, <1>5, <1>6 DEF IInv

(* A fault leaves every page it was for writable, and all other rights. *)
LEMMA FaultRights ==
    ASSUME IInv, NEW s \in Spaces, state[s] = "live",
           NEW R \in SUBSET Pages, \A p \in R : pte[s][p].cow,
           handle_cow_fault(s, R)
    PROVE  /\ \A r \in Spaces : r # s => pte'[r] = pte[r]
           /\ \A p \in R : pte'[s][p].w /\ pte'[s][p].u = pte[s][p].u /\ pte'[s][p].ppn \in Frames
           /\ \A p \in Pages : p \notin R => pte'[s][p] = pte[s][p]
<1>1. PICK g : Faulted(s, R, g)
  BY FaultIs
<1>2. /\ \A r \in Spaces : r # s => pte'[r] = pte[r]
      /\ \A p \in Pages :
            pte'[s][p] = IF p \in Shared(s, R) THEN resolved(pte[s][p], g[p])
                          ELSE IF p \in R THEN resolved(pte[s][p], pte[s][p].ppn)
                          ELSE pte[s][p]
      /\ \A p \in Shared(s, R) : p \in R /\ g[p] \in Frames
  BY <1>1 DEF Faulted, Shared, Free
<1>3. \A p \in R : pte[s][p] \in Entry /\ pte[s][p].ppn \in Frames
  BY RightsAreValid, MappedPage DEF Alive
<1>4. ASSUME NEW p \in R
      PROVE  pte'[s][p].w /\ pte'[s][p].u = pte[s][p].u /\ pte'[s][p].ppn \in Frames
  <2>1. PICK f \in Frames : pte'[s][p] = resolved(pte[s][p], f)
    BY <1>2, <1>3
  <2>2. /\ resolved(pte[s][p], f).ppn = f /\ resolved(pte[s][p], f).u = pte[s][p].u
        /\ resolved(pte[s][p], f).w = TRUE
    BY <1>3, ResolvedEntry
  <2> QED
    BY <2>1, <2>2
<1> QED
  BY <1>2, <1>4

(* StorePageFault *)
LEMMA StoreFaultKeeps ==
    ASSUME IInv, NEW s \in Spaces, NEW p \in Pages, StoreFault(s, p)
    PROVE  IInv'
<1>1. /\ state[s] = "live" /\ pte[s][p].cow /\ handle_cow_fault(s, {p})
      /\ UNCHANGED <<state, areas, buffer>>
  BY DEF StoreFault
<1>2. {p} \in SUBSET Pages /\ \A q \in {p} : pte[s][q].cow
  BY <1>1
<1>3. \A r \in Spaces : Alive(r)' <=> Alive(r)
  BY <1>1 DEF Alive
<1>4. /\ owners' \in [Frames -> Nat] /\ memory' \in [Frames -> Values]
      /\ RefExact(owners', data_frames') /\ SpacesOK' /\ Sole'
  BY <1>1, <1>2, <1>3, FaultKeeps
<1>5. /\ data_frames' \in [Spaces -> [Pages -> Frames \cup {NoFrame}]]
      /\ pte' \in [Spaces -> [Pages -> Entry]]
  BY <1>1, <1>2, FaultIs
<1>6. TypeOK'
  BY <1>1, <1>4, <1>5 DEF IInv, TypeOK, Entry
<1>7. \A r \in Spaces : r # s => pte'[r] = pte[r]
  BY <1>1, <1>2, FaultRights
<1>8. BufferOK'
  BY <1>1, <1>7, SMT DEF IInv, BufferOK
<1> QED
  BY <1>4, <1>6, <1>8 DEF IInv

(* sys_read, up to the wait for data *)
LEMMA ReadBeginKeeps ==
    ASSUME IInv, NEW s \in Spaces, NEW lo \in Pages, NEW hi \in Pages, ReadBegin(s, lo, hi)
    PROVE  IInv'
<1> DEFINE R == {p \in Reached(s, lo, hi) : pte[s][p].cow}
<1>1. /\ state[s] = "live" /\ handle_cow_fault(s, R) /\ areas' = areas
      /\ IF Reached(s, lo, hi) = lo .. hi
         THEN /\ state' = [state EXCEPT ![s] = "reading"]
              /\ buffer' = [buffer EXCEPT ![s] = {pte'[s][p].ppn : p \in lo .. hi}]
         ELSE state' = state /\ buffer' = buffer
  BY DEF ReadBegin
<1>2. lo .. hi \subseteq Pages
  BY CowAssumption, SMT DEF Pages
<1>3. R \in SUBSET Pages /\ \A q \in R : pte[s][q].cow
  BY <1>2 DEF Reached
<1>4. \A r \in Spaces : Alive(r)' <=> Alive(r)
  BY <1>1 DEF Alive, IInv, TypeOK
<1>5. \A p \in Reached(s, lo, hi) : p \in WritePages(s)
  BY <1>2, CowAssumption, SMT DEF Reached, Pages
<1>6. \A p \in Reached(s, lo, hi) : p \notin R => pte[s][p].w
  BY <1>5 DEF WritePages
<1>7. \A p \in Reached(s, lo, hi) : pte[s][p].u /\ p \in Pages
  BY <1>5 DEF WritePages, UserPages
<1> HIDE DEF R
<1>8. /\ owners' \in [Frames -> Nat] /\ memory' \in [Frames -> Values]
      /\ RefExact(owners', data_frames') /\ SpacesOK' /\ Sole'
  BY <1>1, <1>3, <1>4, FaultKeeps
<1>9. /\ data_frames' \in [Spaces -> [Pages -> Frames \cup {NoFrame}]]
      /\ pte' \in [Spaces -> [Pages -> Entry]]
  BY <1>1, <1>3, FaultIs
<1>10. /\ \A r \in Spaces : r # s => pte'[r] = pte[r]
       /\ \A p \in R : pte'[s][p].w /\ pte'[s][p].u = pte[s][p].u /\ pte'[s][p].ppn \in Frames
       /\ \A p \in Pages : p \notin R => pte'[s][p] = pte[s][p]
  BY <1>1, <1>3, FaultRights
<1>11. \A p \in Reached(s, lo, hi) : pte'[s][p].w /\ pte'[s][p].u /\ pte'[s][p].ppn \in Frames
  <2> SUFFICES ASSUME NEW p \in Reached(s, lo, hi)
               PROVE  pte'[s][p].w /\ pte'[s][p].u /\ pte'[s][p].ppn \in Frames
    OBVIOUS
  <2>1. CASE p \in R
    BY <1>7, <1>10, <2>1
  <2>2. CASE p \notin R
    <3>1. pte[s][p].w /\ pte[s][p].u /\ p \in Pages /\ pte'[s][p] = pte[s][p] /\ Alive(s)
      BY <1>1, <1>6, <1>7, <1>10, <2>2 DEF Alive
    <3>2. pte[s][p].ppn \in Frames
      BY <3>1, RightsAreValid, MappedPage
    <3> QED
      BY <3>1, <3>2
  <2> QED
    BY <2>1, <2>2
<1>12. CASE Reached(s, lo, hi) = lo .. hi
  <2>1. /\ state' = [state EXCEPT ![s] = "reading"]
        /\ buffer' = [buffer EXCEPT ![s] = {pte'[s][p].ppn : p \in lo .. hi}]
    BY <1>1, <1>12
  <2>2. TypeOK'
    <3>1. state' \in [Spaces -> {"none", "live", "reading", "zombie"}]
      BY <2>1 DEF IInv, TypeOK
    <3>2. {pte'[s][p].ppn : p \in lo .. hi} \in SUBSET Frames
      BY <1>11, <1>12
    <3>3. buffer' \in [Spaces -> SUBSET Frames]
      BY <2>1, <3>2 DEF IInv, TypeOK
    <3> QED
      BY <1>1, <1>8, <1>9, <3>1, <3>3 DEF IInv, TypeOK, Entry
  <2>3. BufferOK'
    <3> SUFFICES ASSUME NEW r \in Spaces, state'[r] = "reading", NEW f \in buffer'[r]
                 PROVE  \E p \in Pages : pte'[r][p].ppn = f /\ pte'[r][p].w /\ pte'[r][p].u
      BY DEF BufferOK
    <3>1. CASE r = s
      <4>1. f \in {pte'[s][p].ppn : p \in lo .. hi}
        BY <2>1, <3>1 DEF IInv, TypeOK
      <4> QED
        BY <1>2, <1>11, <1>12, <3>1, <4>1
    <3>2. CASE r # s
      <4>1. state[r] = "reading" /\ f \in buffer[r] /\ pte'[r] = pte[r]
        BY <1>10, <2>1, <3>2 DEF IInv, TypeOK
      <4> QED
        BY <4>1, SMT DEF IInv, BufferOK
    <3> QED
      BY <3>1, <3>2
  <2> QED
    BY <1>8, <2>2, <2>3 DEF IInv
<1>13. CASE Reached(s, lo, hi) # lo .. hi
  <2>1. state' = state /\ buffer' = buffer
    BY <1>1, <1>13
  <2>2. TypeOK'
    BY <1>1, <1>8, <1>9, <2>1 DEF IInv, TypeOK, Entry
  <2>3. BufferOK'
    BY <1>1, <1>10, <2>1, SMT DEF IInv, BufferOK
  <2> QED
    BY <1>8, <2>2, <2>3 DEF IInv
<1> QED
  BY <1>12, <1>13

(* from_existed_user_cow: what it leaves behind in parent and child. *)
Forked(s, c, g) ==
    /\ IsGrant(g, KernelPages(s), Free(owners))
    /\ owners' = Counted(frame_add_ref(owners, s, UserPages(s)), g)
    /\ memory' = CopiedMemory(s, g)
    /\ \A r \in Spaces : r # c => data_frames'[r] = data_frames[r] /\ areas'[r] = areas[r]
    /\ \A r \in Spaces : r # c /\ r # s => pte'[r] = pte[r]
    /\ areas'[c] = areas[s]
    /\ \A p \in Pages :
          /\ data_frames'[c][p] = IF p \in KernelPages(s) THEN g[p]
                                  ELSE IF p \in UserPages(s) THEN data_frames[s][p]
                                  ELSE NoFrame
          /\ pte'[s][p] = IF p \in WritePages(s) THEN mark_cow(pte[s][p]) ELSE pte[s][p]
          /\ pte'[c][p] = IF p \in KernelPages(s) THEN [pte[s][p] EXCEPT !.ppn = g[p]]
                          ELSE IF p \in WritePages(s) THEN mark_cow(pte[s][p])
                          ELSE pte[s][p]

(* What a fork starts from. *)
LEMMA ForkStarts ==
    ASSUME IInv, NEW s \in Spaces, NEW c \in Spaces, Fork(s, c)
    PROVE  /\ s # c /\ state[s] = "live" /\ Alive(s) /\ ~Alive(c) /\ state[c] = "none"
           /\ data_frames[c] = NoData
           /\ SpaceOK(areas[s], data_frames[s], pte[s])
           /\ state' = [state EXCEPT ![c] = "live"] /\ buffer' = buffer
           /\ areas' = [areas EXCEPT ![c] = areas[s]]
<1>1. /\ state[s] = "live" /\ state[c] = "none"
      /\ state' = [state EXCEPT ![c] = "live"] /\ buffer' = buffer
      /\ areas' = [areas EXCEPT ![c] = areas[s]]
  BY DEF Fork
<1>2. Alive(s) /\ ~Alive(c)
  BY <1>1 DEF Alive
<1> QED
  BY <1>1, <1>2 DEF IInv, SpacesOK

(* fork shares the user pages, without the right to write, and copies      *)
(* those of the kernel.                                                    *)
LEMMA ForkIs ==
    ASSUME IInv, NEW s \in Spaces, NEW c \in Spaces, Fork(s, c)
    PROVE  /\ \E g : Forked(s, c, g)
           /\ data_frames' \in [Spaces -> [Pages -> Frames \cup {NoFrame}]]
           /\ pte' \in [Spaces -> [Pages -> Entry]]
<1> DEFINE K == KernelPages(s)
           g == frame_alloc(K, Free(owners))
           D == [p \in Pages |-> IF p \in K THEN g[p]
                                 ELSE IF p \in UserPages(s) THEN data_frames[s][p]
                                 ELSE NoFrame]
           M == [p \in Pages |-> IF p \in WritePages(s) THEN mark_cow(pte[s][p]) ELSE pte[s][p]]
           T == [p \in Pages |-> IF p \in K THEN [pte[s][p] EXCEPT !.ppn = g[p]]
                                 ELSE IF p \in WritePages(s) THEN mark_cow(pte[s][p])
                                 ELSE pte[s][p]]
<1>1. /\ Enough(K, Free(owners))
      /\ owners' = Counted(frame_add_ref(owners, s, UserPages(s)), g)
      /\ memory' = CopiedMemory(s, g)
      /\ data_frames' = [data_frames EXCEPT ![c] = D]
      /\ pte' = [pte EXCEPT ![s] = M, ![c] = T]
  <2> DEFINE Fin(h) ==
        /\ owners' = Counted(frame_add_ref(owners, s, UserPages(s)), h)
        /\ memory' = CopiedMemory(s, h)
        /\ data_frames' = [data_frames EXCEPT ![c] =
              [p \in Pages |-> IF p \in K THEN h[p]
                               ELSE IF p \in UserPages(s) THEN data_frames[s][p]
                               ELSE NoFrame]]
        /\ pte' = [pte EXCEPT
              ![s] = M,
              ![c] = [p \in Pages |->
                        IF p \in K THEN [pte[s][p] EXCEPT !.ppn = h[p]]
                        ELSE IF p \in WritePages(s) THEN mark_cow(pte[s][p])
                        ELSE pte[s][p]]]
  <2>1. Enough(K, Free(owners)) /\ \E h \in {frame_alloc(K, Free(owners))} : Fin(h)
    BY DEF Fork, CopiedMemory, MarkedParent
  <2>2. Fin(g)
    <3> HIDE DEF Fin
    <3> QED
      BY <2>1
  <2> HIDE DEF g
  <2> QED
    BY <2>1, <2>2
<1>2. K \in SUBSET Pages /\ Free(owners) \in SUBSET Frames
  BY DEF Free, KernelPages
<1>3. IsGrant(g, K, Free(owners))
  BY <1>1, <1>2, AllocGrants
<1>4. \A p \in K : g[p] \in Frames
  BY <1>3 DEF IsGrant, Free
<1> HIDE DEF g
<1>5. /\ data_frames \in [Spaces -> [Pages -> Frames \cup {NoFrame}]]
      /\ pte \in [Spaces -> [Pages -> Entry]]
  BY DEF IInv, TypeOK, Entry
<1>6. D \in [Pages -> Frames \cup {NoFrame}]
  BY <1>4, <1>5
<1>7. \A p \in WritePages(s) : mark_cow(pte[s][p]) \in Entry
  <2>1. \A p \in WritePages(s) : p \in Pages /\ is_valid(pte[s][p])
    BY DEF WritePages, UserPages
  <2>2. \A p \in WritePages(s) : pte[s][p] \in Entry /\ pte[s][p].ppn \in Frames
    BY <2>1, MappedPage, ForkStarts
  <2> QED
    BY <2>2, MarkedEntry
<1>8. \A p \in K : [pte[s][p] EXCEPT !.ppn = g[p]] \in Entry
  BY <1>2, <1>4, <1>5, MovedEntry, SMT
<1>9. M \in [Pages -> Entry]
  BY <1>5, <1>7
<1>10. T \in [Pages -> Entry]
  BY <1>5, <1>7, <1>8
<1>11. /\ \A p \in Pages : data_frames'[c][p] = D[p] /\ pte'[s][p] = M[p] /\ pte'[c][p] = T[p]
       /\ \A r \in Spaces : r # c => data_frames'[r] = data_frames[r]
       /\ \A r \in Spaces : r # c /\ r # s => pte'[r] = pte[r]
  <2> HIDE DEF D, M, T
  <2> QED
    BY <1>1, <1>5, ForkStarts
<1>12. Forked(s, c, g)
  <2>1. areas'[c] = areas[s] /\ \A r \in Spaces : r # c => areas'[r] = areas[r]
    BY ForkStarts, SMT DEF IInv, TypeOK
  <2> QED
    BY <1>1, <1>3, <1>11, <2>1 DEF Forked
<1> HIDE DEF D, M, T
<1>13. /\ data_frames' \in [Spaces -> [Pages -> Frames \cup {NoFrame}]]
       /\ pte' \in [Spaces -> [Pages -> Entry]]
  BY <1>1, <1>5, <1>6, <1>9, <1>10
<1> QED
  BY <1>12, <1>13

(* After a fork, neither of the two can write what they share. *)
LEMMA ForkKeeps ==
    ASSUME IInv, NEW s \in Spaces, NEW c \in Spaces, Fork(s, c)
    PROVE  IInv'
<1> DEFINE K == KernelPages(s)
           U == UserPages(s)
           W == WritePages(s)
<1>1. PICK g : Forked(s, c, g)
  BY ForkIs
<1>2. /\ s # c /\ state[s] = "live" /\ Alive(s) /\ ~Alive(c)
      /\ data_frames[c] = NoData
      /\ SpaceOK(areas[s], data_frames[s], pte[s])
      /\ state' = [state EXCEPT ![c] = "live"] /\ buffer' = buffer
      /\ areas' = [areas EXCEPT ![c] = areas[s]]
  BY ForkStarts
<1>3. /\ IsGrant(g, K, Free(owners))
      /\ owners' = Counted(frame_add_ref(owners, s, U), g)
      /\ memory' = CopiedMemory(s, g)
      /\ \A r \in Spaces : r # c => data_frames'[r] = data_frames[r] /\ areas'[r] = areas[r]
      /\ \A r \in Spaces : r # c /\ r # s => pte'[r] = pte[r]
      /\ areas'[c] = areas[s]
      /\ \A p \in Pages :
            /\ data_frames'[c][p] = IF p \in K THEN g[p]
                                    ELSE IF p \in U THEN data_frames[s][p] ELSE NoFrame
            /\ pte'[s][p] = IF p \in W THEN mark_cow(pte[s][p]) ELSE pte[s][p]
            /\ pte'[c][p] = IF p \in K THEN [pte[s][p] EXCEPT !.ppn = g[p]]
                            ELSE IF p \in W THEN mark_cow(pte[s][p]) ELSE pte[s][p]
  BY <1>1 DEF Forked
<1>4. /\ K \in SUBSET Pages /\ U \in SUBSET Pages /\ W \subseteq U
      /\ \A p \in Pages : ~(p \in K /\ p \in U)
      /\ \A p \in Pages : p \in K \/ p \in U <=> is_valid(pte[s][p])
      /\ \A p \in Pages : p \in W <=> p \in U /\ (pte[s][p].w \/ pte[s][p].cow)
      /\ \A p \in Pages : p \in U => pte[s][p].u
  BY DEF KernelPages, UserPages, WritePages
<1>5. \A p \in K : g[p] \in Free(owners) /\ g[p] \in Frames
  BY <1>3 DEF IsGrant, Free
<1>6. /\ owners \in [Frames -> Nat] /\ RefExact(owners, data_frames)
      /\ NoFrame \notin Frames
      /\ data_frames \in [Spaces -> [Pages -> Frames \cup {NoFrame}]]
      /\ pte \in [Spaces -> [Pages -> Entry]]
  BY CowAssumption DEF IInv, TypeOK, Entry
<1>7. \A f \in Free(owners), r \in Spaces, q \in Pages : data_frames[r][q] # f
  BY <1>6, FreeUntracked
<1>8. \A p \in Pages : is_valid(pte[s][p]) =>
          /\ pte[s][p].ppn = data_frames[s][p] /\ data_frames[s][p] \in Frames
          /\ ~(pte[s][p].w /\ pte[s][p].cow)
  BY <1>2, MappedPage
<1>9. /\ data_frames' \in [Spaces -> [Pages -> Frames \cup {NoFrame}]]
      /\ pte' \in [Spaces -> [Pages -> Entry]]
  BY ForkIs
<1> HIDE DEF K, U, W
<1>10. owners' \in [Frames -> Nat] /\ RefExact(owners', data_frames')
  <2> DEFINE mid == [r \in Spaces |-> [q \in Pages |->
                       IF r = c /\ q \in U THEN data_frames[s][q] ELSE data_frames[r][q]]]
             rc == frame_add_ref(owners, s, U)
  <2>1. Retracked(data_frames, mid, c, U, data_frames[s])
    BY DEF Retracked
  <2>2. \A p \in K : mid[c][p] = NoFrame
    BY <1>2, <1>4 DEF NoData
  <2>3. Retracked(mid, data_frames', c, K, g)
    <3> SUFFICES ASSUME NEW r \in Spaces, NEW q \in Pages
                 PROVE  data_frames'[r][q] = IF r = c /\ q \in K THEN g[q] ELSE mid[r][q]
      BY DEF Retracked
    <3>1. CASE r # c
      BY <1>3, <3>1
    <3>2. CASE r = c
      <4>1. data_frames[c][q] = NoFrame
        BY <1>2 DEF NoData
      <4> QED
        BY <1>3, <3>2, <4>1
    <3> QED
      BY <3>1, <3>2
  <2> HIDE DEF mid
  <2>4. rc \in [Frames -> Nat] /\ RefExact(rc, mid) /\ Free(owners) \subseteq Free(rc)
    BY <1>2, <1>4, <1>6, <2>1, SharePages
  <2>5. IsGrant(g, K, Free(rc))
    BY <1>3, <2>4 DEF IsGrant
  <2>6. owners' = Counted(rc, g)
    BY <1>3
  <2> HIDE DEF rc
  <2> QED
    BY <1>4, <2>2, <2>3, <2>4, <2>5, <2>6, GrantPages
<1>11. ASSUME NEW p \in Pages, p \in W
       PROVE  /\ mark_cow(pte[s][p]).ppn = pte[s][p].ppn /\ mark_cow(pte[s][p]).u = pte[s][p].u
              /\ ~mark_cow(pte[s][p]).w /\ mark_cow(pte[s][p]).cow
              /\ is_valid(mark_cow(pte[s][p])) /\ is_valid(pte[s][p])
  <2>1. is_valid(pte[s][p]) /\ pte[s][p].ppn \in Frames /\ pte[s][p] \in Entry
    BY <1>4, <1>6, <1>8, <1>11
  <2>2. /\ mark_cow(pte[s][p]).ppn = pte[s][p].ppn /\ mark_cow(pte[s][p]).u = pte[s][p].u
        /\ mark_cow(pte[s][p]).w = FALSE /\ mark_cow(pte[s][p]).cow = TRUE
        /\ is_valid(mark_cow(pte[s][p]))
    BY <2>1, MarkedEntry
  <2> QED
    BY <2>1, <2>2
<1>12. ASSUME NEW p \in Pages, p \in K
       PROVE  /\ pte'[c][p].ppn = g[p] /\ pte'[c][p].u = pte[s][p].u
              /\ pte'[c][p].w = pte[s][p].w /\ pte'[c][p].cow = pte[s][p].cow
              /\ is_valid(pte'[c][p]) /\ is_valid(pte[s][p])
  <2> DEFINE d == [pte[s][p] EXCEPT !.ppn = g[p]]
  <2>1. d.ppn = g[p] /\ d.u = pte[s][p].u /\ d.w = pte[s][p].w /\ d.cow = pte[s][p].cow /\ is_valid(d)
    <3>1. pte[s][p] \in Entry /\ g[p] \in Frames
      BY <1>5, <1>6, <1>12
    <3> QED
      BY <3>1, MovedEntry, SMT
  <2>2. pte'[c][p] = d
    BY <1>3, <1>12
  <2> HIDE DEF d
  <2> QED
    BY <1>4, <1>12, <2>1, <2>2
<1>13. SpaceOK(areas[s], data_frames[s], pte'[s])
  <2> DEFINE D == data_frames[s]
             T == pte[s]
             V == pte'[s]
  <2>1. SpaceOK(areas[s], D, T)
    BY <1>2
  <2>2. D \in [Pages -> Frames \cup {NoFrame}] /\ V \in [Pages -> Entry]
    BY <1>6, <1>9
  <2>3. \A p, q \in Pages : D[p] = D[q] /\ D[p] # NoFrame => p = q
    BY <2>1 DEF SpaceOK
  <2>4. ASSUME NEW p \in Pages
        PROVE  /\ V[p].ppn = D[p]
               /\ V[p].u = T[p].u
               /\ (V[p].w \/ V[p].cow) <=> (T[p].w \/ T[p].cow)
               /\ ~(V[p].w /\ V[p].cow)
               /\ is_valid(V[p]) <=> is_valid(T[p])
    <3>1. CASE p \in W
      <4>1. V[p] = mark_cow(T[p]) /\ (T[p].w \/ T[p].cow)
        BY <1>3, <1>4, <3>1
      <4> QED
        BY <1>8, <1>11, <3>1, <4>1
    <3>2. CASE p \notin W
      <4>1. V[p] = T[p]
        BY <1>3, <3>2
      <4>2. T[p].ppn = D[p]
        BY <2>1 DEF SpaceOK
      <4>3. ~(T[p].w /\ T[p].cow)
        BY <1>8, RightsAreValid
      <4> QED
        BY <4>1, <4>2, <4>3
    <3> QED
      BY <3>1, <3>2
  <2> HIDE DEF D, T, V
  <2>5. SpaceOK(areas[s], D, V)
    BY <2>1, <2>2, <2>3, <2>4, SpaceRetracked
  <2> QED
    BY <2>5 DEF D, V
<1>14. SpaceOK(areas[s], data_frames'[c], pte'[c])
  <2> DEFINE D == data_frames[s]
             T == pte[s]
             E == data_frames'[c]
             V == pte'[c]
  <2>1. SpaceOK(areas[s], D, T)
    BY <1>2
  <2>2. E \in [Pages -> Frames \cup {NoFrame}] /\ V \in [Pages -> Entry]
    BY <1>9
  <2>3. /\ \A p, q \in Pages : D[p] = D[q] /\ D[p] # NoFrame => p = q
        /\ \A p \in Pages : (D[p] # NoFrame <=> is_valid(T[p])) /\ T[p].ppn = D[p]
    BY <2>1 DEF SpaceOK
  <2>4. ASSUME NEW p \in Pages
        PROVE  /\ p \in K => E[p] = g[p] /\ E[p] \in Free(owners) /\ E[p] # NoFrame
               /\ p \notin K => E[p] = D[p]
               /\ E[p] # NoFrame <=> D[p] # NoFrame
    <3>1. CASE p \in K
      <4>1. E[p] = g[p]
        BY <1>3, <3>1
      <4>2. D[p] # NoFrame
        BY <1>4, <2>3, <3>1
      <4> QED
        BY <1>5, <1>6, <3>1, <4>1, <4>2
    <3>2. CASE p \notin K /\ p \in U
      BY <1>3, <3>2
    <3>3. CASE p \notin K /\ p \notin U
      <4>1. E[p] = NoFrame
        BY <1>3, <3>3
      <4>2. D[p] = NoFrame
        BY <1>4, <2>3, <3>3
      <4> QED
        BY <3>3, <4>1, <4>2
    <3> QED
      BY <3>1, <3>2, <3>3
  <2>5. \A p, q \in Pages : E[p] = E[q] /\ E[p] # NoFrame => p = q
    <3> SUFFICES ASSUME NEW p \in Pages, NEW q \in Pages, E[p] = E[q], E[p] # NoFrame
                 PROVE  p = q
      OBVIOUS
    <3>1. CASE p \in K /\ q \in K
      BY <1>3, <2>4, <3>1, SMT DEF IsGrant
    <3>2. CASE p \notin K /\ q \notin K
      BY <2>3, <2>4, <3>2
    <3>3. \A x \in Free(owners) : D[p] # x /\ D[q] # x
      BY <1>7
    <3>4. CASE (p \in K /\ q \notin K) \/ (p \notin K /\ q \in K)
      BY <2>4, <3>3, <3>4
    <3> QED
      BY <3>1, <3>2, <3>4
  <2>6. ASSUME NEW p \in Pages
        PROVE  /\ V[p].ppn = E[p]
               /\ V[p].u = T[p].u
               /\ (V[p].w \/ V[p].cow) <=> (T[p].w \/ T[p].cow)
               /\ ~(V[p].w /\ V[p].cow)
               /\ is_valid(V[p]) <=> is_valid(T[p])
    <3>1. CASE p \in K
      <4>1. E[p] = g[p]
        BY <1>3, <3>1
      <4> QED
        BY <1>8, <1>12, <3>1, <4>1
    <3>2. CASE p \notin K /\ p \in W
      <4>1. V[p] = mark_cow(T[p]) /\ E[p] = D[p]
        BY <1>3, <1>4, <3>2
      <4> QED
        BY <1>4, <1>8, <1>11, <3>2, <4>1
    <3>3. CASE p \notin K /\ p \notin W
      <4>1. V[p] = T[p]
        BY <1>3, <3>3
      <4>2. ~(T[p].w /\ T[p].cow)
        BY <1>8, RightsAreValid
      <4>3. E[p] = D[p]
        BY <1>3, <1>4, <2>3, <3>3
      <4> QED
        BY <2>3, <4>1, <4>2, <4>3
    <3> QED
      BY <3>1, <3>2, <3>3
  <2> HIDE DEF D, T, E, V
  <2>7. SpaceOK(areas[s], E, V)
    <3>1. \A p \in Pages : E[p] # NoFrame <=> D[p] # NoFrame
      BY <2>4
    <3> QED
      BY <2>1, <2>2, <2>5, <2>6, <3>1, SpaceRetracked
  <2> QED
    BY <2>7 DEF E, V
<1>15. \A r \in Spaces : /\ r # c => (Alive(r)' <=> Alive(r)) /\ state'[r] = state[r]
                         /\ r = c => Alive(r)' /\ state'[r] = "live"
  BY <1>2 DEF Alive, IInv, TypeOK
<1>16. SpacesOK'
  <2> SUFFICES ASSUME NEW r \in Spaces
               PROVE  IF Alive(r)' THEN SpaceOK(areas'[r], data_frames'[r], pte'[r])
                      ELSE /\ areas'[r] = {} /\ data_frames'[r] = NoData
                           /\ pte'[r] \in [Pages -> Entry]
    BY DEF SpacesOK
  <2>1. CASE r = c
    BY <1>3, <1>14, <1>15, <2>1
  <2>2. CASE r = s
    BY <1>2, <1>3, <1>13, <1>15, <2>2
  <2>3. CASE r # s /\ r # c
    <3>1. areas'[r] = areas[r] /\ data_frames'[r] = data_frames[r] /\ pte'[r] = pte[r]
      BY <1>3, <2>3
    <3> QED
      BY <1>15, <2>3, <3>1 DEF IInv, SpacesOK
  <2> QED
    BY <2>1, <2>2, <2>3
<1>17. ASSUME NEW p \in Pages PROVE pte'[s][p].w => pte[s][p].w /\ p \in K
  <2>1. CASE p \in W
    BY <1>3, <1>11, <2>1
  <2>2. CASE p \notin W
    BY <1>3, <1>4, <2>2, RightsAreValid
  <2> QED
    BY <2>1, <2>2
<1>18. ASSUME NEW p \in Pages PROVE pte'[c][p].w => p \in K
  <2>1. CASE p \in W /\ p \notin K
    BY <1>3, <1>11, <2>1
  <2>2. CASE p \notin W
    BY <1>3, <1>4, <2>2, RightsAreValid
  <2> QED
    BY <2>1, <2>2
<1>19. Sole'
  <2> SUFFICES ASSUME NEW r \in Spaces, NEW p \in Pages, Alive(r)', pte'[r][p].w,
                      NEW t \in Spaces, NEW q \in Pages,
                      data_frames'[t][q] = data_frames'[r][p], t # r
               PROVE  FALSE
    BY DEF Sole
  <2>1. CASE r = c
    <3>1. data_frames'[r][p] \in Free(owners) /\ data_frames'[t] = data_frames[t]
      BY <1>3, <1>5, <1>18, <2>1
    <3> QED
      BY <1>7, <3>1
  <2>2. CASE r # c
    <3>1. pte[r][p].w /\ Alive(r) /\ data_frames'[r][p] = data_frames[r][p]
      BY <1>3, <1>15, <1>17, <2>2
    <3>2. data_frames[r][p] \in Frames
      BY <3>1, RightsAreValid, MappedPage
    <3>3. \A u \in Spaces, v \in Pages : data_frames[u][v] = data_frames[r][p] => u = r
      BY <3>1 DEF IInv, Sole
    <3>4. t = c
      BY <1>3, <3>1, <3>3, SMT
    <3>5. q \in U /\ data_frames[s][q] = data_frames[r][p]
      <4>1. data_frames'[c][q] = data_frames[r][p]
        BY <3>1, <3>4
      <4>2. data_frames[r][p] \notin Free(owners) /\ data_frames[r][p] # NoFrame
        BY <1>6, <1>7, <3>2
      <4>3. q \notin K
        BY <1>3, <1>5, <4>1, <4>2
      <4> QED
        BY <1>3, <4>1, <4>2, <4>3
    <3>6. r = s
      BY <3>3, <3>5
    <3>7. p \in K
      BY <1>17, <3>6
    <3>8. p = q
      BY <1>2, <1>6, <3>2, <3>5, <3>6 DEF SpaceOK
    <3> QED
      BY <1>4, <3>5, <3>7, <3>8
  <2> QED
    BY <2>1, <2>2
<1>20. BufferOK'
  <2> SUFFICES ASSUME NEW r \in Spaces, state'[r] = "reading", NEW f \in buffer'[r]
               PROVE  \E p \in Pages : pte'[r][p].ppn = f /\ pte'[r][p].w /\ pte'[r][p].u
    BY DEF BufferOK
  <2>1. r # c /\ r # s /\ state[r] = "reading"
    BY <1>2, <1>15
  <2>2. f \in buffer[r] /\ pte'[r] = pte[r]
    BY <1>2, <1>3, <2>1
  <2> QED
    BY <2>1, <2>2, SMT DEF IInv, BufferOK
<1>21. TypeOK'
  <2>1. memory' \in [Frames -> Values]
    <3>1. \A p \in K : is_valid(pte[s][p])
      BY <1>4
    <3> QED
      BY <1>2, <1>3, <1>4, <3>1, CopiesPages
  <2>2. areas' \in [Spaces -> SUBSET Area] /\ state' \in [Spaces -> {"none", "live", "reading", "zombie"}]
    BY <1>2 DEF IInv, TypeOK
  <2> QED
    BY <1>2, <1>9, <1>10, <2>1, <2>2 DEF IInv, TypeOK, Entry
<1> QED
  BY <1>10, <1>16, <1>19, <1>20, <1>21 DEF IInv

(* The first process: its program fits in the memory, which is all free. *)
LEMMA InitLoads ==
    ASSUME Init
    PROVE  \E g : /\ IsGrant(g, PagesOf(ElfAreas), Frames)
                  /\ owners = [f \in Frames |-> IF f \in Granted(g) THEN 1 ELSE 0]
                  /\ data_frames = [s \in Spaces |->
                        IF s = InitSpace
                        THEN [p \in Pages |-> IF p \in DOMAIN g THEN g[p] ELSE NoFrame]
                        ELSE NoData]
                  /\ pte = [s \in Spaces |-> IF s = InitSpace THEN map(ElfAreas, g) ELSE NoPtes]
<1> DEFINE g == frame_alloc(PagesOf(ElfAreas), Frames)
<1>1. /\ owners = [f \in Frames |-> IF f \in Granted(g) THEN 1 ELSE 0]
      /\ data_frames = [s \in Spaces |->
            IF s = InitSpace
            THEN [p \in Pages |-> IF p \in DOMAIN g THEN g[p] ELSE NoFrame] ELSE NoData]
      /\ pte = [s \in Spaces |-> IF s = InitSpace THEN map(ElfAreas, g) ELSE NoPtes]
  BY Zenon DEF Init
<1>2. IsGrant(g, PagesOf(ElfAreas), Frames)
  <2>1. PagesOf(ElfAreas) \in SUBSET Pages
    BY CowAssumption, PagesFinite
  <2>2. Enough(PagesOf(ElfAreas), Frames)
    BY CowAssumption
  <2> QED
    BY <2>1, <2>2, AllocGrants
<1> HIDE DEF g
<1> QED
  BY <1>1, <1>2

(* initproc is loaded into fresh frames. *)
LEMMA InitIInv ==
    ASSUME Init
    PROVE  IInv
<1>1. PICK g : /\ IsGrant(g, PagesOf(ElfAreas), Frames)
               /\ owners = [f \in Frames |-> IF f \in Granted(g) THEN 1 ELSE 0]
               /\ data_frames = [s \in Spaces |->
                     IF s = InitSpace
                     THEN [p \in Pages |-> IF p \in DOMAIN g THEN g[p] ELSE NoFrame]
                     ELSE NoData]
               /\ pte = [s \in Spaces |-> IF s = InitSpace THEN map(ElfAreas, g) ELSE NoPtes]
  BY InitLoads
<1>2. /\ memory = [f \in Frames |-> Zero]
      /\ state = [s \in Spaces |-> IF s = InitSpace THEN "live" ELSE "none"]
      /\ areas = [s \in Spaces |-> IF s = InitSpace THEN ElfAreas ELSE {}]
      /\ buffer = [s \in Spaces |-> {}]
  BY DEF Init
<1> DEFINE D == [p \in Pages |-> IF p \in DOMAIN g THEN g[p] ELSE NoFrame]
           T == map(ElfAreas, g)
<1>3. SpaceOK(ElfAreas, D, T)
  BY <1>1, SpaceLoaded
<1>4. /\ \A s \in Spaces : data_frames[s] = IF s = InitSpace THEN D ELSE NoData
      /\ \A s \in Spaces : pte[s] = IF s = InitSpace THEN T ELSE NoPtes
      /\ DOMAIN g = PagesOf(ElfAreas)
  BY <1>1 DEF IsGrant
<1>5. \A p \in Pages : D[p] = IF p \in PagesOf(ElfAreas) THEN g[p] ELSE NoFrame
  BY <1>4
<1>6. data_frames = [s \in Spaces |-> IF s = InitSpace THEN D ELSE NoData] /\ pte = [s \in Spaces |-> IF s = InitSpace THEN T ELSE NoPtes]
  BY <1>1
<1> HIDE DEF D, T
<1>7. owners \in [Frames -> Nat] /\ RefExact(owners, data_frames)
  <2> DEFINE rc0 == [f \in Frames |-> 0]
             df0 == [s \in Spaces |-> NoData]
  <2>1. rc0 \in [Frames -> Nat] /\ Free(rc0) = Frames
    BY DEF Free
  <2>2. RefExact(rc0, df0)
    <3> SUFFICES ASSUME NEW f \in Frames PROVE Cardinality(Holders(df0, f)) = 0
      BY DEF RefExact
    <3>1. \A x \in Spaces \X Pages : df0[x[1]][x[2]] # f
      BY CowAssumption DEF NoData
    <3>2. Holders(df0, f) = {}
      BY <3>1 DEF Holders
    <3> QED
      BY <3>2, HoldersFinite
  <2>3. Retracked(df0, data_frames, InitSpace, PagesOf(ElfAreas), g)
    BY <1>4, <1>5, CowAssumption DEF Retracked, NoData
  <2>4. \A p \in PagesOf(ElfAreas) : df0[InitSpace][p] = NoFrame
    BY CowAssumption, PagesFinite DEF NoData
  <2>5. owners = Counted(rc0, g)
    BY <1>1 DEF Counted
  <2>6. PagesOf(ElfAreas) \in SUBSET Pages /\ InitSpace \in Spaces
    BY CowAssumption, PagesFinite
  <2>7. IsGrant(g, PagesOf(ElfAreas), Free(rc0))
    BY <1>1, <2>1
  <2> HIDE DEF rc0, df0
  <2> QED
    BY <2>1, <2>2, <2>3, <2>4, <2>5, <2>6, <2>7, GrantPages
<1>8. /\ D \in [Pages -> Frames \cup {NoFrame}] /\ T \in [Pages -> Entry]
      /\ NoData \in [Pages -> Frames \cup {NoFrame}] /\ NoPtes \in [Pages -> Entry]
  BY <1>3, InvalidEntry DEF SpaceOK, NoData, NoPtes
<1>9. TypeOK
  <2>1. data_frames \in [Spaces -> [Pages -> Frames \cup {NoFrame}]] /\ pte \in [Spaces -> [Pages -> Entry]]
    BY <1>6, <1>8
  <2>2. areas \in [Spaces -> SUBSET Area]
    BY <1>2, CowAssumption
  <2>3. /\ memory \in [Frames -> Values] /\ buffer \in [Spaces -> SUBSET Frames]
        /\ state \in [Spaces -> {"none", "live", "reading", "zombie"}]
    BY <1>2, CowAssumption
  <2> QED
    BY <1>7, <2>1, <2>2, <2>3 DEF TypeOK, Entry
<1>10. \A s \in Spaces : /\ Alive(s) <=> s = InitSpace
                         /\ state[s] # "reading"
  BY <1>2 DEF Alive
<1>11. SpacesOK
  BY <1>2, <1>3, <1>4, <1>8, <1>10 DEF SpacesOK
<1>12. Sole
  <2> SUFFICES ASSUME NEW s \in Spaces, NEW p \in Pages, Alive(s), pte[s][p].w,
                      NEW r \in Spaces, NEW q \in Pages, data_frames[r][q] = data_frames[s][p]
               PROVE  r = s
    BY DEF Sole
  <2>1. s = InitSpace /\ T[p].w /\ data_frames[s][p] = D[p]
    BY <1>4, <1>10
  <2>2. is_valid(T[p])
    BY <2>1, RightsAreValid
  <2>3. D[p] # NoFrame
    BY <1>3, <2>2 DEF SpaceOK
  <2>4. r # InitSpace => data_frames[r][q] = NoFrame
    BY <1>4, SMT DEF NoData
  <2> QED
    BY <2>1, <2>3, <2>4
<1>13. BufferOK
  BY <1>10 DEF BufferOK
<1> QED
  BY <1>7, <1>9, <1>11, <1>12, <1>13 DEF IInv

(* Every step keeps the inductive invariant. *)
LEMMA StepIInv ==
    ASSUME IInv, [Next]_vars
    PROVE  IInv'
<1>1. ASSUME NEW s \in Spaces, Exec(s) PROVE IInv'
  BY <1>1, ExecKeeps
<1>2. ASSUME NEW s \in Spaces, Exit(s) PROVE IInv'
  BY <1>2, ExitKeeps
<1>3. ASSUME NEW s \in Spaces, Reap(s) PROVE IInv'
  BY <1>3, ReapKeeps
<1>4. ASSUME NEW s \in Spaces, ReadEnd(s) PROVE IInv'
  BY <1>4, ReadEndKeeps
<1>5. ASSUME NEW s \in Spaces, NEW c \in Spaces, Fork(s, c) PROVE IInv'
  BY <1>5, ForkKeeps
<1>6. ASSUME NEW s \in Spaces, NEW p \in Pages, StoreFault(s, p) PROVE IInv'
  BY <1>6, StoreFaultKeeps
<1>7. ASSUME NEW s \in Spaces, NEW p \in Pages, NEW v \in Values, Store(s, p, v) PROVE IInv'
  <2>1. /\ state[s] = "live" /\ pte[s][p].w
        /\ memory' = [memory EXCEPT ![pte[s][p].ppn] = v]
        /\ UNCHANGED <<owners, state, areas, data_frames, pte, buffer>>
    BY <1>7 DEF Store
  <2>2. pte[s][p].ppn \in Frames
    BY <2>1, RightsAreValid, MappedPage DEF Alive
  <2> QED
    BY <2>1, <2>2, WriteKeeps
<1>8. ASSUME NEW s \in Spaces, NEW lo \in Pages, NEW hi \in Pages, ReadBegin(s, lo, hi)
      PROVE  IInv'
  BY <1>8, ReadBeginKeeps
<1>9. ASSUME NEW s \in Spaces, NEW f \in Frames, NEW v \in Values, ReadFill(s, f, v) PROVE IInv'
  <2>1. /\ memory' = [memory EXCEPT ![f] = v]
        /\ UNCHANGED <<owners, state, areas, data_frames, pte, buffer>>
    BY <1>9 DEF ReadFill
  <2> QED
    BY <2>1, WriteKeeps
<1>10. ASSUME NEW s \in Spaces, NEW a \in Area, Mmap(s, a) PROVE IInv'
  BY <1>10, MmapKeeps
<1>11. ASSUME NEW s \in Spaces, NEW a \in areas[s], Munmap(s, a) PROVE IInv'
  BY <1>11, MunmapKeeps
<1>12. CASE UNCHANGED vars
  <2>1. TypeOK' /\ RefExact(owners', data_frames')
    BY <1>12 DEF vars, IInv, TypeOK
  <2>2. SpacesOK' /\ Sole' /\ BufferOK'
    BY <1>12, SMT DEF vars, IInv, SpacesOK, Sole, BufferOK, Alive
  <2> QED
    BY <2>1, <2>2 DEF IInv
<1> QED
  BY <1>1, <1>2, <1>3, <1>4, <1>5, <1>6, <1>7, <1>8, <1>9, <1>10, <1>11, <1>12 DEF Next

(* The inductive invariant implies what the run checks. *)
LEMMA IInvExact ==
    ASSUME IInv
    PROVE  PagesExact
<1>1. RefCountsExact
  BY DEF IInv, RefExact, Holders, RefCountsExact
<1>2. EntriesMatchAreas
  BY DEF IInv, SpacesOK, SpaceOK, Permits, EntriesMatchAreas
<1>3. WritableIsSole
  BY SoleCount DEF WritableIsSole
<1> QED
  BY <1>1, <1>2, <1>3 DEF PagesExact, IInv

(* MemorySet, PageTable and the frame counts stay consistent over every    *)
(* sequence of fork, exec, fault, mmap, munmap, read and exit: the counts  *)
(* are exact, entries and areas agree, and what is writable is sole.       *)
THEOREM CopyOnWriteExact == Spec => []PagesExact
<1>1. Init => IInv
  BY InitIInv
<1>2. IInv /\ [Next]_vars => IInv'
  BY StepIInv
<1>3. IInv => PagesExact
  BY IInvExact
<1> QED
  BY <1>1, <1>2, <1>3, PTL DEF Spec
-----------------------------------------------------------------------------
(***************************************************************************)
(* The refinement of PrivateMemory.                                        *)
(***************************************************************************)

(* What the processes see. *)
Contents ==
    [s \in Spaces |-> [p \in Pages |->
        IF Alive(s) /\ is_valid(pte[s][p]) THEN memory[pte[s][p].ppn] ELSE Unmapped]]

Perms == [s \in Spaces |-> [p \in Pages |-> IF Alive(s) THEN PermOf(pte[s][p]) ELSE "none"]]

(* The space sees the same as before. *)
Unseen(u) == Contents'[u] = Contents[u] /\ Perms'[u] = Perms[u]

(* A step that no process sees is a stutter. *)
LEMMA PrivateStutters ==
    ASSUME \A u \in Spaces : Unseen(u)
    PROVE  UNCHANGED Private!vars
<1>1. Contents' = [u \in Spaces |-> Contents'[u]] /\ Contents = [u \in Spaces |-> Contents[u]]
  BY DEF Contents
<1>2. Perms' = [u \in Spaces |-> Perms'[u]] /\ Perms = [u \in Spaces |-> Perms[u]]
  BY DEF Perms
<1>3. \A u \in Spaces : Contents'[u] = Contents[u] /\ Perms'[u] = Perms[u]
  BY DEF Unseen
<1>4. Contents' = Contents /\ Perms' = Perms
  <2> HIDE DEF Contents, Perms
  <2> QED
    BY <1>1, <1>2, <1>3
<1> QED
  BY <1>4 DEF Contents, Perms, Private!vars

(* A step that only s sees. *)
LEMMA OnlySees ==
    ASSUME NEW s \in Spaces, \A u \in Spaces : u # s => Unseen(u)
    PROVE  Private!OnlyChanges(s)
<1>1. \A u \in Spaces \ {s} : Contents'[u] = Contents[u] /\ Perms'[u] = Perms[u]
  BY DEF Unseen
<1> QED
  BY <1>1 DEF Contents, Perms, Private!OnlyChanges

(* A mapped page has rights of some kind; they are the same when it is     *)
(* writable and when it is copy-on-write.                                  *)
LEMMA PermNone ==
    ASSUME NEW e
    PROVE  /\ PermOf(e) = "none" <=> ~is_valid(e)
           /\ PermOf(e) \in {"none", "ro", "rw", "kernel"}
BY DEF PermOf

(* The permission of a page does not tell writable from copy-on-write. *)
LEMMA PermSame ==
    ASSUME NEW e, NEW d, is_valid(e) <=> is_valid(d), e.u = d.u,
           (e.w \/ e.cow) <=> (d.w \/ d.cow)
    PROVE  PermOf(e) = PermOf(d)
BY DEF PermOf

(* The permission of a page of the user. *)
LEMMA PermUser ==
    ASSUME NEW e, is_valid(e), e.u
    PROVE  PermOf(e) = IF e.w \/ e.cow THEN "rw" ELSE "ro"
BY DEF PermOf

(* What one page shows. *)
LEMMA ViewAt ==
    ASSUME NEW s \in Spaces
    PROVE  /\ \A p \in Pages :
                /\ Contents[s][p] = IF Alive(s) /\ is_valid(pte[s][p])
                                    THEN memory[pte[s][p].ppn] ELSE Unmapped
                /\ Perms[s][p] = IF Alive(s) THEN PermOf(pte[s][p]) ELSE "none"
                /\ Contents'[s][p] = IF Alive(s)' /\ is_valid(pte'[s][p])
                                     THEN memory'[pte'[s][p].ppn] ELSE Unmapped
                /\ Perms'[s][p] = IF Alive(s)' THEN PermOf(pte'[s][p]) ELSE "none"
           /\ Contents[s] = [p \in Pages |-> Contents[s][p]]
           /\ Contents'[s] = [p \in Pages |-> Contents'[s][p]]
           /\ Perms[s] = [p \in Pages |-> Perms[s][p]]
           /\ Perms'[s] = [p \in Pages |-> Perms'[s][p]]
BY DEF Contents, Perms, is_valid, PermOf

(* A space whose entries keep their rights, and the values behind them,    *)
(* sees no difference.                                                     *)
LEMMA SameView ==
    ASSUME NEW u \in Spaces, Alive(u)' <=> Alive(u),
           \A p \in Pages : Alive(u) =>
               /\ PermOf(pte'[u][p]) = PermOf(pte[u][p])
               /\ is_valid(pte[u][p]) => memory'[pte'[u][p].ppn] = memory[pte[u][p].ppn]
    PROVE  Unseen(u)
<1>1. ASSUME NEW p \in Pages
      PROVE  Contents'[u][p] = Contents[u][p] /\ Perms'[u][p] = Perms[u][p]
  <2>1. Alive(u) => (is_valid(pte'[u][p]) <=> is_valid(pte[u][p]))
    BY PermNone
  <2>2. /\ Contents[u][p] = IF Alive(u) /\ is_valid(pte[u][p])
                            THEN memory[pte[u][p].ppn] ELSE Unmapped
        /\ Perms[u][p] = IF Alive(u) THEN PermOf(pte[u][p]) ELSE "none"
        /\ Contents'[u][p] = IF Alive(u)' /\ is_valid(pte'[u][p])
                             THEN memory'[pte'[u][p].ppn] ELSE Unmapped
        /\ Perms'[u][p] = IF Alive(u)' THEN PermOf(pte'[u][p]) ELSE "none"
    BY ViewAt
  <2> QED
    BY <2>1, <2>2
<1>2. /\ Contents[u] = [p \in Pages |-> Contents[u][p]]
      /\ Contents'[u] = [p \in Pages |-> Contents'[u][p]]
      /\ Perms[u] = [p \in Pages |-> Perms[u][p]]
      /\ Perms'[u] = [p \in Pages |-> Perms'[u][p]]
  BY ViewAt
<1>3. Contents'[u] = Contents[u]
  BY <1>1, <1>2
<1>4. Perms'[u] = Perms[u]
  BY <1>1, <1>2
<1> QED
  BY <1>3, <1>4 DEF Unseen

(* So does one whose table is unchanged, when the frames it tracks are. *)
LEMMA OtherView ==
    ASSUME IInv, NEW u \in Spaces, Alive(u)' <=> Alive(u), pte'[u] = pte[u],
           \A q \in Pages : data_frames[u][q] \in Frames =>
               memory'[data_frames[u][q]] = memory[data_frames[u][q]]
    PROVE  Unseen(u)
<1>1. \A q \in Pages : Alive(u) /\ is_valid(pte[u][q]) =>
          pte[u][q].ppn = data_frames[u][q] /\ data_frames[u][q] \in Frames
  BY MappedPage
<1> QED
  BY <1>1, SameView, SMT

(* A process that is not there sees nothing. *)
LEMMA DeadView ==
    ASSUME NEW u \in Spaces, ~Alive(u), ~Alive(u)'
    PROVE  Unseen(u)
BY SameView

(* A fault is invisible to every process. *)
LEMMA FaultUnseen ==
    ASSUME IInv, NEW s \in Spaces, state[s] = "live",
           NEW R \in SUBSET Pages, \A p \in R : pte[s][p].cow,
           handle_cow_fault(s, R),
           \A r \in Spaces : Alive(r)' <=> Alive(r)
    PROVE  \A u \in Spaces : Unseen(u)
<1>1. PICK g : Faulted(s, R, g)
  BY FaultIs
<1> DEFINE S == Shared(s, R)
<1>2. /\ S \in SUBSET Pages /\ S \subseteq R /\ Alive(s)
      /\ IsGrant(g, S, Free(owners))
      /\ memory' = CopiedMemory(s, g)
      /\ \A r \in Spaces : r # s => pte'[r] = pte[r]
      /\ \A p \in Pages :
            pte'[s][p] = IF p \in S THEN resolved(pte[s][p], g[p])
                         ELSE IF p \in R THEN resolved(pte[s][p], pte[s][p].ppn)
                         ELSE pte[s][p]
  BY <1>1 DEF Shared, Alive, Faulted
<1>3. \A p \in R : /\ is_valid(pte[s][p]) /\ pte[s][p] \in Entry
                   /\ pte[s][p].ppn \in Frames /\ pte[s][p].cow
  BY <1>2, MappedPage, RightsAreValid
<1> HIDE DEF S
<1>4. /\ \A p \in S : memory'[g[p]] = memory[pte[s][p].ppn]
      /\ \A f \in Frames : f \notin Granted(g) => memory'[f] = memory[f]
  <2>1. \A p \in S : is_valid(pte[s][p])
    BY <1>2, <1>3
  <2>2. IsCopy(CopiedMemory(s, g), s, S, g)
    BY <1>2, <2>1, CopiesPages
  <2> QED
    BY <1>2, <2>2 DEF IsCopy
<1>5. \A r \in Spaces, q \in Pages : data_frames[r][q] \notin Granted(g)
  BY <1>2, FreeUntracked, SMT DEF Granted, IsGrant, IInv
<1>6. \A r \in Spaces, q \in Pages : data_frames[r][q] \in Frames =>
          memory'[data_frames[r][q]] = memory[data_frames[r][q]]
  BY <1>4, <1>5
<1>7. ASSUME NEW p \in Pages
      PROVE  /\ PermOf(pte'[s][p]) = PermOf(pte[s][p])
             /\ is_valid(pte[s][p]) => memory'[pte'[s][p].ppn] = memory[pte[s][p].ppn]
  <2>1. ASSUME p \in R, NEW f \in Frames, pte'[s][p] = resolved(pte[s][p], f)
        PROVE  PermOf(pte'[s][p]) = PermOf(pte[s][p]) /\ pte'[s][p].ppn = f
    <3> DEFINE d == resolved(pte[s][p], f)
    <3>1. is_valid(d) /\ d.ppn = f /\ d.u = pte[s][p].u /\ d.w = TRUE
      BY <1>3, <2>1, ResolvedEntry
    <3> HIDE DEF d
    <3>2. PermOf(d) = PermOf(pte[s][p])
      BY <1>3, <2>1, <3>1, PermSame
    <3> QED
      BY <2>1, <3>1, <3>2 DEF d
  <2>2. CASE p \in S
    <3>1. p \in R /\ g[p] \in Frames /\ pte'[s][p] = resolved(pte[s][p], g[p])
      BY <1>2, <2>2 DEF IsGrant, Free
    <3> QED
      BY <1>4, <2>1, <2>2, <3>1
  <2>3. \A q \in Pages : is_valid(pte[s][q]) => memory'[pte[s][q].ppn] = memory[pte[s][q].ppn]
    BY <1>2, <1>6, MappedPage, SMT
  <2>4. CASE p \notin S /\ p \in R
    BY <1>2, <1>3, <2>1, <2>3, <2>4
  <2>5. CASE p \notin S /\ p \notin R
    BY <1>2, <2>3, <2>5
  <2> QED
    BY <2>2, <2>4, <2>5
<1>8. Unseen(s)
  BY <1>7, SameView
<1>9. \A u \in Spaces : u # s => Unseen(u)
  BY <1>2, <1>6, OtherView
<1> QED
  BY <1>8, <1>9

(* A store to a writable page, or bytes that arrive in one, is a write of  *)
(* that page alone.                                                        *)
LEMMA WriteSeen ==
    ASSUME IInv, NEW s \in Spaces, Alive(s), NEW p \in Pages, pte[s][p].w, pte[s][p].u,
           NEW v \in Values, memory' = [memory EXCEPT ![pte[s][p].ppn] = v],
           UNCHANGED <<state, pte>>
    PROVE  Private!Next
<1>1. /\ pte[s][p].ppn = data_frames[s][p] /\ data_frames[s][p] \in Frames
      /\ memory \in [Frames -> Values] /\ is_valid(pte[s][p])
  BY RightsAreValid, MappedPage DEF IInv, TypeOK
<1>2. \A u \in Spaces : Alive(u)' <=> Alive(u)
  BY DEF Alive
<1>3. \A f \in Frames : memory'[f] = IF f = data_frames[s][p] THEN v ELSE memory[f]
  BY <1>1
<1>4. ASSUME NEW u \in Spaces, u # s PROVE Unseen(u)
  <2>1. \A q \in Pages : data_frames[u][q] # data_frames[s][p]
    BY <1>4 DEF IInv, Sole
  <2> QED
    BY <1>2, <1>3, <2>1, OtherView
<1>5. ASSUME NEW q \in Pages
      PROVE  /\ Perms'[s][q] = Perms[s][q]
             /\ Contents'[s][q] = IF q = p THEN v ELSE Contents[s][q]
  <2>1. /\ Contents[s][q] = IF Alive(s) /\ is_valid(pte[s][q])
                            THEN memory[pte[s][q].ppn] ELSE Unmapped
        /\ Perms[s][q] = IF Alive(s) THEN PermOf(pte[s][q]) ELSE "none"
        /\ Contents'[s][q] = IF Alive(s)' /\ is_valid(pte'[s][q])
                             THEN memory'[pte'[s][q].ppn] ELSE Unmapped
        /\ Perms'[s][q] = IF Alive(s)' THEN PermOf(pte'[s][q]) ELSE "none"
    BY ViewAt
  <2>2. CASE q = p
    BY <1>1, <1>2, <1>3, <2>1, <2>2
  <2>3. CASE q # p /\ is_valid(pte[s][q])
    <3>1. pte[s][q].ppn = data_frames[s][q] /\ data_frames[s][q] \in Frames
      BY <2>3, MappedPage
    <3>2. data_frames[s][q] # data_frames[s][p]
      <4>1. SpaceOK(areas[s], data_frames[s], pte[s])
        BY DEF IInv, SpacesOK
      <4> QED
        BY <2>3, <3>1, <4>1, CowAssumption DEF SpaceOK
    <3> QED
      BY <1>2, <1>3, <2>1, <2>3, <3>1, <3>2
  <2>4. CASE q # p /\ ~is_valid(pte[s][q])
    BY <1>2, <2>1, <2>4
  <2> QED
    BY <2>2, <2>3, <2>4
<1>6. /\ Contents[s] = [q \in Pages |-> Contents[s][q]]
      /\ Contents'[s] = [q \in Pages |-> Contents'[s][q]]
      /\ Perms[s] = [q \in Pages |-> Perms[s][q]]
      /\ Perms'[s] = [q \in Pages |-> Perms'[s][q]]
  BY ViewAt
<1>7. Perms'[s] = Perms[s]
  BY <1>5, <1>6
<1>8. Contents'[s] = [Contents[s] EXCEPT ![p] = v]
  BY <1>5, <1>6
<1>9. Perms[s][p] = "rw"
  <2>1. Perms[s][p] = PermOf(pte[s][p])
    BY ViewAt
  <2> QED
    BY <1>1, <2>1, PermUser
<1>10. Private!OnlyChanges(s)
  BY <1>4, OnlySees
<1>11. Private!Write(s, p)
  <2>1. Perms[s][p] = "rw" /\ Perms'[s] = Perms[s] /\ \E x \in Values : Contents'[s] = [Contents[s] EXCEPT ![p] = x]
    BY <1>7, <1>8, <1>9
  <2> QED
    BY <2>1 DEF Contents, Perms, Private!Write
<1> QED
  BY <1>10, <1>11 DEF Private!Next

(* New frames, cleared or filled, are nothing another space sees. *)
LEMMA FreshUnseen ==
    ASSUME IInv, NEW u \in Spaces, state'[u] = state[u], pte'[u] = pte[u],
           NEW G, \A q \in Pages : data_frames[u][q] \notin G,
           \A f \in Frames : f \notin G => memory'[f] = memory[f]
    PROVE  Unseen(u)
<1>1. Alive(u)' <=> Alive(u)
  BY DEF Alive
<1> QED
  BY <1>1, OtherView

(* exec loads a program. *)
LEMMA ExecSeen ==
    ASSUME IInv, NEW s \in Spaces, Exec(s)
    PROVE  Private!Next
<1>1. PICK g : Loaded(s, g)
  BY ExecLoads
<1>2. state' = state /\ state[s] = "live"
  BY DEF Exec
<1>3. /\ pte' = [pte EXCEPT ![s] = map(ElfAreas, g)]
      /\ IsGrant(g, PagesOf(ElfAreas), Frames)
      /\ memory' = Cleared(memory, g)
      /\ \A p \in PagesOf(ElfAreas) : Fresh(s, g[p])
  BY <1>1 DEF Loaded
<1>4. /\ pte'[s] = map(ElfAreas, g) /\ \A u \in Spaces : u # s => pte'[u] = pte[u]
  BY <1>3 DEF IInv, TypeOK
<1>5. \A u \in Spaces : u # s => Unseen(u)
  <2> SUFFICES ASSUME NEW u \in Spaces, u # s PROVE Unseen(u)
    OBVIOUS
  <2>1. \A q \in Pages : data_frames[u][q] \notin Granted(g)
    BY <1>3 DEF Granted, IsGrant, Fresh
  <2>2. \A f \in Frames : f \notin Granted(g) => memory'[f] = memory[f]
    BY <1>3 DEF Cleared
  <2>3. state'[u] = state[u] /\ pte'[u] = pte[u]
    BY <1>2, <1>4
  <2> QED
    BY <2>1, <2>2, <2>3, FreshUnseen
<1>6. SpaceOK(ElfAreas, [p \in Pages |-> IF p \in DOMAIN g THEN g[p] ELSE NoFrame],
              map(ElfAreas, g))
  BY <1>3, SpaceLoaded
<1>7. \A p \in Pages : is_valid(pte'[s][p]) => p \in DOMAIN g /\ pte'[s][p].ppn = g[p]
  BY <1>3, <1>4, <1>6 DEF SpaceOK, IsGrant
<1>8. \A p \in DOMAIN g : memory'[g[p]] = Zero
  BY <1>3 DEF Cleared, Granted, IsGrant
<1>9. ASSUME NEW p \in Pages
      PROVE  Contents'[s][p] = IF Perms'[s][p] = "none" THEN Unmapped ELSE Zero
  <2>1. /\ Contents'[s][p] = IF Alive(s)' /\ is_valid(pte'[s][p])
                             THEN memory'[pte'[s][p].ppn] ELSE Unmapped
        /\ Perms'[s][p] = IF Alive(s)' THEN PermOf(pte'[s][p]) ELSE "none"
    BY ViewAt
  <2>2. PermOf(pte'[s][p]) = "none" <=> ~is_valid(pte'[s][p])
    BY PermNone
  <2>3. CASE is_valid(pte'[s][p])
    BY <1>7, <1>8, <2>1, <2>2, <2>3
  <2>4. CASE ~is_valid(pte'[s][p])
    BY <2>1, <2>2, <2>4
  <2> QED
    BY <2>3, <2>4
<1>10. Contents'[s] = [p \in Pages |-> IF Perms'[s][p] = "none" THEN Unmapped ELSE Zero]
  <2>1. Contents'[s] = [p \in Pages |-> Contents'[s][p]]
    BY ViewAt
  <2> QED
    BY <1>9, <2>1
<1>11. Private!Load(s)
  BY <1>10 DEF Contents, Perms, Private!Load
<1>12. Private!OnlyChanges(s)
  BY <1>5, OnlySees
<1> QED
  BY <1>11, <1>12 DEF Private!Next

(* fork gives the child what the parent has. *)
LEMMA ForkSeen ==
    ASSUME IInv, NEW s \in Spaces, NEW c \in Spaces, Fork(s, c)
    PROVE  Private!Next
<1> DEFINE K == KernelPages(s)
           U == UserPages(s)
           W == WritePages(s)
<1>1. PICK g : Forked(s, c, g)
  BY ForkIs
<1>2. /\ s # c /\ Alive(s) /\ ~Alive(c) /\ state' = [state EXCEPT ![c] = "live"]
  BY ForkStarts
<1>3. /\ IsGrant(g, K, Free(owners))
      /\ memory' = CopiedMemory(s, g)
      /\ \A r \in Spaces : r # c /\ r # s => pte'[r] = pte[r]
      /\ \A p \in Pages :
            /\ pte'[s][p] = IF p \in W THEN mark_cow(pte[s][p]) ELSE pte[s][p]
            /\ pte'[c][p] = IF p \in K THEN [pte[s][p] EXCEPT !.ppn = g[p]]
                            ELSE IF p \in W THEN mark_cow(pte[s][p]) ELSE pte[s][p]
  BY <1>1 DEF Forked
<1>4. /\ K \in SUBSET Pages
      /\ \A p \in K : is_valid(pte[s][p])
      /\ \A p \in W : p \in Pages /\ is_valid(pte[s][p]) /\ (pte[s][p].w \/ pte[s][p].cow)
  BY DEF KernelPages, UserPages, WritePages
<1> HIDE DEF K, U, W
<1>5. /\ \A p \in K : memory'[g[p]] = memory[pte[s][p].ppn]
      /\ \A f \in Frames : f \notin Granted(g) => memory'[f] = memory[f]
  <2>1. IsCopy(CopiedMemory(s, g), s, K, g)
    BY <1>2, <1>3, <1>4, CopiesPages
  <2> QED
    BY <1>3, <2>1 DEF IsCopy
<1>6. \A r \in Spaces, q \in Pages : data_frames[r][q] \notin Granted(g)
  BY <1>3, FreeUntracked, SMT DEF Granted, IsGrant, IInv
<1>7. \A u \in Spaces : u # c => state'[u] = state[u] /\ (Alive(u)' <=> Alive(u))
  BY <1>2 DEF IInv, TypeOK, Alive
<1>8. Alive(c)'
  BY <1>2 DEF IInv, TypeOK, Alive
<1>9. \A q \in Pages : is_valid(pte[s][q]) => pte[s][q] \in Entry /\ pte[s][q].ppn \in Frames
                                              /\ memory'[pte[s][q].ppn] = memory[pte[s][q].ppn]
  BY <1>2, <1>5, <1>6, MappedPage
<1>10. ASSUME NEW p \in Pages, p \in W
       PROVE  /\ PermOf(mark_cow(pte[s][p])) = PermOf(pte[s][p])
              /\ mark_cow(pte[s][p]).ppn = pte[s][p].ppn
  <2> DEFINE d == mark_cow(pte[s][p])
  <2>1. is_valid(d) /\ d.ppn = pte[s][p].ppn /\ d.u = pte[s][p].u /\ d.cow = TRUE
    BY <1>4, <1>9, <1>10, MarkedEntry
  <2> HIDE DEF d
  <2>2. PermOf(d) = PermOf(pte[s][p])
    BY <1>4, <1>10, <2>1, PermSame
  <2> QED
    BY <2>1, <2>2 DEF d
<1>11. Unseen(s)
  <2>1. ASSUME NEW p \in Pages
        PROVE  /\ PermOf(pte'[s][p]) = PermOf(pte[s][p])
               /\ is_valid(pte[s][p]) => memory'[pte'[s][p].ppn] = memory[pte[s][p].ppn]
    <3>1. CASE p \in W
      BY <1>3, <1>9, <1>10, <3>1
    <3>2. CASE p \notin W
      BY <1>3, <1>9, <3>2
    <3> QED
      BY <3>1, <3>2
  <2>2. Alive(s)' <=> Alive(s)
    BY <1>2, <1>7
  <2> QED
    BY <2>1, <2>2, SameView
<1>12. \A u \in Spaces : u # c => Unseen(u)
  <2> SUFFICES ASSUME NEW u \in Spaces, u # c, u # s PROVE Unseen(u)
    BY <1>11
  <2>1. state'[u] = state[u] /\ pte'[u] = pte[u]
    BY <1>3, <1>7
  <2> QED
    BY <1>5, <1>6, <2>1, FreshUnseen
<1>13. ASSUME NEW p \in Pages
       PROVE  /\ PermOf(pte'[c][p]) = PermOf(pte[s][p])
              /\ is_valid(pte[s][p]) => memory'[pte'[c][p].ppn] = memory[pte[s][p].ppn]
  <2>1. CASE p \in K
    <3> DEFINE d == [pte[s][p] EXCEPT !.ppn = g[p]]
    <3>1. pte'[c][p] = d /\ is_valid(pte[s][p]) /\ pte[s][p] \in Entry /\ g[p] \in Frames
      BY <1>3, <1>4, <1>9, <2>1 DEF IsGrant, Free
    <3>2. is_valid(d) /\ d.ppn = g[p] /\ d.u = pte[s][p].u /\ d.w = pte[s][p].w /\ d.cow = pte[s][p].cow
      BY <3>1, MovedEntry, SMT
    <3> HIDE DEF d
    <3>3. PermOf(d) = PermOf(pte[s][p])
      BY <3>1, <3>2, PermSame
    <3> QED
      BY <1>5, <2>1, <3>1, <3>2, <3>3
  <2>2. CASE p \notin K /\ p \in W
    BY <1>3, <1>9, <1>10, <2>2
  <2>3. CASE p \notin K /\ p \notin W
    BY <1>3, <1>9, <2>3
  <2> QED
    BY <2>1, <2>2, <2>3
<1>14. ASSUME NEW p \in Pages
       PROVE  /\ Contents'[c][p] = Contents[s][p] /\ Perms'[c][p] = Perms[s][p]
              /\ Perms[c][p] = "none"
  <2>1. /\ Contents[s][p] = IF Alive(s) /\ is_valid(pte[s][p])
                            THEN memory[pte[s][p].ppn] ELSE Unmapped
        /\ Perms[s][p] = IF Alive(s) THEN PermOf(pte[s][p]) ELSE "none"
    BY ViewAt
  <2>2. /\ Contents'[c][p] = IF Alive(c)' /\ is_valid(pte'[c][p])
                             THEN memory'[pte'[c][p].ppn] ELSE Unmapped
        /\ Perms'[c][p] = IF Alive(c)' THEN PermOf(pte'[c][p]) ELSE "none"
        /\ Perms[c][p] = IF Alive(c) THEN PermOf(pte[c][p]) ELSE "none"
    BY ViewAt
  <2>3. is_valid(pte'[c][p]) <=> is_valid(pte[s][p])
    BY <1>13, PermNone
  <2> QED
    BY <1>2, <1>8, <1>13, <2>1, <2>2, <2>3
<1>15. Contents'[c] = Contents[s] /\ Perms'[c] = Perms[s] /\ Perms[c] = [p \in Pages |-> "none"]
  <2>1. /\ Contents[s] = [p \in Pages |-> Contents[s][p]] /\ Perms[s] = [p \in Pages |-> Perms[s][p]]
    BY ViewAt
  <2>2. /\ Contents'[c] = [p \in Pages |-> Contents'[c][p]] /\ Perms'[c] = [p \in Pages |-> Perms'[c][p]]
        /\ Perms[c] = [p \in Pages |-> Perms[c][p]]
    BY ViewAt
  <2> QED
    BY <1>14, <2>1, <2>2
<1>16. Private!Fork(s, c)
  BY <1>15 DEF Contents, Perms, Private!Fork, Private!NoPerm
<1>17. Private!OnlyChanges(c)
  BY <1>12, OnlySees
<1> QED
  BY <1>16, <1>17 DEF Private!Next

(* mmap adds pages that read as zero. *)
LEMMA MmapSeen ==
    ASSUME IInv, NEW s \in Spaces, NEW a \in Area, Mmap(s, a)
    PROVE  Private!Next
<1>1. PICK g : /\ IsGrant(g, vpn_range(a), Free(owners))
               /\ \A p \in vpn_range(a) : data_frames[s][p] = NoFrame
               /\ owners' = Counted(owners, g)
               /\ memory' = Cleared(memory, g)
               /\ data_frames' = [data_frames EXCEPT ![s] =
                     [p \in Pages |-> IF p \in DOMAIN g THEN g[p] ELSE data_frames[s][p]]]
               /\ pte' = [pte EXCEPT ![s] =
                     [p \in Pages |-> IF p \in DOMAIN g THEN map({a}, g)[p] ELSE pte[s][p]]]
               /\ \A b \in areas[s] : vpn_range(a) \cap vpn_range(b) = {}
               /\ SpaceOK(areas[s], data_frames[s], pte[s])
  BY MmapIs
<1> DEFINE P == vpn_range(a)
           m == IF a.w THEN "rw" ELSE "ro"
<1>2. state' = state /\ state[s] = "live" /\ a.u
  BY DEF Mmap
<1>3. /\ \A u \in Spaces : (Alive(u)' <=> Alive(u)) /\ state'[u] = state[u]
      /\ Alive(s) /\ Alive(s)'
  BY <1>2 DEF Alive
<1>4. /\ DOMAIN g = P /\ P \subseteq Pages /\ \A p \in P : g[p] \in Free(owners) /\ g[p] \in Frames
  BY <1>1, PagesFinite DEF IsGrant, Free
<1>5. /\ \A u \in Spaces : u # s => pte'[u] = pte[u]
      /\ \A p \in Pages : pte'[s][p] = IF p \in P THEN map({a}, g)[p] ELSE pte[s][p]
  BY <1>1, <1>4 DEF IInv, TypeOK
<1>6. /\ \A r \in Spaces, q \in Pages : data_frames[r][q] \notin Granted(g)
      /\ \A f \in Frames : f \notin Granted(g) => memory'[f] = memory[f]
      /\ \A p \in P : memory'[g[p]] = Zero
  <2>1. \A r \in Spaces, q \in Pages : data_frames[r][q] \notin Granted(g)
    BY <1>4, FreeUntracked DEF Granted, IInv
  <2> QED
    BY <1>1, <1>4, <2>1 DEF Cleared, Granted
<1>7. \A u \in Spaces : u # s => Unseen(u)
  <2> SUFFICES ASSUME NEW u \in Spaces, u # s PROVE Unseen(u)
    OBVIOUS
  <2> QED
    BY <1>3, <1>5, <1>6, FreshUnseen
<1> HIDE DEF P
<1>8. ASSUME NEW p \in Pages
      PROVE  \/ Contents'[s][p] = Contents[s][p] /\ Perms'[s][p] = Perms[s][p]
             \/ Perms[s][p] = "none" /\ Perms'[s][p] = m /\ Contents'[s][p] = Zero
  <2>1. /\ Contents[s][p] = IF Alive(s) /\ is_valid(pte[s][p])
                            THEN memory[pte[s][p].ppn] ELSE Unmapped
        /\ Perms[s][p] = IF Alive(s) THEN PermOf(pte[s][p]) ELSE "none"
        /\ Contents'[s][p] = IF Alive(s)' /\ is_valid(pte'[s][p])
                             THEN memory'[pte'[s][p].ppn] ELSE Unmapped
        /\ Perms'[s][p] = IF Alive(s)' THEN PermOf(pte'[s][p]) ELSE "none"
    BY ViewAt
  <2>2. CASE p \in P
    <3> DEFINE e == map({a}, g)[p]
    <3>1. e = [ppn |-> g[p], w |-> a.w, cow |-> FALSE, u |-> a.u]
      <4>1. Apart({a}) /\ a \in {a}
        BY DEF Apart
      <4>2. AreaAt({a}, p) = a
        BY <2>2, <4>1, AreaAtIs DEF P
      <4> QED
        BY <1>4, <2>2, <4>2 DEF map
    <3> HIDE DEF e
    <3>2. g[p] \in Frames
      BY <1>4, <2>2
    <3>3. is_valid(e) /\ e.ppn = g[p]
      BY <3>1, <3>2, FreshEntry
    <3>4. e.u = a.u /\ e.w = a.w /\ e.cow = FALSE
      BY <3>1
    <3>5. PermOf(e) = m
      BY <1>2, <3>3, <3>4, PermUser
    <3>6. PermOf(pte[s][p]) = "none"
      <4>1. data_frames[s][p] = NoFrame
        BY <1>1, <2>2 DEF P
      <4>2. ~is_valid(pte[s][p])
        BY <1>1, <4>1 DEF SpaceOK
      <4> QED
        BY <4>2, PermNone
    <3>7. pte'[s][p] = e
      BY <1>5, <2>2 DEF e
    <3>8. memory'[g[p]] = Zero
      BY <1>6, <2>2
    <3> QED
      BY <1>3, <2>1, <3>3, <3>5, <3>6, <3>7, <3>8
  <2>3. CASE p \notin P
    <3>1. pte'[s][p] = pte[s][p]
      BY <1>5, <2>3
    <3>2. is_valid(pte[s][p]) => memory'[pte[s][p].ppn] = memory[pte[s][p].ppn]
      BY <1>3, <1>6, MappedPage
    <3> QED
      BY <1>3, <2>1, <3>1, <3>2
  <2> QED
    BY <2>2, <2>3
<1>9. Private!Map(s, m)
  BY <1>8 DEF Contents, Perms, Private!Map, Private!SamePage
<1>10. Private!OnlyChanges(s)
  BY <1>7, OnlySees
<1>11. m \in {"ro", "rw"}
  OBVIOUS
<1> HIDE DEF m
<1> QED
  BY <1>9, <1>10, <1>11 DEF Private!Next

(* munmap takes user pages away. *)
LEMMA MunmapSeen ==
    ASSUME IInv, NEW s \in Spaces, NEW a \in areas[s], Munmap(s, a)
    PROVE  Private!Next
<1> DEFINE P == vpn_range(a)
<1>1. /\ state' = state /\ memory' = memory /\ state[s] = "live" /\ a.u
      /\ pte' = [pte EXCEPT ![s] = [p \in Pages |-> IF p \in P THEN Invalid ELSE pte[s][p]]]
  BY DEF Munmap
<1>2. /\ \A u \in Spaces : (Alive(u)' <=> Alive(u)) /\ state'[u] = state[u]
      /\ Alive(s) /\ Alive(s)'
  BY <1>1 DEF Alive
<1>3. /\ \A u \in Spaces : u # s => pte'[u] = pte[u]
      /\ \A p \in Pages : pte'[s][p] = IF p \in P THEN Invalid ELSE pte[s][p]
  BY <1>1 DEF IInv, TypeOK
<1>4. \A u \in Spaces : u # s => Unseen(u)
  BY <1>1, <1>2, <1>3, OtherView
<1>5. SpaceOK(areas[s], data_frames[s], pte[s])
  BY <1>2 DEF IInv, SpacesOK
<1>6. ASSUME NEW p \in Pages
      PROVE  \/ Contents'[s][p] = Contents[s][p] /\ Perms'[s][p] = Perms[s][p]
             \/ Perms[s][p] \in {"ro", "rw"} /\ Perms'[s][p] = "none" /\ Contents'[s][p] = Unmapped
  <2>1. /\ Contents[s][p] = IF Alive(s) /\ is_valid(pte[s][p])
                            THEN memory[pte[s][p].ppn] ELSE Unmapped
        /\ Perms[s][p] = IF Alive(s) THEN PermOf(pte[s][p]) ELSE "none"
        /\ Contents'[s][p] = IF Alive(s)' /\ is_valid(pte'[s][p])
                             THEN memory'[pte'[s][p].ppn] ELSE Unmapped
        /\ Perms'[s][p] = IF Alive(s)' THEN PermOf(pte'[s][p]) ELSE "none"
    BY ViewAt
  <2>2. CASE p \in P
    <3>1. AreaAt(areas[s], p) = a
      BY <1>5, <2>2, AreaAtIs DEF SpaceOK
    <3>2. p \in PagesOf(areas[s])
      BY <2>2 DEF PagesOf
    <3>3. is_valid(pte[s][p]) /\ pte[s][p].u
      BY <1>1, <1>5, <3>1, <3>2 DEF SpaceOK, Permits
    <3>4. PermOf(pte[s][p]) \in {"ro", "rw"}
      BY <3>3, PermUser
    <3>5. pte'[s][p] = Invalid /\ ~is_valid(Invalid)
      BY <1>3, <2>2, InvalidEntry
    <3>6. PermOf(Invalid) = "none"
      BY <3>5, PermNone
    <3> QED
      BY <1>2, <2>1, <3>4, <3>5, <3>6
  <2>3. CASE p \notin P
    <3>1. pte'[s][p] = pte[s][p]
      BY <1>3, <2>3
    <3> QED
      BY <1>1, <1>2, <2>1, <3>1
  <2> QED
    BY <2>2, <2>3
<1>7. Private!Unmap(s)
  BY <1>6 DEF Contents, Perms, Private!Unmap, Private!SamePage
<1>8. Private!OnlyChanges(s)
  BY <1>4, OnlySees
<1> QED
  BY <1>7, <1>8 DEF Private!Next

(* exit drops the address space. *)
LEMMA ExitSeen ==
    ASSUME IInv, NEW s \in Spaces, Exit(s)
    PROVE  Private!Next
<1>1. /\ state' = [state EXCEPT ![s] = "zombie"] /\ memory' = memory
      /\ pte' = [pte EXCEPT ![s] =
            [p \in Pages |-> IF p \in PagesOf(UserRes) THEN Invalid ELSE pte[s][p]]]
  BY DEF Exit
<1>2. /\ \A u \in Spaces : u # s => (Alive(u)' <=> Alive(u)) /\ pte'[u] = pte[u]
      /\ ~Alive(s)'
  BY <1>1 DEF Alive, IInv, TypeOK
<1>3. \A u \in Spaces : u # s => Unseen(u)
  BY <1>1, <1>2, OtherView
<1>4. \A p \in Pages : Contents'[s][p] = Unmapped /\ Perms'[s][p] = "none"
  BY <1>2, ViewAt
<1>5. Contents'[s] = [p \in Pages |-> Unmapped] /\ Perms'[s] = [p \in Pages |-> "none"]
  <2>1. Contents'[s] = [p \in Pages |-> Contents'[s][p]] /\ Perms'[s] = [p \in Pages |-> Perms'[s][p]]
    BY ViewAt
  <2> QED
    BY <1>4, <2>1
<1>6. Private!Drop(s)
  BY <1>5 DEF Contents, Perms, Private!Drop, Private!NoPages, Private!NoPerm
<1>7. Private!OnlyChanges(s)
  BY <1>3, OnlySees
<1> QED
  BY <1>6, <1>7 DEF Private!Next

(* Every step is one that processes with memory of their own could see, or *)
(* none at all.                                                            *)
LEMMA PrivateStep ==
    ASSUME IInv, [Next]_vars
    PROVE  Private!Next \/ UNCHANGED Private!vars
<1>0. ASSUME \A u \in Spaces : Unseen(u) PROVE UNCHANGED Private!vars
  BY <1>0, PrivateStutters
<1>1. ASSUME NEW s \in Spaces, Exec(s) PROVE Private!Next
  BY <1>1, ExecSeen
<1>2. ASSUME NEW s \in Spaces, Exit(s) PROVE Private!Next
  BY <1>2, ExitSeen
<1>3. ASSUME NEW s \in Spaces, Reap(s) PROVE UNCHANGED Private!vars
  <2>1. /\ state[s] = "zombie" /\ state' = [state EXCEPT ![s] = "none"] /\ memory' = memory
        /\ pte' = [pte EXCEPT ![s] = NoPtes]
    BY <1>3 DEF Reap
  <2>2. /\ \A u \in Spaces : u # s => (Alive(u)' <=> Alive(u)) /\ pte'[u] = pte[u]
        /\ ~Alive(s) /\ ~Alive(s)'
    BY <2>1 DEF Alive, IInv, TypeOK
  <2>3. Unseen(s)
    BY <2>2, DeadView
  <2>4. \A u \in Spaces : u # s => Unseen(u)
    BY <2>1, <2>2, OtherView
  <2> QED
    BY <1>0, <2>3, <2>4
<1>4. ASSUME NEW s \in Spaces, ReadEnd(s) PROVE UNCHANGED Private!vars
  <2>1. /\ state[s] = "reading" /\ state' = [state EXCEPT ![s] = "live"]
        /\ memory' = memory /\ pte' = pte
    BY <1>4 DEF ReadEnd
  <2>2. \A u \in Spaces : Alive(u)' <=> Alive(u)
    BY <2>1 DEF Alive, IInv, TypeOK
  <2>3. \A u \in Spaces : Unseen(u)
    BY <2>1, <2>2, OtherView
  <2> QED
    BY <1>0, <2>3
<1>5. ASSUME NEW s \in Spaces, NEW c \in Spaces, Fork(s, c) PROVE Private!Next
  BY <1>5, ForkSeen
<1>6. ASSUME NEW s \in Spaces, NEW p \in Pages, StoreFault(s, p) PROVE UNCHANGED Private!vars
  <2>1. /\ state[s] = "live" /\ pte[s][p].cow /\ handle_cow_fault(s, {p}) /\ state' = state
    BY <1>6 DEF StoreFault
  <2>2. /\ {p} \in SUBSET Pages /\ \A q \in {p} : pte[s][q].cow
        /\ \A r \in Spaces : Alive(r)' <=> Alive(r)
    BY <2>1 DEF Alive
  <2>3. \A u \in Spaces : Unseen(u)
    BY <2>1, <2>2, FaultUnseen
  <2> QED
    BY <1>0, <2>3
<1>7. ASSUME NEW s \in Spaces, NEW p \in Pages, NEW v \in Values, Store(s, p, v)
      PROVE  Private!Next
  <2>1. /\ state[s] = "live" /\ pte[s][p].w /\ pte[s][p].u
        /\ memory' = [memory EXCEPT ![pte[s][p].ppn] = v]
        /\ UNCHANGED <<state, pte>>
    BY <1>7 DEF Store, UserPages
  <2>2. Alive(s)
    BY <2>1 DEF Alive
  <2> QED
    BY <2>1, <2>2, WriteSeen
<1>8. ASSUME NEW s \in Spaces, NEW lo \in Pages, NEW hi \in Pages, ReadBegin(s, lo, hi)
      PROVE  UNCHANGED Private!vars
  <2> DEFINE R == {p \in Reached(s, lo, hi) : pte[s][p].cow}
  <2>1. /\ state[s] = "live" /\ handle_cow_fault(s, R)
        /\ state' = state \/ state' = [state EXCEPT ![s] = "reading"]
    BY <1>8 DEF ReadBegin
  <2>2. \A r \in Spaces : Alive(r)' <=> Alive(r)
    BY <2>1 DEF Alive, IInv, TypeOK
  <2>3. R \in SUBSET Pages /\ \A q \in R : pte[s][q].cow
    BY CowAssumption, SMT DEF Reached, Pages
  <2> HIDE DEF R
  <2>4. \A u \in Spaces : Unseen(u)
    BY <2>1, <2>2, <2>3, FaultUnseen
  <2> QED
    BY <1>0, <2>4
<1>9. ASSUME NEW s \in Spaces, NEW f \in Frames, NEW v \in Values, ReadFill(s, f, v)
      PROVE  Private!Next
  <2>1. /\ state[s] = "reading" /\ f \in buffer[s] /\ memory' = [memory EXCEPT ![f] = v]
        /\ UNCHANGED <<state, pte>>
    BY <1>9 DEF ReadFill
  <2>2. PICK p \in Pages : pte[s][p].ppn = f /\ pte[s][p].w /\ pte[s][p].u
    BY <2>1 DEF IInv, BufferOK
  <2>3. Alive(s)
    BY <2>1 DEF Alive
  <2> QED
    BY <2>1, <2>2, <2>3, WriteSeen
<1>10. ASSUME NEW s \in Spaces, NEW a \in Area, Mmap(s, a) PROVE Private!Next
  BY <1>10, MmapSeen
<1>11. ASSUME NEW s \in Spaces, NEW a \in areas[s], Munmap(s, a) PROVE Private!Next
  BY <1>11, MunmapSeen
<1>12. CASE UNCHANGED vars
  <2>1. \A u \in Spaces : Alive(u)' <=> Alive(u)
    BY <1>12 DEF vars, Alive
  <2>2. \A u \in Spaces : Unseen(u)
    BY <1>12, <2>1, SameView DEF vars
  <2> QED
    BY <1>0, <2>2
<1> QED
  BY <1>1, <1>2, <1>3, <1>4, <1>5, <1>6, <1>7, <1>8, <1>9, <1>10, <1>11, <1>12 DEF Next

(* The first process sees its program, and nobody else anything. *)
LEMMA PrivateInit ==
    ASSUME Init
    PROVE  Private!Init
<1>1. PICK g : /\ IsGrant(g, PagesOf(ElfAreas), Frames)
               /\ owners = [f \in Frames |-> IF f \in Granted(g) THEN 1 ELSE 0]
               /\ data_frames = [s \in Spaces |->
                     IF s = InitSpace
                     THEN [p \in Pages |-> IF p \in DOMAIN g THEN g[p] ELSE NoFrame]
                     ELSE NoData]
               /\ pte = [s \in Spaces |-> IF s = InitSpace THEN map(ElfAreas, g) ELSE NoPtes]
  BY InitLoads
<1>2. /\ memory = [f \in Frames |-> Zero]
      /\ state = [s \in Spaces |-> IF s = InitSpace THEN "live" ELSE "none"]
  BY DEF Init
<1>3. IInv
  BY InitIInv
<1>4. InitSpace \in Spaces /\ \A u \in Spaces : Alive(u) <=> u = InitSpace
  BY <1>2, CowAssumption DEF Alive
<1> DEFINE m == [p \in Pages |-> PermOf(pte[InitSpace][p])]
<1>5. m \in [Pages -> {"none", "ro", "rw", "kernel"}]
  BY PermNone
<1>6. ASSUME NEW u \in Spaces, NEW p \in Pages
      PROVE  /\ Perms[u][p] = IF u = InitSpace THEN m[p] ELSE "none"
             /\ Contents[u][p] = IF Perms[u][p] = "none" THEN Unmapped ELSE Zero
  <2>1. /\ Contents[u][p] = IF Alive(u) /\ is_valid(pte[u][p])
                            THEN memory[pte[u][p].ppn] ELSE Unmapped
        /\ Perms[u][p] = IF Alive(u) THEN PermOf(pte[u][p]) ELSE "none"
    BY ViewAt
  <2>2. PermOf(pte[u][p]) = "none" <=> ~is_valid(pte[u][p])
    BY PermNone
  <2>3. Alive(u) /\ is_valid(pte[u][p]) => memory[pte[u][p].ppn] = Zero
    BY <1>2, <1>3, MappedPage
  <2>4. Zero # Unmapped
    BY CowAssumption
  <2> QED
    BY <1>4, <2>1, <2>2, <2>3, <2>4
<1>7. Perms = [u \in Spaces |-> IF u = InitSpace THEN m ELSE [p \in Pages |-> "none"]]
  <2>1. ASSUME NEW u \in Spaces
        PROVE  Perms[u] = IF u = InitSpace THEN m ELSE [p \in Pages |-> "none"]
    <3>1. Perms[u] = [p \in Pages |-> Perms[u][p]] /\ m = [p \in Pages |-> m[p]]
      BY ViewAt
    <3> HIDE DEF m
    <3>2. CASE u = InitSpace
      BY <1>6, <3>1, <3>2
    <3>3. CASE u # InitSpace
      BY <1>6, <3>1, <3>3
    <3> QED
      BY <3>2, <3>3
  <2>2. Perms = [u \in Spaces |-> Perms[u]]
    BY DEF Perms
  <2> HIDE DEF m
  <2> QED
    BY <2>1, <2>2
<1>8. Contents = [u \in Spaces |-> [p \in Pages |-> IF Perms[u][p] = "none" THEN Unmapped ELSE Zero]]
  <2>1. ASSUME NEW u \in Spaces
        PROVE  Contents[u] = [p \in Pages |-> IF Perms[u][p] = "none" THEN Unmapped ELSE Zero]
    <3>1. Contents[u] = [p \in Pages |-> Contents[u][p]]
      BY ViewAt
    <3> QED
      BY <1>6, <3>1
  <2>2. Contents = [u \in Spaces |-> Contents[u]]
    BY DEF Contents
  <2> QED
    BY <2>1, <2>2
<1> HIDE DEF m
<1> QED
  BY <1>4, <1>5, <1>7, <1>8 DEF Contents, Perms, Private!Init, Private!NoPerm

(* Sharing is invisible: with copy-on-write fork, faults, copy-out by the  *)
(* kernel and reuse of frames, each process has memory of its own.         *)
THEOREM SharingIsInvisible == Spec => ImplementsPrivateMemory
<1>1. Init => IInv /\ Private!Init
  BY InitIInv, PrivateInit
<1>2. IInv /\ [Next]_vars => IInv'
  BY StepIInv
<1>3. IInv /\ [Next]_vars => [Private!Next]_(Private!vars)
  BY PrivateStep
<1> QED
  BY <1>1, <1>2, <1>3, PTL DEF Spec, ImplementsPrivateMemory, Private!Spec
-----------------------------------------------------------------------------
(* The frame allocator: EveryFrameAccounted speaks of types it does not    *)
(* state.                                                                  *)
AllocIInv == AllocTypeOK /\ EveryFrameAccounted

(* The constants of the proofs are those of the kernel: memory ends after  *)
(* it begins, and a frame may have an owner.                               *)
LEMMA AllocConstants ==
    FIRST \in Nat /\ END \in Nat /\ FIRST <= END /\ MaxRefs \in Nat \ {0} /\ MaxPages \in Nat
BY FrameAssumption, SMT

(* The places of a sequence are those of its front and the last one. *)
LEMMA LastPlace ==
    ASSUME NEW n \in Nat \ {0}
    PROVE  /\ \A i : i \in 1 .. n <=> i \in 1 .. n - 1 \/ i = n
           /\ n \notin 1 .. n - 1 /\ n \in 1 .. n
           /\ \A i \in 1 .. n - 1 : i \in 1 .. n /\ i # n
BY SMT

(* alloc from the stack of freed frames. *)
LEMMA AllocRecycledKeeps ==
    ASSUME AllocIInv, AllocRecycled
    PROVE  /\ AllocIInv'
           /\ recycled[Len(recycled)] \in PPNs
           /\ ref_counts[recycled[Len(recycled)]] = 0
<1> DEFINE n == Len(recycled)
           top == recycled[n]
<1> USE AllocConstants
<1>1. recycled \in Seq(PPNs) /\ n \in Nat \ {0} /\ top \in PPNs /\ DOMAIN recycled = 1 .. n
  BY SMT DEF AllocRecycled, AllocIInv, AllocTypeOK
<1>2. InRecycled(top) /\ ref_counts[top] = 0 /\ top < current
  <2>1. InRecycled(top)
    <3>1. n \in DOMAIN recycled
      BY <1>1, SMT
    <3> QED
      BY <3>1, SMT DEF InRecycled
  <2>2. ref_counts[top] = 0 /\ ~(top >= current)
    BY <1>1, <2>1, SMT DEF AllocIInv, EveryFrameAccounted
  <2>3. top \in Int /\ current \in Int
    BY <1>1, SMT DEF AllocIInv, AllocTypeOK, PPNs
  <2> QED
    BY <2>1, <2>2, <2>3, SMT
<1>3. /\ recycled' \in Seq(PPNs) /\ DOMAIN recycled' = 1 .. n - 1
      /\ \A i \in 1 .. n - 1 : recycled'[i] = recycled[i]
  BY <1>1, SMT DEF AllocRecycled
<1>4. ref_counts' = [ref_counts EXCEPT ![top] = 1] /\ current' = current
  BY SMT DEF AllocRecycled
<1>5. AllocTypeOK'
  BY <1>1, <1>3, <1>4, SMT DEF AllocIInv, AllocTypeOK
<1>6. \A f \in PPNs : InRecycled(f)' <=> InRecycled(f) /\ f # top
  <2>1. \A i, j \in 1 .. n : recycled[i] = recycled[j] => i = j
    BY <1>1, SMT DEF AllocIInv, EveryFrameAccounted
  <2> SUFFICES ASSUME NEW f \in PPNs
               PROVE  (\E i \in 1 .. n - 1 : recycled'[i] = f)
                         <=> (\E i \in 1 .. n : recycled[i] = f) /\ f # top
    BY <1>1, <1>3 DEF InRecycled
  <2>2. \A i \in 1 .. n - 1 : i \in 1 .. n /\ i # n /\ recycled[i] # top
    <3>1. n \in 1 .. n /\ \A i \in 1 .. n - 1 : i \in 1 .. n /\ i # n
      BY <1>1, LastPlace
    <3> QED
      BY <2>1, <3>1, SMT
  <2>3. \A i \in 1 .. n : i \in 1 .. n - 1 \/ i = n
    BY <1>1, LastPlace
  <2> QED
    BY <1>3, <2>2, <2>3
<1>7. \A i, j \in DOMAIN recycled' : recycled'[i] = recycled'[j] => i = j
  BY <1>1, <1>3, SMT DEF AllocIInv, EveryFrameAccounted
<1>8. \A f \in PPNs : ref_counts'[f] = IF f = top THEN 1 ELSE ref_counts[f]
  BY <1>1, <1>4, SMT DEF AllocIInv, AllocTypeOK
<1>9. EveryFrameAccounted'
  BY <1>1, <1>2, <1>4, <1>6, <1>7, <1>8, SMT DEF AllocIInv, EveryFrameAccounted, AllocTypeOK, PPNs
<1> QED
  BY <1>1, <1>2, <1>5, <1>9, SMT DEF AllocIInv

(* Taking never used frames, one by alloc or several by alloc_more. *)
LEMMA AllocNewKeeps ==
    ASSUME AllocIInv, NEW pages \in Nat, current + pages <= END,
           current' = current + pages, recycled' = recycled,
           ref_counts' = [f \in PPNs |-> IF f \in current .. current + pages - 1
                                           THEN 1 ELSE ref_counts[f]]
    PROVE  /\ AllocIInv'
           /\ current .. current + pages - 1 \subseteq PPNs
           /\ \A f \in current .. current + pages - 1 : ref_counts[f] = 0
<1> USE AllocConstants
<1>1. current \in FIRST .. END /\ ref_counts \in [PPNs -> 0 .. MaxRefs]
  BY SMT DEF AllocIInv, AllocTypeOK
<1>2. current .. current + pages - 1 \subseteq PPNs
  BY <1>1, SMT DEF PPNs
<1>3. \A f \in current .. current + pages - 1 : ref_counts[f] = 0 /\ ~InRecycled(f)
  BY <1>1, <1>2, SMT DEF AllocIInv, EveryFrameAccounted
<1>4. AllocTypeOK'
  BY <1>1, SMT DEF AllocIInv, AllocTypeOK
<1>5. \A f : InRecycled(f)' <=> InRecycled(f)
  BY SMT DEF InRecycled
<1>6. \A f \in PPNs : ref_counts'[f] = IF f \in current .. current + pages - 1
                                         THEN 1 ELSE ref_counts[f]
  BY SMT
<1>7. \A f \in PPNs : f >= current' <=> f >= current /\ f \notin current .. current + pages - 1
  BY <1>1, SMT DEF PPNs
<1>8. EveryFrameAccounted'
  BY <1>1, <1>2, <1>3, <1>5, <1>6, <1>7, SMT DEF AllocIInv, EveryFrameAccounted
<1> QED
  BY <1>2, <1>3, <1>4, <1>8, SMT DEF AllocIInv

(* A tracker is cloned. *)
LEMMA AddRefKeeps ==
    ASSUME AllocIInv, NEW f \in PPNs, add_ref(f)
    PROVE  AllocIInv'
<1> USE AllocConstants
<1>1. /\ ref_counts \in [PPNs -> 0 .. MaxRefs] /\ ref_counts[f] \in 1 .. MaxRefs - 1
      /\ ref_counts' = [ref_counts EXCEPT ![f] = @ + 1]
      /\ current' = current /\ recycled' = recycled
  BY SMT DEF AllocIInv, AllocTypeOK, add_ref
<1>2. AllocTypeOK'
  BY <1>1, SMT DEF AllocIInv, AllocTypeOK
<1>3. \A g : InRecycled(g)' <=> InRecycled(g)
  BY <1>1, SMT DEF InRecycled
<1>4. \A g \in PPNs : ref_counts'[g] = 0 <=> ref_counts[g] = 0
  BY <1>1, SMT
<1> QED
  BY <1>1, <1>2, <1>3, <1>4, SMT DEF AllocIInv, EveryFrameAccounted

(* A tracker is dropped: the last one on a frame puts it on the stack. *)
LEMMA DeallocKeeps ==
    ASSUME AllocIInv, NEW f \in PPNs, dealloc(f)
    PROVE  AllocIInv'
<1> DEFINE n == Len(recycled)
<1> USE AllocConstants
<1>1. /\ ref_counts \in [PPNs -> 0 .. MaxRefs] /\ ref_counts[f] \in 1 .. MaxRefs
      /\ ref_counts' = [ref_counts EXCEPT ![f] = @ - 1]
      /\ current' = current /\ current \in FIRST .. END
      /\ recycled \in Seq(PPNs) /\ n \in Nat /\ DOMAIN recycled = 1 .. n
  BY SMT DEF AllocIInv, AllocTypeOK, dealloc
<1>2. f < current /\ ~InRecycled(f)
  BY <1>1, SMT DEF AllocIInv, EveryFrameAccounted, PPNs
<1>3. \A g \in PPNs : ref_counts'[g] = IF g = f THEN ref_counts[f] - 1 ELSE ref_counts[g]
  BY <1>1, SMT
<1>4. CASE ref_counts[f] = 1
  <2>1. /\ recycled' \in Seq(PPNs) /\ DOMAIN recycled' = 1 .. n + 1
        /\ \A i \in 1 .. n : recycled'[i] = recycled[i]
        /\ recycled'[n + 1] = f
    BY <1>1, <1>4, SMT DEF dealloc
  <2>2. \A g \in PPNs : InRecycled(g)' <=> InRecycled(g) \/ g = f
    <3>1. \A i : i \in 1 .. n + 1 <=> i \in 1 .. n \/ i = n + 1
      BY <1>1, SMT
    <3> QED
      BY <1>1, <2>1, <3>1 DEF InRecycled
  <2>3. \A i, j \in DOMAIN recycled' : recycled'[i] = recycled'[j] => i = j
    <3>1. \A i, j \in 1 .. n : recycled[i] = recycled[j] => i = j
      BY <1>1 DEF AllocIInv, EveryFrameAccounted
    <3>2. \A i \in 1 .. n : recycled[i] # f
      BY <1>1, <1>2, SMT DEF InRecycled
    <3>3. \A i : i \in 1 .. n + 1 <=> i \in 1 .. n \/ i = n + 1
      BY <1>1, SMT
    <3> QED
      BY <2>1, <3>1, <3>2, <3>3, SMT
  <2>4. AllocTypeOK'
    BY <1>1, <1>3, <2>1, SMT DEF AllocIInv, AllocTypeOK
  <2> QED
    BY <1>1, <1>2, <1>3, <1>4, <2>2, <2>3, <2>4, SMT DEF AllocIInv, EveryFrameAccounted, PPNs
<1>5. CASE ref_counts[f] # 1
  <2>1. recycled' = recycled
    BY <1>5, SMT DEF dealloc
  <2>2. \A g : InRecycled(g)' <=> InRecycled(g)
    BY <2>1, SMT DEF InRecycled
  <2>3. AllocTypeOK'
    BY <1>1, <1>3, <2>1, SMT DEF AllocIInv, AllocTypeOK
  <2> QED
    BY <1>1, <1>3, <1>5, <2>1, <2>2, <2>3, SMT DEF AllocIInv, EveryFrameAccounted
<1> QED
  BY <1>4, <1>5, SMT

(* Every step of the allocator keeps the inductive invariant and is a step *)
(* of the pool.                                                            *)
LEMMA AllocNextKeeps ==
    ASSUME AllocIInv, [AllocNext]_allocVars
    PROVE  AllocIInv' /\ [Pool!Next]_ref_counts
<1> USE AllocConstants
<1>1. CASE AllocRecycled
  <2> DEFINE top == recycled[Len(recycled)]
  <2>1. AllocIInv' /\ top \in PPNs /\ ref_counts[top] = 0
    BY <1>1, AllocRecycledKeeps, SMT
  <2>2. ref_counts' = [f \in PPNs |-> IF f \in {top} THEN 1 ELSE ref_counts[f]]
    BY <1>1, <2>1 DEF AllocRecycled, AllocIInv, AllocTypeOK
  <2>3. {top} \in SUBSET PPNs /\ Pool!Take({top})
    BY <2>1, <2>2, SMT DEF Pool!Take
  <2> QED
    BY <2>1, <2>3, SMT DEF Pool!Next
<1>2. ASSUME NEW pages \in Nat, current + pages <= END,
             current' = current + pages, recycled' = recycled,
             ref_counts' = [f \in PPNs |-> IF f \in current .. current + pages - 1
                                             THEN 1 ELSE ref_counts[f]]
      PROVE  AllocIInv' /\ Pool!Next
  <2> DEFINE F == current .. current + pages - 1
  <2>1. AllocIInv' /\ F \subseteq PPNs /\ \A f \in F : ref_counts[f] = 0
    BY <1>2, AllocNewKeeps, SMT
  <2>2. F \in SUBSET PPNs /\ Pool!Take(F)
    BY <1>2, <2>1, SMT DEF Pool!Take
  <2> QED
    BY <2>1, <2>2 DEF Pool!Next
<1>3. CASE AllocCurrent
  <2>1. current \in FIRST .. END /\ current + 1 <= END
    BY <1>3, SMT DEF AllocCurrent, AllocIInv, AllocTypeOK
  <2>2. ref_counts' = [f \in PPNs |-> IF f \in current .. current + 1 - 1
                                        THEN 1 ELSE ref_counts[f]]
    <3>1. \A f \in PPNs : f \in current .. current + 1 - 1 <=> f = current
      BY <2>1, SMT DEF PPNs
    <3>2. ref_counts' = [ref_counts EXCEPT ![current] = 1] /\ ref_counts \in [PPNs -> 0 .. MaxRefs]
      BY <1>3, SMT DEF AllocCurrent, AllocIInv, AllocTypeOK
    <3> QED
      BY <3>1, <3>2
  <2> QED
    BY <1>2, <1>3, <2>1, <2>2 DEF AllocCurrent
<1>4. ASSUME NEW pages \in 1 .. MaxPages, alloc_more(pages)
      PROVE  AllocIInv' /\ Pool!Next
  <2>1. pages \in Nat /\ current \in FIRST .. END /\ current + pages <= END
    BY <1>4, SMT DEF alloc_more, AllocIInv, AllocTypeOK
  <2> QED
    BY <1>2, <1>4, <2>1, SMT DEF alloc_more
<1>5. ASSUME NEW f \in PPNs, add_ref(f) \/ dealloc(f)
      PROVE  AllocIInv' /\ Pool!Next
  <2>1. ref_counts[f] \in 0 .. MaxRefs
    BY SMT DEF AllocIInv, AllocTypeOK
  <2>2. Pool!Share(f) \/ Pool!Release(f)
    BY <1>5, <2>1, SMT DEF add_ref, dealloc, Pool!Share, Pool!Release
  <2>3. AllocIInv'
    BY <1>5, AddRefKeeps, DeallocKeeps, SMT
  <2> QED
    BY <2>2, <2>3, SMT DEF Pool!Next
<1>6. CASE UNCHANGED allocVars
  BY <1>6, SMT DEF allocVars, AllocIInv, AllocTypeOK, EveryFrameAccounted, InRecycled
<1> QED
  BY <1>1, <1>3, <1>4, <1>5, <1>6, SMT DEF AllocNext

(* At the start every frame is unused and nobody has one. *)
LEMMA AllocInitKeeps ==
    ASSUME AllocInit
    PROVE  AllocIInv /\ Pool!Init
<1> USE AllocConstants
<1>1. recycled \in Seq(PPNs) /\ DOMAIN recycled = {} /\ current = FIRST
  BY SMT DEF AllocInit
<1> QED
  BY <1>1, SMT DEF AllocInit, AllocIInv, AllocTypeOK, EveryFrameAccounted, InRecycled, PPNs, Pool!Init

(* Whatever the sequence of allocations, clones and drops, each frame is   *)
(* either never used, once on the free stack, or owned: the assertions of  *)
(* StackFrameAllocator never fail and no frame has two independent owners. *)
THEOREM FramesNeverLostOrDoubled == AllocSpec => []FramesExact
<1>1. AllocIInv /\ [AllocNext]_allocVars => AllocIInv'
  BY AllocNextKeeps, SMT
<1> QED
  BY <1>1, AllocInitKeeps, PTL DEF AllocSpec, AllocIInv, FramesExact

(* The stack of freed frames, the bump pointer and the counts implement a  *)
(* pool: an allocation hands out frames that nobody has, and a frame is    *)
(* free again when its last tracker is dropped.                            *)
THEOREM AllocatorImplementsPool == AllocSpec => ImplementsPool
<1>1. AllocInit => AllocIInv /\ Pool!Init
  BY AllocInitKeeps, SMT
<1>2. AllocIInv /\ [AllocNext]_allocVars => AllocIInv' /\ [Pool!Next]_ref_counts
  BY AllocNextKeeps, SMT
<1> QED
  BY <1>1, <1>2, PTL DEF AllocSpec, ImplementsPool, Pool!Spec
=============================================================================
