----------------------------- MODULE CowMemory -----------------------------
(***************************************************************************)
(* Address spaces with copy-on-write fork: MemorySet, MapArea and          *)
(* PageTable (os/src/mm) over frames with reference counts, and the system *)
(* calls and faults that use them.                                         *)
(*                                                                         *)
(* Which free frame an allocation returns is left to FrameAllocator; here  *)
(* it is a fixed but arbitrary one.  A page holds one value.  Frames of    *)
(* the page tables themselves are never shared and are left out.  Every    *)
(* operation holds the process's cell, so it is one step; sys_read gives   *)
(* up the processor between preparing its buffer and filling it.           *)
(* Processes have one thread (fork and exec assert it); an operation that  *)
(* runs out of frames panics and has no step.                              *)
(***************************************************************************)
EXTENDS Integers, FiniteSets

CONSTANTS Spaces, InitSpace, Frames, NoFrame, Values, Zero, Unmapped,
          LastPage,             \* pages are 0 .. LastPage
          MMAP_BASE, MMAP_END,  \* the window of mmap, in pages
          ElfAreas,             \* the areas from_elf and alloc_user_res map
          UserRes               \* of these, the user stack and the trap context

Pages == 0 .. LastPage

(* MapArea: the pages start .. end - 1, writable or not, user's or not. *)
Area == [start : Pages, end : 1 .. LastPage + 1, w : BOOLEAN, u : BOOLEAN]

vpn_range(a) == a.start .. a.end - 1

PagesOf(A) == UNION {vpn_range(a) : a \in A}

(* Frames for the pages P. *)
Enough(P, free) == Cardinality(P) <= Cardinality(free)

ASSUME CowAssumption ==
    /\ IsFiniteSet(Spaces) /\ InitSpace \in Spaces
    /\ IsFiniteSet(Frames) /\ NoFrame \notin Frames
    /\ Zero \in Values /\ Unmapped \notin Values
    /\ LastPage \in Nat /\ MMAP_BASE \in Pages /\ MMAP_END \in Pages
    /\ UserRes \subseteq ElfAreas /\ ElfAreas \subseteq Area
    /\ \A a \in ElfAreas : vpn_range(a) \cap (MMAP_BASE .. MMAP_END - 1) = {}
    /\ Enough(PagesOf(ElfAreas), Frames)     \* initproc fits in the memory
    /\ \A a, b \in ElfAreas : a # b => vpn_range(a) \cap vpn_range(b) = {}

VARIABLES owners,        \* StackFrameAllocator.ref_counts as FramePool has it,
                         \* 0 when absent
          memory,        \* what each frame holds
          state,         \* of a process: "none", "live", "reading" (blocked in
                         \* sys_read), "zombie"
          areas,         \* MemorySet.areas
          data_frames,   \* the FrameTrackers in the areas' data_frames
          pte,           \* the leaf entries of the page table
          buffer         \* the frames of the buffer of a blocked sys_read

vars == <<owners, memory, state, areas, data_frames, pte, buffer>>

Invalid == [ppn |-> NoFrame, w |-> FALSE, cow |-> FALSE, u |-> FALSE]

is_valid(e) == e # Invalid

NoData == [p \in Pages |-> NoFrame]
NoPtes == [p \in Pages |-> Invalid]

AreaAt(A, p) == CHOOSE a \in A : p \in vpn_range(a)

(***************************************************************************)
(* Frames                                                                  *)
(***************************************************************************)
Free(rc) == {f \in Frames : rc[f] = 0}

Grants(P, free) == {g \in [P -> free] : \A p, q \in P : g[p] = g[q] => p = q}

frame_alloc(P, free) == CHOOSE g \in Grants(P, free) : TRUE

Granted(g) == {g[p] : p \in DOMAIN g}

(* Slip: a recycled page is handed out as it is. *)
Cleared_Not(mem, g) == mem

(* FrameTracker::new clears a page. *)
Cleared(mem, g) == [f \in Frames |-> IF f \in Granted(g) THEN Zero ELSE mem[f]]

Counted(rc, g) == [f \in Frames |-> IF f \in Granted(g) THEN 1 ELSE rc[f]]

(* FrameTracker::clone and drop, for the trackers of s on the pages P. *)
frame_add_ref(rc, s, P) ==
    [f \in Frames |-> rc[f] + Cardinality({p \in P : data_frames[s][p] = f})]

frame_dealloc(rc, s, P) ==
    [f \in Frames |-> rc[f] - Cardinality({p \in P : data_frames[s][p] = f})]

(***************************************************************************)
(* Page table                                                              *)
(***************************************************************************)
map(A, g) == [p \in Pages |->
    IF p \in DOMAIN g
    THEN [ppn |-> g[p], w |-> AreaAt(A, p).w, cow |-> FALSE, u |-> AreaAt(A, p).u]
    ELSE Invalid]

mark_cow(e) == [e EXCEPT !.w = FALSE, !.cow = TRUE]

resolved(e, f) == [e EXCEPT !.ppn = f, !.w = TRUE, !.cow = FALSE]
-----------------------------------------------------------------------------
(* The first process, as its constructor and alloc_user_res leave it. *)
Init ==
    \E g \in {frame_alloc(PagesOf(ElfAreas), Frames)} :
       /\ owners = [f \in Frames |-> IF f \in Granted(g) THEN 1 ELSE 0]
       /\ memory = [f \in Frames |-> Zero]
       /\ state = [s \in Spaces |-> IF s = InitSpace THEN "live" ELSE "none"]
       /\ areas = [s \in Spaces |-> IF s = InitSpace THEN ElfAreas ELSE {}]
       /\ data_frames = [s \in Spaces |->
             IF s = InitSpace
             THEN [p \in Pages |-> IF p \in DOMAIN g THEN g[p] ELSE NoFrame] ELSE NoData]
       /\ pte = [s \in Spaces |-> IF s = InitSpace THEN map(ElfAreas, g) ELSE NoPtes]
       /\ buffer = [s \in Spaces |-> {}]

(* ProcessControlBlock::exec: the new sections are mapped, the old areas   *)
(* dropped, then stack and trap context are mapped.                        *)
Exec(s) ==
    LET sections == PagesOf(ElfAreas \ UserRes)
        res == PagesOf(UserRes)
    IN /\ state[s] = "live"
       /\ Enough(sections, Free(owners))
       /\ \E g1 \in {frame_alloc(sections, Free(owners))} :
          \E rc \in {frame_dealloc(Counted(owners, g1), s, Pages)} :
             /\ Enough(res, Free(rc))
             /\ \E g2 \in {frame_alloc(res, Free(rc))} :
                \E g \in {[p \in sections \cup res |-> IF p \in res THEN g2[p] ELSE g1[p]]} :
                   /\ owners' = Counted(rc, g2)
                   /\ memory' = Cleared(memory, g)
                   /\ data_frames' = [data_frames EXCEPT ![s] =
                         [p \in Pages |-> IF p \in DOMAIN g THEN g[p] ELSE NoFrame]]
                   /\ pte' = [pte EXCEPT ![s] = map(ElfAreas, g)]
       /\ areas' = [areas EXCEPT ![s] = ElfAreas]
       /\ UNCHANGED <<state, buffer>>

UserPages(s) == {p \in Pages : is_valid(pte[s][p]) /\ pte[s][p].u}
KernelPages(s) == {p \in Pages : is_valid(pte[s][p]) /\ ~pte[s][p].u}
WritePages(s) == {p \in UserPages(s) : pte[s][p].w \/ pte[s][p].cow}

MarkedParent(s) ==
    [p \in Pages |-> IF p \in WritePages(s) THEN mark_cow(pte[s][p]) ELSE pte[s][p]]

(* from_existed_user_cow: user pages are shared, the writable ones as      *)
(* copy-on-write in both spaces; kernel pages are copied.                  *)
Fork(s, c) ==
    /\ state[s] = "live" /\ state[c] = "none"
    /\ Enough(KernelPages(s), Free(owners))
    /\ \E g \in {frame_alloc(KernelPages(s), Free(owners))} :
          /\ owners' = Counted(frame_add_ref(owners, s, UserPages(s)), g)
          /\ memory' = [f \in Frames |->
                IF f \in Granted(g)
                THEN memory[pte[s][CHOOSE p \in DOMAIN g : g[p] = f].ppn] ELSE memory[f]]
          /\ data_frames' = [data_frames EXCEPT ![c] =
                [p \in Pages |-> IF p \in KernelPages(s) THEN g[p]
                                 ELSE IF p \in UserPages(s) THEN data_frames[s][p]
                                 ELSE NoFrame]]
          /\ pte' = [pte EXCEPT
                ![s] = MarkedParent(s),
                ![c] = [p \in Pages |->
                          IF p \in KernelPages(s) THEN [pte[s][p] EXCEPT !.ppn = g[p]]
                          ELSE IF p \in WritePages(s) THEN mark_cow(pte[s][p])
                          ELSE pte[s][p]]]
    /\ areas' = [areas EXCEPT ![c] = areas[s]]
    /\ state' = [state EXCEPT ![c] = "live"]
    /\ UNCHANGED buffer

(* Slip: the page is reused although another space still has it. *)
Shared_Never(s, R) == {}

(* The pages of R whose frame another space holds too. *)
Shared(s, R) == {p \in R : owners[pte[s][p].ppn] # 1}

(* handle_cow_fault on every page of R, all of them copy-on-write.  The    *)
(* pages of one space have different frames, so their order is irrelevant. *)
handle_cow_fault(s, R) ==
    /\ Enough(Shared(s, R), Free(owners))
    /\ \E g \in {frame_alloc(Shared(s, R), Free(owners))} :
          /\ owners' = Counted(frame_dealloc(owners, s, DOMAIN g), g)
          /\ memory' = [f \in Frames |->
                IF f \in Granted(g)
                THEN memory[pte[s][CHOOSE p \in DOMAIN g : g[p] = f].ppn] ELSE memory[f]]
          /\ data_frames' = [data_frames EXCEPT ![s] =
                [p \in Pages |-> IF p \in DOMAIN g THEN g[p] ELSE data_frames[s][p]]]
          /\ pte' = [pte EXCEPT ![s] = [p \in Pages |->
                IF p \in DOMAIN g THEN resolved(pte[s][p], g[p])
                ELSE IF p \in R THEN resolved(pte[s][p], pte[s][p].ppn)
                ELSE pte[s][p]]]

(* A user store where the hardware permits it, or the copy-out of          *)
(* write_sched_stats_to_user, which wants the same permission.             *)
Store(s, p, v) ==
    /\ state[s] = "live" /\ p \in UserPages(s) /\ pte[s][p].w
    /\ memory' = [memory EXCEPT ![pte[s][p].ppn] = v]
    /\ UNCHANGED <<owners, state, areas, data_frames, pte, buffer>>

(* StorePageFault on a copy-on-write page; elsewhere it is SIGSEGV. *)
StoreFault(s, p) ==
    /\ state[s] = "live" /\ p \in UserPages(s) /\ pte[s][p].cow
    /\ handle_cow_fault(s, {p})
    /\ UNCHANGED <<state, areas, buffer>>

(* The pages from lo to hi that ensure_private_range reaches before one it *)
(* refuses.                                                                *)
Reached(s, lo, hi) == {p \in lo .. hi : \A q \in lo .. p : q \in WritePages(s)}

(* sys_read: ensure_private_range over the buffer; when it fails, pages    *)
(* already made private stay so.  The call may then wait for data.         *)
ReadBegin(s, lo, hi) ==
    /\ state[s] = "live" /\ lo <= hi
    /\ handle_cow_fault(s, {p \in Reached(s, lo, hi) : pte[s][p].cow})
    /\ IF Reached(s, lo, hi) = lo .. hi
       THEN /\ state' = [state EXCEPT ![s] = "reading"]
            /\ buffer' = [buffer EXCEPT ![s] = {pte'[s][p].ppn : p \in lo .. hi}]
       ELSE UNCHANGED <<state, buffer>>
    /\ UNCHANGED areas

(* Bytes arrive through the translated buffer, page by page. *)
ReadFill(s, f, v) ==
    /\ state[s] = "reading" /\ f \in buffer[s]
    /\ memory' = [memory EXCEPT ![f] = v]
    /\ UNCHANGED <<owners, state, areas, data_frames, pte, buffer>>

ReadEnd(s) ==
    /\ state[s] = "reading"
    /\ state' = [state EXCEPT ![s] = "live"]
    /\ buffer' = [buffer EXCEPT ![s] = {}]
    /\ UNCHANGED <<owners, memory, areas, data_frames, pte>>

(* sys_list_apps writes through translated_byte_buffer at once. *)
ListApps(s, p, v) ==
    /\ state[s] = "live" /\ is_valid(pte[s][p])
    /\ memory' = [memory EXCEPT ![pte[s][p].ppn] = v]
    /\ UNCHANGED <<owners, state, areas, data_frames, pte, buffer>>

area_conflicts(s, a) == \E b \in areas[s] : a.start < b.end /\ b.start < a.end

(* A fixed address, or the first free one: some range without conflicts.   *)
(* A refused call changes nothing.                                         *)
Mmap(s, a) ==
    /\ state[s] = "live"
    /\ a.u /\ MMAP_BASE <= a.start /\ a.start < a.end /\ a.end <= MMAP_END
    /\ ~area_conflicts(s, a)
    /\ Enough(vpn_range(a), Free(owners))
    /\ \E g \in {frame_alloc(vpn_range(a), Free(owners))} :
          /\ owners' = Counted(owners, g)
          /\ memory' = Cleared(memory, g)
          /\ data_frames' = [data_frames EXCEPT ![s] =
                [p \in Pages |-> IF p \in DOMAIN g THEN g[p] ELSE data_frames[s][p]]]
          /\ pte' = [pte EXCEPT ![s] =
                [p \in Pages |-> IF p \in DOMAIN g THEN map({a}, g)[p] ELSE pte[s][p]]]
    /\ areas' = [areas EXCEPT ![s] = @ \cup {a}]
    /\ UNCHANGED <<state, buffer>>

(* The trackers and entries of the pages P go. *)
unmap(s, P) ==
    /\ owners' = frame_dealloc(owners, s, P)
    /\ data_frames' = [data_frames EXCEPT ![s] =
          [p \in Pages |-> IF p \in P THEN NoFrame ELSE data_frames[s][p]]]

Munmap(s, a) ==
    /\ state[s] = "live" /\ a \in areas[s] /\ a.u
    /\ unmap(s, vpn_range(a))
    /\ pte' = [pte EXCEPT ![s] =
          [p \in Pages |-> IF p \in vpn_range(a) THEN Invalid ELSE pte[s][p]]]
    /\ areas' = [areas EXCEPT ![s] = @ \ {a}]
    /\ UNCHANGED <<memory, state, buffer>>

(* The main thread exits: its stack and trap context are unmapped, then    *)
(* recycle_data_pages drops the areas but leaves their entries.            *)
Exit(s) ==
    /\ state[s] = "live" /\ s # InitSpace
    /\ unmap(s, Pages)
    /\ pte' = [pte EXCEPT ![s] =
          [p \in Pages |-> IF p \in PagesOf(UserRes) THEN Invalid ELSE pte[s][p]]]
    /\ areas' = [areas EXCEPT ![s] = {}]
    /\ state' = [state EXCEPT ![s] = "zombie"]
    /\ UNCHANGED <<memory, buffer>>

(* sys_waitpid drops the last reference: the page table goes. *)
Reap(s) ==
    /\ state[s] = "zombie"
    /\ state' = [state EXCEPT ![s] = "none"]
    /\ pte' = [pte EXCEPT ![s] = NoPtes]
    /\ UNCHANGED <<owners, memory, areas, data_frames, buffer>>
-----------------------------------------------------------------------------
Next == \E s \in Spaces :
    \/ Exec(s) \/ Exit(s) \/ Reap(s) \/ ReadEnd(s)
    \/ \E c \in Spaces : Fork(s, c)
    \/ \E p \in Pages : StoreFault(s, p) \/ \E v \in Values : Store(s, p, v)
    \/ \E lo, hi \in Pages : ReadBegin(s, lo, hi)
    \/ \E f \in Frames, v \in Values : ReadFill(s, f, v)
    \/ \E a \in Area : Mmap(s, a)
    \/ \E a \in areas[s] : Munmap(s, a)

Spec == Init /\ [][Next]_vars

(* With the one system call that writes without ensure_private_range. *)
ListAppsNext == Next \/ \E s \in Spaces, p \in Pages, v \in Values : ListApps(s, p, v)
-----------------------------------------------------------------------------
Alive(s) == state[s] \in {"live", "reading"}

(* Every variable has the type its field has in the code. *)
TypeOK ==
    /\ owners \in [Frames -> Nat]
    /\ memory \in [Frames -> Values]
    /\ state \in [Spaces -> {"none", "live", "reading", "zombie"}]
    /\ areas \in [Spaces -> SUBSET Area]
    /\ data_frames \in [Spaces -> [Pages -> Frames \cup {NoFrame}]]
    /\ pte \in [Spaces -> [Pages -> [ppn : Frames \cup {NoFrame}, w : BOOLEAN,
                                     cow : BOOLEAN, u : BOOLEAN]]]
    /\ buffer \in [Spaces -> SUBSET Frames]

(* The count of a frame is the number of trackers on it, across fork,      *)
(* fault, exec, munmap and exit: a frame is neither freed while a space    *)
(* still maps it nor leaked, and the panics of add_ref and dealloc are     *)
(* never reached.                                                          *)
RefCountsExact ==
    \A f \in Frames : owners[f] =
        Cardinality({x \in Spaces \X Pages : data_frames[x[1]][x[2]] = f})

(* A page a process can write without a fault is in no other space: the    *)
(* test frame_ref_count = 1 of handle_cow_fault is enough to reuse it.     *)
WritableIsSole ==
    \A s \in Spaces, p \in Pages :
        Alive(s) /\ pte[s][p].w => owners[pte[s][p].ppn] = 1

(* The page table of a running process and its areas agree: every entry    *)
(* maps the frame its area tracks, is copy-on-write only in place of       *)
(* writable, and is one or the other exactly where the area is writable.   *)
EntriesMatchAreas ==
    \A s \in Spaces : Alive(s) => \A p \in Pages :
        /\ pte[s][p].ppn = data_frames[s][p]
        /\ is_valid(pte[s][p]) <=> p \in PagesOf(areas[s])
        /\ is_valid(pte[s][p]) =>
              /\ pte[s][p].u = AreaAt(areas[s], p).u
              /\ (pte[s][p].w # pte[s][p].cow) = AreaAt(areas[s], p).w
              /\ ~(pte[s][p].w /\ pte[s][p].cow)

(* Frames, page tables and areas agree: what handle_cow_fault tests, what  *)
(* the hardware walks and what munmap and exit free are the same pages.    *)
PagesExact == TypeOK /\ RefCountsExact /\ EntriesMatchAreas /\ WritableIsSole

PermOf(e) == CASE ~is_valid(e) -> "none"
               [] is_valid(e) /\ ~e.u -> "kernel"
               [] is_valid(e) /\ e.u /\ (e.w \/ e.cow) -> "rw"
               [] OTHER -> "ro"

(* Sharing is invisible: fork, faults, copy-out by the kernel and reuse of *)
(* frames implement address spaces that share nothing.                     *)
Private == INSTANCE PrivateMemory
             WITH contents <- [s \in Spaces |-> [p \in Pages |->
                                 IF Alive(s) /\ is_valid(pte[s][p])
                                 THEN memory[pte[s][p].ppn] ELSE Unmapped]],
                  perm <- [s \in Spaces |-> [p \in Pages |->
                                 IF Alive(s) THEN PermOf(pte[s][p]) ELSE "none"]]

ImplementsPrivateMemory == Private!Spec

(* A step of one process changes no page that another one has.  (What      *)
(* virtual-memory-extensions.md says of kernel writes to user space.)      *)
KernelWritesArePrivate ==
    [][\A s \in Spaces, p \in Pages, f \in Frames :
          memory'[f] # memory[f] /\ Alive(s) /\ pte[s][p].ppn = f
          => \A r \in Spaces \ {s}, q \in Pages : ~(Alive(r) /\ pte[r][q].ppn = f)]_vars
=============================================================================
