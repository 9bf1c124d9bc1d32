----------------------------- MODULE BlockCache -----------------------------
(***************************************************************************)
(* The block cache of easy-fs (easy-fs/src/block_cache.rs): a queue of at  *)
(* most BLOCK_CACHE_SIZE cached blocks in the order they were loaded.  An  *)
(* operation of the file system holds handles on the blocks it works on,   *)
(* nested as its closures are, and ends with block_cache_sync_all, which   *)
(* writes the modified blocks back one by one.  The machine may be         *)
(* switched off between any two of these steps.                            *)
(***************************************************************************)
EXTENDS Naturals, Sequences, FiniteSets, Functions

CONSTANTS
    Blocks,             \* block numbers of the device
    Written,            \* the blocks that operations store into
    Values,             \* contents of a block
    Blank,              \* contents of every block at first
    BLOCK_CACHE_SIZE,
    MaxHeld             \* handles an operation holds at a time

ASSUME BlockCacheAssumption ==
    /\ Blank \in Values /\ Written \subseteq Blocks /\ MaxHeld \in Nat \ {0}
    /\ BLOCK_CACHE_SIZE \in Nat /\ MaxHeld < BLOCK_CACHE_SIZE

VARIABLES
    disk,       \* contents of the device
    queue,      \* the cached blocks, oldest first
    cache,      \* contents of the cached blocks
    modified,   \* the cached blocks that differ from the device, or may
    held,       \* blocks whose Arc the running operation has, innermost last
    todo,       \* blocks block_cache_sync_all has still to visit
    working,    \* an operation has begun and not returned
    panic,      \* "Run out of BlockCache!"
    stored,     \* history: what was stored last in each block
    since       \* history: what each block held at or after the last return

vars == <<disk, queue, cache, modified, held, todo, working, panic, stored, since>>

Init ==
    /\ disk = [b \in Blocks |-> Blank]
    /\ queue = <<>> /\ cache = disk /\ modified = {}
    /\ held = <<>> /\ todo = <<>> /\ working = FALSE /\ panic = FALSE
    /\ stored = disk
    /\ since = [b \in Blocks |-> {Blank}]
-----------------------------------------------------------------------------
(* BlockCache::new: load the block behind the others of q. *)
Load(b, q) ==
    /\ queue' = Append(q, b)
    /\ cache' = [cache EXCEPT ![b] = disk'[b]]

(* Slip: an evicted block is dropped without being written back. *)
EvictDrops(old) ==
    /\ modified' = modified \ {old}
    /\ UNCHANGED disk

(* drain of one pair, whose BlockCache is dropped: Drop writes it back. *)
Evict(old) ==
    /\ disk' = IF old \in modified THEN [disk EXCEPT ![old] = cache[old]] ELSE disk
    /\ modified' = modified \ {old}

(* The queue without its pair i: drain(i ..= i). *)
drained(q, i) == SubSeq(q, 1, i - 1) \o SubSeq(q, i + 1, Len(q))

(* get_block_cache: the cached block, or a fresh one, for which the oldest *)
(* block that nobody holds makes room.                                     *)
get_block_cache(b) ==
    LET Evictable == {i \in DOMAIN queue : queue[i] \notin Range(held)}
        idx == CHOOSE i \in Evictable : \A j \in Evictable : i <= j
    IN  /\ todo = <<>> /\ Len(held) < MaxHeld /\ b \notin Range(held)
        /\ working' = TRUE
        /\ held' = Append(held, b)
        /\ \/ b \in Range(queue) /\ UNCHANGED <<queue, cache, modified, disk, panic>>
           \/ /\ b \notin Range(queue) /\ Len(queue) < BLOCK_CACHE_SIZE
              /\ UNCHANGED <<disk, modified, panic>>
              /\ Load(b, queue)
           \/ /\ b \notin Range(queue) /\ Len(queue) = BLOCK_CACHE_SIZE
              /\ Evictable # {}
              /\ Evict(queue[idx])
              /\ Load(b, drained(queue, idx))
              /\ UNCHANGED panic
           \/ /\ b \notin Range(queue) /\ Len(queue) = BLOCK_CACHE_SIZE
              /\ Evictable = {}
              /\ panic' = TRUE /\ UNCHANGED <<queue, cache, modified, disk>>
        /\ UNCHANGED <<todo, stored, since>>

(* Slip: the block is not marked as modified. *)
ModifyUnmarked(b, v) ==
    /\ b \in Range(held)
    /\ cache' = [cache EXCEPT ![b] = v]
    /\ stored' = [stored EXCEPT ![b] = v]
    /\ since' = [since EXCEPT ![b] = @ \cup {v}]
    /\ UNCHANGED <<disk, queue, modified, held, todo, working, panic>>

(* modify through a handle; a get_mut marks the block even if f changes    *)
(* nothing.                                                                *)
modify(b, v) ==
    /\ b \in Range(held)
    /\ modified' = modified \cup {b}
    /\ cache' = [cache EXCEPT ![b] = v]
    /\ stored' = [stored EXCEPT ![b] = v]
    /\ since' = [since EXCEPT ![b] = @ \cup {v}]
    /\ UNCHANGED <<disk, queue, held, todo, working, panic>>

(* The closure that holds the innermost handle ends. *)
Release ==
    /\ held # <<>>
    /\ held' = SubSeq(held, 1, Len(held) - 1)
    /\ UNCHANGED <<disk, queue, cache, modified, todo, working, panic, stored, since>>

(* block_cache_sync_all starts, no handle being held. *)
SyncAll ==
    /\ working /\ held = <<>> /\ todo = <<>>
    /\ queue # <<>>
    /\ todo' = queue
    /\ UNCHANGED <<disk, queue, cache, modified, held, working, panic, stored, since>>

(* sync of one block; after the last one the operation returns. *)
Sync ==
    /\ todo # <<>>
    /\ LET b == Head(todo)
       IN  /\ disk' = IF b \in modified THEN [disk EXCEPT ![b] = cache[b]] ELSE disk
           /\ modified' = modified \ {b}
    /\ todo' = Tail(todo)
    /\ working' = (Tail(todo) # <<>>)
    /\ since' = IF Tail(todo) = <<>> THEN [b \in Blocks |-> {stored[b]}] ELSE since
    /\ UNCHANGED <<queue, cache, held, panic, stored>>

(* Power off and on again: the device is all that is left. *)
Crash ==
    /\ queue' = <<>> /\ cache' = disk /\ modified' = {}
    /\ held' = <<>> /\ todo' = <<>> /\ working' = FALSE
    /\ stored' = disk
    /\ since' = [b \in Blocks |-> {disk[b]}]
    /\ UNCHANGED <<disk, panic>>

Next ==
    /\ ~panic
    /\ \/ \E b \in Blocks : get_block_cache(b)
       \/ \E b \in Written, v \in Values : modify(b, v)
       \/ Release \/ SyncAll \/ Sync \/ Crash

Spec == Init /\ [][Next]_vars
-----------------------------------------------------------------------------
(* Type invariant. *)
CacheTypeOK ==
    /\ disk \in [Blocks -> Values] /\ cache \in [Blocks -> Values]
    /\ {queue, held, todo} \subseteq Seq(Blocks) /\ modified \subseteq Blocks
    /\ Len(queue) <= BLOCK_CACHE_SIZE /\ Len(held) <= MaxHeld
    /\ {working, panic} \subseteq BOOLEAN
    /\ stored \in [Blocks -> Values] /\ since \in [Blocks -> SUBSET Values]

(* The cache cannot be told from the device: a block that is read, from    *)
(* the cache or after being loaded again, has what was stored last in it;  *)
(* no block is cached twice, a handle never outlives its block, and the    *)
(* cache never runs out of blocks to evict.                                *)
Coherent ==
    /\ \A b \in Blocks : stored[b] = IF b \in Range(queue) THEN cache[b] ELSE disk[b]
    /\ \A i, j \in DOMAIN queue : queue[i] = queue[j] => i = j
    /\ ~panic /\ modified \cup Range(held) \subseteq Range(queue)

(* The same, with the types of the cache: what the fs run checks. *)
CacheCoherent == CacheTypeOK /\ Coherent

(* An operation that has returned is on the disk, and a crash in the       *)
(* middle of one leaves each block with what it held when the last one     *)
(* returned or with something stored in it since.                          *)
Durable ==
    /\ ~working => disk = stored
    /\ \A b \in Blocks : disk[b] \in since[b]
=============================================================================
