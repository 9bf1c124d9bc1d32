----------------------------- MODULE FileBlocks -----------------------------
(***************************************************************************)
(* Where easy-fs keeps the contents of files and directories: the bitmap   *)
(* of data blocks, the disk inode with its direct, indirect and doubly     *)
(* indirect block numbers, and reading, writing, growing, truncating and   *)
(* removing on top of them (easy-fs/src/layout.rs, bitmap.rs, vfs.rs), as  *)
(* the open files of the kernel use them (os/src/fs/inode.rs).             *)
(*                                                                         *)
(* Sizes and offsets count 4-byte words, so that a block of contents and   *)
(* an indirect block (one u32 a slot) have the same shape, and a directory *)
(* entry is one word.  The file system lock makes every operation one      *)
(* step.  Block numbers start at 1: block 0 holds the superblock.          *)
(***************************************************************************)
EXTENDS Integers, Sequences, FiniteSets, SequencesExt, FiniteSetsExt

CONSTANTS
    Files,              \* regular files, one OSInode open on each
    Dirs,               \* directories
    Names,              \* what a directory entry may say (files, directories
                        \* and names are numbers far enough apart that
                        \* words, names and block numbers all differ)
    BLOCK_SZ,           \* words of a block
    INODE_DIRECT_COUNT,
    BlockCount,         \* blocks of the data area
    Lens,               \* lengths of the writes that are tried
    MaxSize             \* bound on the size of a file

DataBlocks == 1 .. BlockCount
Slots == 0 .. BLOCK_SZ - 1
INODE_INDIRECT1_COUNT == BLOCK_SZ
INDIRECT1_BOUND == INODE_DIRECT_COUNT + INODE_INDIRECT1_COUNT
INDIRECT2_BOUND == INDIRECT1_BOUND + INODE_INDIRECT1_COUNT * INODE_INDIRECT1_COUNT

FileBlocksConstants ==
    /\ BLOCK_SZ \in Nat \ {0} /\ INODE_DIRECT_COUNT \in Nat \ {0}
    /\ BlockCount \in Nat \ {0} /\ Lens \subseteq Nat \ {0}
    /\ MaxSize \in Nat /\ MaxSize <= BLOCK_SZ * INDIRECT2_BOUND
    /\ Files \cap Dirs = {}
    /\ \A f \in Files : f + MaxSize \notin Names /\ f > BlockCount
    /\ \A n \in Names : n > BlockCount

VARIABLES
    bitmap,     \* blocks marked as in use
    block,      \* contents of the data area
    inode,      \* the disk inodes
    offset,     \* offset of the OSInode of a file
    panic       \* alloc_data found no free block

vars == <<bitmap, block, inode, offset, panic>>

(* What a program stores at an offset: a word it would recognise. *)
Word(f, o) == f + o
Words == {Word(f, o) : f \in Files, o \in 0 .. MaxSize}

EmptyInode == [size |-> 0, direct |-> [k \in 0 .. INODE_DIRECT_COUNT - 1 |-> 0],
               indirect1 |-> 0, indirect2 |-> 0]
ZeroBlock == [k \in Slots |-> 0]

Init ==
    /\ bitmap = {}
    /\ block = [b \in DataBlocks |-> ZeroBlock]
    /\ inode = [f \in Files \cup Dirs |-> EmptyInode]
    /\ offset = [f \in Files |-> 0]
    /\ panic = FALSE
-----------------------------------------------------------------------------
_data_blocks(size) == (size + BLOCK_SZ - 1) \div BLOCK_SZ

(* Blocks that a file of this size occupies, indirect ones included. *)
total_blocks(size) ==
    LET n == _data_blocks(size)
    IN  n + (IF n > INODE_DIRECT_COUNT THEN 1 ELSE 0)
          + (IF n > INDIRECT1_BOUND
               THEN 1 + (n - INDIRECT1_BOUND + INODE_INDIRECT1_COUNT - 1)
                            \div INODE_INDIRECT1_COUNT
               ELSE 0)

(* The number of the block that holds the k-th block of contents. *)
get_block_id(ino, blk, k) ==
    IF k < INODE_DIRECT_COUNT THEN ino.direct[k]
    ELSE IF k < INDIRECT1_BOUND THEN blk[ino.indirect1][k - INODE_DIRECT_COUNT]
    ELSE LET last == k - INDIRECT1_BOUND
         IN  blk[blk[ino.indirect2][last \div INODE_INDIRECT1_COUNT]]
                [last % INODE_INDIRECT1_COUNT]

(* Slip: the free list starts at the last block that is in use. *)
AllocOverlaps(n) ==
    SubSeq(SelectSeq([b \in DataBlocks |-> b],
                     LAMBDA b : b \notin bitmap \/ \A c \in bitmap : c <= b), 1, n)

(* The n lowest free blocks, in the order alloc_data hands them out. *)
alloc_data(n) == SubSeq(SelectSeq([b \in DataBlocks |-> b], LAMBDA b : b \notin bitmap), 1, n)

(* One turn of the loops of increase_size: block k of the contents, and    *)
(* before it the indirect blocks that it is the first to need.             *)
AddBlock(acc, k) ==
    LET last == k - INDIRECT1_BOUND
        a == last \div INODE_INDIRECT1_COUNT
        b == last % INODE_INDIRECT1_COUNT
        v == acc.v
    IN  IF k < INODE_DIRECT_COUNT
        THEN [acc EXCEPT !.ino.direct[k] = v[1], !.v = Tail(v)]
        ELSE IF k < INDIRECT1_BOUND
        THEN LET first == k = INODE_DIRECT_COUNT
                 ind == IF first THEN v[1] ELSE acc.ino.indirect1
                 rest == IF first THEN Tail(v) ELSE v
             IN  [acc EXCEPT !.ino.indirect1 = ind,
                             !.blk[ind][k - INODE_DIRECT_COUNT] = rest[1],
                             !.v = Tail(rest)]
        ELSE LET ind2 == IF last = 0 THEN v[1] ELSE acc.ino.indirect2
                 rest == IF last = 0 THEN Tail(v) ELSE v
                 sub == IF b = 0 THEN rest[1] ELSE acc.blk[ind2][a]
                 end == IF b = 0 THEN Tail(rest) ELSE rest
             IN  [acc EXCEPT !.ino.indirect2 = ind2, !.blk[ind2][a] = sub,
                             !.blk[sub][b] = end[1], !.v = Tail(end)]

increase_size(ino, new_size, v) ==
    LET cur == _data_blocks(ino.size)
    IN  FoldLeft(AddBlock, [ino |-> [ino EXCEPT !.size = new_size], blk |-> block, v |-> v],
                 [k \in 1 .. _data_blocks(new_size) - cur |-> cur + k - 1])

(* The blocks of an inode, in the order clear_size lists them. *)
clear_size(ino) ==
    LET n == _data_blocks(ino.size)
        Ids(from, to) == [k \in 1 .. to - from |-> get_block_id(ino, block, from + k - 1)]
        SubBlocks == (n - INDIRECT1_BOUND + INODE_INDIRECT1_COUNT - 1)
                        \div INODE_INDIRECT1_COUNT
        Group(a) == LET from == INDIRECT1_BOUND + a * INODE_INDIRECT1_COUNT
                    IN  <<block[ino.indirect2][a]>>
                            \o Ids(from, Min({n, from + INODE_INDIRECT1_COUNT}))
    IN  Ids(0, Min({n, INODE_DIRECT_COUNT}))
        \o (IF n > INODE_DIRECT_COUNT
              THEN <<ino.indirect1>> \o Ids(INODE_DIRECT_COUNT, Min({n, INDIRECT1_BOUND}))
              ELSE <<>>)
        \o (IF n > INDIRECT1_BOUND
              THEN <<ino.indirect2>>
                   \o FlattenSeq([a \in 1 .. SubBlocks |-> Group(a - 1)])
              ELSE <<>>)

(* Slip: freed blocks keep what they held. *)
DeallocKeeps(v, blk) == blk

(* dealloc_data of each of these blocks: cleared, then marked free. *)
dealloc_data(v, blk) == [b \in DataBlocks |-> IF b \in ToSet(v) THEN ZeroBlock ELSE blk[b]]

(* DiskInode::read_at of len words, past the end none. *)
read_at(f, start, len) ==
    LET ino == inode[f]
        end == Min({start + len, ino.size})
    IN  [k \in 1 .. Max({end - start, 0}) |->
            block[get_block_id(ino, block, (start + k - 1) \div BLOCK_SZ)]
                 [(start + k - 1) % BLOCK_SZ]]

(* DiskInode::write_at of the words w, the inode being large enough. *)
write_at(ino, blk, start, w) ==
    LET Store(acc, k) ==
            LET o == start + k - 1
            IN  [acc EXCEPT ![get_block_id(ino, acc, o \div BLOCK_SZ)][o % BLOCK_SZ] = w[k]]
    IN  FoldLeft(Store, blk, [k \in DOMAIN w |-> k])

(* Inode::write_at and the part of create_as that appends an entry: grow,  *)
(* then store.  The unwrap of alloc_data panics when no block is free.     *)
Store(f, start, w) ==
    LET ino == inode[f]
        new_size == Max({ino.size, start + Len(w)})
        needed == total_blocks(new_size) - total_blocks(ino.size)
        v == alloc_data(needed)
        grown == increase_size(ino, new_size, v)
    IN  IF needed > Cardinality(DataBlocks \ bitmap)
          THEN panic' = TRUE /\ UNCHANGED <<bitmap, block, inode>>
          ELSE /\ bitmap' = bitmap \cup ToSet(v)
               /\ inode' = [inode EXCEPT ![f] = grown.ino]
               /\ block' = write_at(grown.ino, grown.blk, start, w)
               /\ UNCHANGED panic

(* Inode::clear: size and block numbers to zero, every block given back.   *)
clear(f) ==
    LET v == clear_size(inode[f])
    IN  /\ inode' = [inode EXCEPT ![f] = EmptyInode]
        /\ block' = dealloc_data(v, block)
        /\ bitmap' = bitmap \ ToSet(v)
-----------------------------------------------------------------------------
(* OSInode::new for another open: at the end with APPEND, else at 0. *)
Open(f, append) ==
    /\ offset' = [offset EXCEPT ![f] = IF append THEN inode[f].size ELSE 0]
    /\ UNCHANGED <<bitmap, block, inode, panic>>

(* Somebody else opens the file with TRUNC; the offset here stays. *)
Truncate(f) ==
    /\ clear(f)
    /\ UNCHANGED <<offset, panic>>

(* File::write of an OSInode. *)
Write(f, len) ==
    /\ offset[f] + len <= MaxSize
    /\ Store(f, offset[f], [k \in 1 .. len |-> Word(f, offset[f] + k - 1)])
    /\ offset' = [offset EXCEPT ![f] = IF panic' THEN @ ELSE @ + len]

(* File::read of an OSInode. *)
Read(f, len) ==
    /\ offset' = [offset EXCEPT ![f] = @ + Len(read_at(f, offset[f], len))]
    /\ UNCHANGED <<bitmap, block, inode, panic>>

(* Append an entry to a directory: create_as and link. *)
AddEntry(d, name) ==
    /\ inode[d].size < MaxSize
    /\ name \notin ToSet(read_at(d, 0, inode[d].size))
    /\ Store(d, inode[d].size, <<name>>)
    /\ UNCHANGED offset

(* remove_directory_entry: shift the entries behind, clear the last one    *)
(* and lower the size.  No block is given back.                            *)
RemoveEntry(d, name) ==
    LET entries == read_at(d, 0, inode[d].size)
    IN  /\ name \in ToSet(entries)
        /\ block' = write_at(inode[d], block, 0, Append(Remove(entries, name), 0))
        /\ inode' = [inode EXCEPT ![d].size = @ - 1]
        /\ UNCHANGED <<bitmap, offset, panic>>

(* unlink of an empty directory, whose inode is used for a new one later.  *)
RemoveDir(d) ==
    /\ inode[d].size = 0
    /\ clear(d)
    /\ UNCHANGED <<offset, panic>>

Next ==
    /\ ~panic
    /\ \/ \E f \in Files : \/ \E append \in BOOLEAN : Open(f, append)
                           \/ Truncate(f)
                           \/ \E len \in Lens : Write(f, len) \/ Read(f, len)
       \/ \E d \in Dirs : \/ \E name \in Names : AddEntry(d, name) \/ RemoveEntry(d, name)
                          \/ RemoveDir(d)

Spec == Init /\ [][Next]_vars
-----------------------------------------------------------------------------
(* Type invariant: block numbers in inodes are data blocks or 0. *)
FileBlocksTypeOK ==
    /\ bitmap \subseteq DataBlocks
    /\ DOMAIN block = DataBlocks
    /\ \A b \in DataBlocks : block[b] \in [Slots -> {0} \cup Words \cup Names \cup DataBlocks]
    /\ inode \in [Files \cup Dirs ->
            [size : 0 .. MaxSize, direct : [0 .. INODE_DIRECT_COUNT - 1 -> {0} \cup DataBlocks],
             indirect1 : {0} \cup DataBlocks, indirect2 : {0} \cup DataBlocks]]
    /\ offset \in [Files -> 0 .. MaxSize]

(* No block serves two purposes: the blocks that clear_size would free for *)
(* the inodes are all different and marked in use, so that the assertion   *)
(* in Bitmap::dealloc cannot fail, and clear_size lists as many as         *)
(* total_blocks counts, which clear and unlink assert.                     *)
BlocksOwnedOnce ==
    \A f \in Files \cup Dirs :
        LET v == clear_size(inode[f])
        IN  /\ Len(v) = total_blocks(inode[f].size)
            /\ Cardinality(ToSet(v)) = Len(v)
            /\ ToSet(v) \subseteq bitmap
            /\ \A g \in (Files \cup Dirs) \ {f} : ToSet(v) \cap ToSet(clear_size(inode[g])) = {}

(* A block that is marked in use belongs to some inode: what unlink and    *)
(* clear give up can be used again ("deallocate the target inode and its   *)
(* data blocks", vfs.rs).                                                  *)
NoBlockLost ==
    bitmap = UNION {ToSet(clear_size(inode[f])) : f \in Files \cup Dirs}

(* Whatever the mapping of blocks, an inode is an array of words: a read   *)
(* returns what was written last at each offset, and zero where nothing    *)
(* was written, also in blocks that another file has used before.          *)
contents == [f \in Files \cup Dirs |-> read_at(f, 0, inode[f].size)]
Arrays == INSTANCE WordArrays
ImplementsArrays == Arrays!Spec
=============================================================================
