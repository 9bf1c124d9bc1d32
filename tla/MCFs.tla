-------------------------------- MODULE MCFs --------------------------------
(***************************************************************************)
(* The file system for TLC.  A behaviour is about one of: one file that    *)
(* grows into the doubly indirect blocks; two files that share the blocks; *)
(* a file and a directory; the block cache; the directory tree under two   *)
(* processes; and tasks that wait for the disk.                            *)
(***************************************************************************)
EXTENDS BlockCache, DiskWait, TLC

CONSTANTS p1, p2, None

VARIABLES component,
          bitmap, block, inode, offset, full,
          used, node, cwd, cwd_path, removed, misused, failed

blockVars == <<bitmap, block, inode, offset, full>>
treeVars == <<used, node, cwd, cwd_path, removed, misused, failed>>

Large == INSTANCE FileBlocks WITH Files <- {100}, Dirs <- {}, Names <- {}, BLOCK_SZ <- 2,
            INODE_DIRECT_COUNT <- 1, BlockCount <- 11, Lens <- {2, 5}, MaxSize <- 14,
            panic <- full
Two == INSTANCE FileBlocks WITH Files <- {100, 200}, Dirs <- {}, Names <- {}, BLOCK_SZ <- 2,
            INODE_DIRECT_COUNT <- 1, BlockCount <- 7, Lens <- {3}, MaxSize <- 6,
            panic <- full
Entries == INSTANCE FileBlocks WITH Files <- {100}, Dirs <- {900}, Names <- {1001, 1002, 1003},
            BLOCK_SZ <- 2, INODE_DIRECT_COUNT <- 1, BlockCount <- 6, Lens <- {3}, MaxSize <- 3,
            panic <- full

Path(abs, comps) == [abs |-> abs, comps |-> comps]
UsedPaths == {Path(TRUE, c) : c \in {<<"a">>, <<"b">>, <<"a", "b">>}}
             \cup {Path(FALSE, c) : c \in {<<"..">>, <<"..", "b">>, <<"b", "">>}}

Tree == INSTANCE DirTree WITH Names <- {"a", "b"}, MaxInode <- 2, Procs <- {p1, p2},
            MaxDepth <- 2, Paths <- UsedPaths, panic <- failed

ASSUME /\ Large!FileBlocksConstants /\ Two!FileBlocksConstants /\ Entries!FileBlocksConstants
       /\ Tree!DirTreeConstants

MCInit ==
    /\ Init /\ Tree!Init /\ DiskInit
    /\ \/ component = "two" /\ Two!Init
       \/ component = "entries" /\ Entries!Init
       \/ component \in {"large", "cache", "tree", "disk"} /\ Large!Init

MCNext ==
    /\ \/ /\ \/ component = "large" /\ Large!Next
             \/ component = "two" /\ Two!Next
             \/ component = "entries" /\ Entries!Next
          /\ UNCHANGED <<vars, treeVars, diskVars>>
       \/ component = "cache" /\ Next /\ UNCHANGED <<blockVars, treeVars, diskVars>>
       \/ component = "tree" /\ Tree!Next /\ UNCHANGED <<blockVars, vars, diskVars>>
       \/ component = "disk" /\ DiskNext /\ UNCHANGED <<blockVars, vars, treeVars>>
    /\ UNCHANGED component

MCSpec == MCInit /\ [][MCNext]_<<component, blockVars, vars, treeVars, diskVars>>

Symmetry == Permutations({p1, p2})
-----------------------------------------------------------------------------
(* No block serves two purposes: the blocks of all inodes are different    *)
(* and marked in use, and clear_size lists as many as total_blocks counts; *)
(* and of regular files alone no block is lost: what is marked in use      *)
(* belongs to one of them.                                                 *)
BlocksExact ==
    /\ component = "large" => Large!FileBlocksTypeOK /\ Large!BlocksOwnedOnce /\ Large!NoBlockLost
    /\ component = "two" => Two!FileBlocksTypeOK /\ Two!BlocksOwnedOnce /\ Two!NoBlockLost
    /\ component = "entries" => Entries!FileBlocksTypeOK /\ Entries!BlocksOwnedOnce

(* Whatever the mapping of blocks, an inode is an array of words: a read   *)
(* returns what was written last at each offset, and zero where nothing    *)
(* was written, also in blocks that another file has used before.          *)
ImplementsArrays ==
    /\ component = "large" => Large!Arrays!Init
    /\ component = "two" => Two!Arrays!Init
    /\ component = "entries" => Entries!Arrays!Init
    /\ [][/\ component = "large" => [Large!Arrays!Next]_(Large!Arrays!vars)
          /\ component = "two" => [Two!Arrays!Next]_(Two!Arrays!vars)
          /\ component = "entries" => [Entries!Arrays!Next]_(Entries!Arrays!vars)]_blockVars

(* No create, unlink or rename loses a file, gives it two names, leaves an *)
(* entry behind or makes a directory its own ancestor, until a call        *)
(* misuses an inode.                                                       *)
TreeExact == component = "tree" => Tree!DirTreeTypeOK /\ Tree!TreeExact

(* While nothing is moved or removed under it, a chdir moves the working   *)
(* directory and the path that getcwd reports to the same place.           *)
CwdPathTrue == Tree!CwdPathTrue

(* The calls work on a tree of named nodes: each creates or removes one    *)
(* leaf, or moves one node, or changes nothing, until a call misuses an    *)
(* inode.                                                                  *)
ImplementsTree == Tree!ImplementsTree

(* A rename, wherever it moves the file to, does not lose it. *)
RenameKeepsInode == Tree!RenameKeepsInode
=============================================================================
