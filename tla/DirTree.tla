------------------------------ MODULE DirTree ------------------------------
(***************************************************************************)
(* The directory tree: inodes, directory entries and parent pointers of    *)
(* easy-fs (easy-fs/src/vfs.rs), path resolution and the calls open,       *)
(* mkdir, unlink, rename and chdir over them (os/src/fs/inode.rs,          *)
(* os/src/syscall/fs.rs) by processes that each have a working directory.  *)
(*                                                                         *)
(* A path is the sequence of its components and whether it starts with a   *)
(* slash; a last component "" stands for a slash at the end.  The contents *)
(* of an inode are the directory entries in it.  Every disk access holds   *)
(* the spin lock of the block cache, so that no other file system call     *)
(* gets anywhere before this one returns: a call is one step.              *)
(***************************************************************************)
EXTENDS Naturals, Sequences, FiniteSets, SequencesExt

CONSTANTS
    Names,      \* ordinary file names
    MaxInode,   \* the inodes are 0 .. MaxInode, 0 the root directory
    None,       \* no inode
    Procs,      \* processes
    MaxDepth,   \* bound on the length of a working directory's path
    Paths       \* the paths they use: [abs : BOOLEAN, comps : sequences]

Inodes == 0 .. MaxInode
Reserved == {"", ".", ".."}

DirTreeConstants ==
    /\ MaxInode \in Nat /\ None \notin Inodes /\ Names \cap Reserved = {}
    /\ \A path \in Paths : path.abs \in BOOLEAN /\ ToSet(path.comps) \subseteq Names \cup Reserved

VARIABLES
    used,       \* inode bitmap
    node,       \* the disk inodes: type, parent_inode and entries
    cwd,        \* working_directory of a process
    cwd_path,   \* working_directory_path
    removed,    \* history: processes whose working directory was unlinked
    misused,    \* history: a call went through such a directory, or treated
                \* a file as a directory or a directory as a file
    panic       \* a kernel assertion failed

vars == <<used, node, cwd, cwd_path, removed, misused, panic>>

Fresh(type, parent) == [type |-> type, parent |-> parent, entries |-> <<>>]

Init ==
    /\ used = {0}
    /\ node = [i \in Inodes |-> Fresh(IF i = 0 THEN "dir" ELSE "file", 0)]
    /\ cwd = [p \in Procs |-> 0] /\ cwd_path = [p \in Procs |-> <<>>]
    /\ removed = {} /\ misused = FALSE /\ panic = FALSE
-----------------------------------------------------------------------------
(* find_inode_id: only directories have entries. *)
find(i, name) ==
    LET hits == {k \in DOMAIN node[i].entries : node[i].entries[k].name = name}
    IN  IF node[i].type = "dir" /\ hits # {}
          THEN node[i].entries[CHOOSE k \in hits : \A h \in hits : k <= h].inode
          ELSE None

(* One component of a path; ".." follows the parent pointer, which is the  *)
(* root's own number for the root.                                         *)
resolve_component(i, c) ==
    IF c = "." THEN i ELSE IF c = ".." THEN node[i].parent ELSE find(i, c)

(* Inode::lookup_path: all but the last component must be directories, and *)
(* the last one too if a slash follows.                                    *)
lookup_path(i, comps) ==
    LET parts == SelectSeq(comps, LAMBDA c : c # "")
        Step(at, k) ==
            IF at = None \/ (k > 1 /\ node[at].type # "dir") THEN None
            ELSE resolve_component(at, parts[k])
        walk[k \in 0 .. Len(parts)] == IF k = 0 THEN i ELSE Step(walk[k - 1], k)
        end == walk[Len(parts)]
    IN  IF end # None /\ parts # <<>> /\ Last(comps) = "" /\ node[end].type # "dir"
          THEN None ELSE end

(* split_path *)
parent_path(comps) == IF comps = <<>> THEN <<>> ELSE Front(comps)
file_name(comps) == IF comps = <<>> THEN "" ELSE Last(comps)

(* Slip: ".." is skipped like ".". *)
NormalizeKeepsDotDot(comps) == SelectSeq(comps, LAMBDA c : c \in Names)

(* normalize_path: skip "." and empty components, ".." drops the one before. *)
normalize_path(comps) ==
    LET Push(acc, c) == IF c \in {"", "."} THEN acc
                        ELSE IF c # ".." THEN Append(acc, c)
                        ELSE IF acc = <<>> THEN acc ELSE Front(acc)
        stack[k \in 0 .. Len(comps)] == IF k = 0 THEN <<>> ELSE Push(stack[k - 1], comps[k])
    IN  stack[Len(comps)]

(* resolve_root, for which a removed working directory is still an inode. *)
resolve_root(p, path) == IF path.abs THEN 0 ELSE cwd[p]
ThroughRemoved(p, path) == ~path.abs /\ p \in removed

(* The entries of a directory with one more, or without the first of name. *)
With(entries, name, i) == Append(entries, [name |-> name, inode |-> i])
remove_directory_entry(entries, name) == RemoveFirstMatch(entries, LAMBDA e : e.name = name)

(* A call that fails or changes nothing on the disk. *)
NoChange == UNCHANGED <<used, node>>
-----------------------------------------------------------------------------
(* create_as: the assertion that the parent is a directory comes first,    *)
(* and the unwrap of alloc_inode fails when all inodes are taken.          *)
create_as(parent, name, type) ==
    IF name \in Reserved THEN NoChange /\ UNCHANGED panic
    ELSE IF node[parent].type # "dir" THEN panic' = TRUE /\ NoChange
    ELSE IF find(parent, name) # None THEN NoChange /\ UNCHANGED panic
    ELSE IF used = Inodes THEN panic' = TRUE /\ NoChange
    ELSE LET i == CHOOSE k \in Inodes \ used : \A l \in Inodes \ used : k <= l
         IN  /\ used' = used \cup {i}
             /\ node' = [[node EXCEPT ![i] = Fresh(type, parent)]
                            EXCEPT ![parent].entries = With(@, name, i)]
             /\ UNCHANGED panic

(* open_file_at.  With CREATE a directory of that name is refused; without *)
(* it TRUNC clears whatever inode the path leads to.                       *)
sys_open(p, path, create, trunc) ==
    LET root == resolve_root(p, path)
        parent == lookup_path(root, parent_path(path.comps))
        found == IF create
                   THEN IF parent = None THEN None ELSE find(parent, file_name(path.comps))
                   ELSE lookup_path(root, path.comps)
        clears == found # None /\ trunc /\ (create => node[found].type # "dir")
    IN  /\ \/ create /\ parent # None /\ found = None
              /\ create_as(parent, file_name(path.comps), "file")
           \/ ~(create /\ parent # None /\ found = None)
              /\ node' = (IF clears THEN [node EXCEPT ![found].entries = <<>>] ELSE node)
              /\ UNCHANGED <<used, panic>>
        /\ misused' = (misused \/ ThroughRemoved(p, path)
                        \/ (clears /\ node[found].type = "dir"))
        /\ UNCHANGED <<cwd, cwd_path, removed>>

(* make_directory_at *)
sys_mkdir(p, path) ==
    LET parent == lookup_path(resolve_root(p, path), parent_path(path.comps))
    IN  /\ IF parent = None THEN NoChange /\ UNCHANGED panic
           ELSE create_as(parent, file_name(path.comps), "dir")
        /\ misused' = (misused \/ ThroughRemoved(p, path))
        /\ UNCHANGED <<cwd, cwd_path, removed>>

(* The inodes that the loop of rename_at meets going up from i. *)
Ancestors(i) ==
    LET up[k \in 0 .. MaxInode] == IF k = 0 THEN i ELSE node[up[k - 1]].parent
    IN  {up[k] : k \in 0 .. MaxInode}

(* Slip: a directory is removed with everything below it. *)
UnlinkTree(p, path) ==
    LET parent == lookup_path(resolve_root(p, path), parent_path(path.comps))
        name == file_name(path.comps)
        target == IF parent = None \/ name \in Reserved THEN None ELSE find(parent, name)
    IN  /\ target # None
        /\ used' = {i \in used : target \notin Ancestors(i)}
        /\ node' = [[node EXCEPT ![target].entries = <<>>]
                        EXCEPT ![parent].entries = remove_directory_entry(@, name)]
        /\ UNCHANGED <<panic, removed, misused, cwd, cwd_path>>

(* unlink_at: files, and directories that are empty.  The inode is free    *)
(* again, whoever still refers to it.                                      *)
sys_unlink(p, path) ==
    LET parent == lookup_path(resolve_root(p, path), parent_path(path.comps))
        name == file_name(path.comps)
        target == IF parent = None \/ name \in Reserved THEN None ELSE find(parent, name)
        full == node[target].type = "dir" /\ node[target].entries # <<>>
    IN  /\ IF target = None \/ full THEN NoChange /\ UNCHANGED <<panic, removed>>
           ELSE IF target \notin used THEN panic' = TRUE /\ NoChange /\ UNCHANGED removed
           ELSE /\ used' = used \ {target}
                /\ node' = [[node EXCEPT ![target].entries = <<>>]
                                EXCEPT ![parent].entries = remove_directory_entry(@, name)]
                /\ removed' = removed \cup {q \in Procs : cwd[q] = target}
                /\ UNCHANGED panic
        /\ misused' = (misused \/ ThroughRemoved(p, path))
        /\ UNCHANGED <<cwd, cwd_path>>

(* Inode::rename within a directory: the new entry is appended, the old    *)
(* one removed.                                                            *)
rename(dir, old_name, new_name) ==
    LET i == find(dir, old_name)
    IN  IF {old_name, new_name} \cap Reserved # {} \/ i = None \/ find(dir, new_name) # None
          THEN UNCHANGED node
          ELSE node' = [node EXCEPT ![dir].entries =
                            remove_directory_entry(With(@, new_name, i), old_name)]

(* Slip: the cycle check starts above the new parent. *)
MoveIntoItself(old_parent, old_name, new_parent, new_name) ==
    LET source == find(old_parent, old_name)
        is_dir == node[source].type = "dir"
    IN  IF source = None
           \/ (is_dir /\ source \in Ancestors(node[new_parent].parent))
           \/ new_name \in Reserved \/ find(new_parent, new_name) # None
          THEN UNCHANGED node
          ELSE node' = [[[node EXCEPT ![new_parent].entries = With(@, new_name, source)]
                            EXCEPT ![source].parent = IF is_dir THEN new_parent ELSE @]
                            EXCEPT ![old_parent].entries = remove_directory_entry(@, old_name)]

(* The rest of rename_at, between two directories: refuse to move a        *)
(* directory below itself, link (which does not look at the type of the    *)
(* new parent), set_parent_inode of a directory, detach.                   *)
move(old_parent, old_name, new_parent, new_name) ==
    LET source == find(old_parent, old_name)
        is_dir == node[source].type = "dir"
    IN  IF source = None
           \/ (is_dir /\ source \in Ancestors(new_parent))
           \/ new_name \in Reserved \/ find(new_parent, new_name) # None
          THEN UNCHANGED node
          ELSE node' = [[[node EXCEPT ![new_parent].entries = With(@, new_name, source)]
                            EXCEPT ![source].parent = IF is_dir THEN new_parent ELSE @]
                            EXCEPT ![old_parent].entries = remove_directory_entry(@, old_name)]

(* rename_at; a slash at the end of the new path keeps the old name. *)
sys_rename(p, old, new) ==
    LET old_parent == lookup_path(resolve_root(p, old), parent_path(old.comps))
        new_parent == lookup_path(resolve_root(p, new), parent_path(new.comps))
        old_name == file_name(old.comps)
        new_name == IF file_name(new.comps) = "" THEN old_name ELSE file_name(new.comps)
    IN  /\ IF "" \in {old_name, new_name} \/ None \in {old_parent, new_parent}
             THEN UNCHANGED node
             ELSE IF old_parent = new_parent THEN rename(old_parent, old_name, new_name)
             ELSE move(old_parent, old_name, new_parent, new_name)
        /\ misused' = (misused \/ ThroughRemoved(p, old) \/ ThroughRemoved(p, new)
                        \/ (node' # node /\ node[new_parent].type # "dir"))
        /\ UNCHANGED <<used, cwd, cwd_path, removed, panic>>

(* sys_chdir: the inode follows the parent pointers, the path the text. *)
sys_chdir(p, path) ==
    LET dir == lookup_path(resolve_root(p, path), path.comps)
        new_path == IF path.abs THEN path.comps
                    ELSE IF path.comps = <<"..">>
                    THEN IF cwd_path[p] = <<>> THEN <<>> ELSE Front(cwd_path[p])
                    ELSE cwd_path[p] \o path.comps
    IN  /\ dir # None /\ node[dir].type = "dir"
        /\ cwd' = [cwd EXCEPT ![p] = dir]
        /\ Len(normalize_path(new_path)) <= MaxDepth
        /\ cwd_path' = [cwd_path EXCEPT ![p] = normalize_path(new_path)]
        /\ misused' = (misused \/ ThroughRemoved(p, path))
        /\ removed' = removed \ {p}
        /\ UNCHANGED <<used, node, panic>>

(* fork: the child starts where its parent is. *)
Fork(p, child) ==
    /\ cwd' = [cwd EXCEPT ![child] = cwd[p]]
    /\ cwd_path' = [cwd_path EXCEPT ![child] = cwd_path[p]]
    /\ removed' = IF p \in removed THEN removed \cup {child} ELSE removed \ {child}
    /\ UNCHANGED <<used, node, misused, panic>>

Next ==
    /\ ~panic /\ ~misused
    /\ \E p \in Procs :
          \/ \E path \in Paths :
                \/ \E create, trunc \in BOOLEAN : sys_open(p, path, create, trunc)
                \/ sys_mkdir(p, path) \/ sys_unlink(p, path) \/ sys_chdir(p, path)
                \/ \E new \in Paths : sys_rename(p, path, new)
          \/ \E child \in Procs \ {p} : Fork(p, child)

Spec == Init /\ [][Next]_vars
-----------------------------------------------------------------------------
(* Type invariant. *)
DirTreeTypeOK ==
    /\ 0 \in used /\ used \subseteq Inodes
    /\ \A i \in Inodes : /\ node[i].type \in {"file", "dir"} /\ node[i].parent \in Inodes
                         /\ \A e \in ToSet(node[i].entries) : e \in [name : Names, inode : Inodes]
    /\ cwd \in [Procs -> Inodes] /\ \A p \in Procs : ToSet(cwd_path[p]) \subseteq Names
    /\ removed \subseteq Procs /\ misused \in BOOLEAN /\ panic \in BOOLEAN

(* Where the entries say an inode is: its directory and its name there. *)
Places(i) == {<<d, k>> \in used \X (1 .. Cardinality(Names)) :
                  /\ node[d].type = "dir" /\ k \in DOMAIN node[d].entries
                  /\ node[d].entries[k].inode = i}

(* No create, unlink or rename loses a file, gives it two names, leaves an *)
(* entry behind or makes a directory its own ancestor: the entries are a   *)
(* tree of exactly the inodes in use, names in a directory differ, and the *)
(* parent pointer that ".." follows leads to the directory with the entry. *)
(* This holds until a call misuses an inode (misused).                     *)
TreeExact ==
    ~misused =>
        /\ \A d \in used : node[d].type = "dir" =>
              /\ \A e \in ToSet(node[d].entries) : e.inode \in used \ {0}
              /\ \A j, k \in DOMAIN node[d].entries :
                    node[d].entries[j].name = node[d].entries[k].name => j = k
        /\ \A i \in used \ {0} :
              /\ Cardinality(Places(i)) = 1
              /\ node[i].type = "dir" =>
                    /\ \A pl \in Places(i) : pl[1] = node[i].parent
                    /\ 0 \in Ancestors(i)

(* While nothing is moved or removed under it, the path that getcwd        *)
(* reports leads to the working directory: a chdir, in whatever mixture of *)
(* names, "." and "..", moves the inode and the text to the same place.    *)
Named(p) == lookup_path(0, cwd_path[p]) = cwd[p]
CwdPathTrue ==
    [][(cwd' = cwd /\ cwd_path' = cwd_path) \/
       \A p \in Procs : /\ <<cwd[p], cwd_path[p]>>' # <<cwd[p], cwd_path[p]>>
                        /\ ~misused' /\ \A q \in Procs : Named(q)
                        => Named(p)']_vars

(* Every inode in use can be reached by a path from the root. *)
NoFileLost ==
    \A i \in used \ {0} :
        \E d \in used : \E e \in ToSet(node[d].entries) : node[d].type = "dir" /\ e.inode = i

(* A rename, wherever it moves the file to, does not lose it ("keep inode  *)
(* and data intact", inode.rs).                                            *)
RenameKeepsInode ==
    [][node' = node \/ \A p \in Procs, old, new \in Paths :
           sys_rename(p, old, new) /\ NoFileLost => NoFileLost']_vars

(* Seen from outside the calls work on a tree of named nodes: each creates *)
(* or removes one leaf, or moves one node, or changes nothing.  This holds *)
(* until a call misuses an inode.                                          *)
tree == {[node |-> e.inode, kind |-> node[e.inode].type, parent |-> d, name |-> e.name] :
            <<d, e>> \in UNION {{d} \X ToSet(node[d].entries) :
                                   d \in {i \in used : node[i].type = "dir"}}}
Abs == INSTANCE NameTree WITH Nodes <- Inodes \ {0}, Root <- 0
ImplementsTree == Abs!Init /\ [][node' = node \/ misused' \/ Abs!Next]_tree
=============================================================================
