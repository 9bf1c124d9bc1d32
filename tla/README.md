# A TLA+ verification of the rCore kernel in this repository

The system is a small single-hart RISC-V kernel written in Rust (`os/`), its
on-disk file system (`easy-fs/`), and user programs (`user/`). This directory
holds TLA+ models of it, TLC configurations that check them on small instances,
and TLAPS proofs of the most important invariants for every instance.
`PROJECT.json` lists the components, the runs, a mutated definition for each
property, the source lines each definition models, the hazards of the code and
the theorems.

## Parts of the system and how they interact

One hart runs the idle loop `run_tasks`, which fetches a task and switches to it.
A task runs user code until a trap: a system call, an exception or an interrupt.
In user mode every interrupt is taken; in a system call interrupts are enabled
(`sstatus.SIE`) but never switch tasks; data shared with interrupt handlers is in
a `UPIntrFreeCell`, which masks interrupts while it is borrowed. So kernel code
interleaves with other tasks only where it gives up the processor (suspend,
block, stop, exit), and with interrupts wherever no cell is borrowed. These are
the atomic steps of the models.

| Part | Source | Modules |
|---|---|---|
| ready queues and aging | `task/scheduler/priority.rs` | `ReadyQueues`, `RefreshAging` |
| scheduler, task manager, idle loop, traps that schedule | `task/`, `trap/mod.rs` | `Scheduler`, abstract: `SchedulingPolicy` |
| timers and `sys_sleep` | `timer.rs`, `syscall/sync.rs` | `SleepTimers` (extends `Scheduler`) |
| frame allocator | `mm/frame_allocator.rs` | `FrameAllocator`, abstract: `FramePool` |
| address spaces, copy-on-write, mmap | `mm/memory_set.rs`, `mm/page_table.rs` | `CowMemory`, abstract: `PrivateMemory` |
| mutex, semaphore, condition variable | `sync/` | `SyncPrims`, abstract: `FifoLock` |
| concurrent user programs | `user/src/bin/` | `DiningPhilosophers`, `BarrierCondvar`, `MpscSem` (extend `SyncPrims`), `Peterson`, `Eisenberg` |
| pipes | `fs/pipe.rs` | `Pipe`, abstract: `BoundedFifo` |
| terminal | `tty/mod.rs`, `syscall/tty.rs` | `Tty` |
| identifiers | `task/id.rs` | `RecycleAllocator` |
| threads of a process | `syscall/thread.rs`, `task/mod.rs` | `Threads` |
| process tree | `task/process.rs`, `syscall/process.rs` | `ProcessTree` |
| signals and jobs | `task/signal.rs`, `task/mod.rs` | `JobControl` |
| shell | `user/src/bin/user_shell.rs` | `Shell` (job table), `LineEditor` |
| contents of files | `easy-fs/src/layout.rs`, `bitmap.rs`, `vfs.rs`; `fs/inode.rs` | `FileBlocks`, abstract: `WordArrays` |
| block cache | `easy-fs/src/block_cache.rs` | `BlockCache` |
| directories and paths | `easy-fs/src/vfs.rs`; `fs/inode.rs`, `syscall/fs.rs` | `DirTree`, abstract: `NameTree` |
| waiting for the disk | `drivers/block/virtio_blk.rs`, locks of `easy-fs`, `syscall/process.rs` | `DiskWait` |
| sockets | `net/`, `syscall/net.rs` | `Net` |

Variables carry the names of the Rust fields and actions those of the functions.
Definitions marked as a *slip* in a comment are plausible mistakes in the
definition that follows them; they are used by nothing in the models, only to
show that a property would notice.

### Scheduler

`Scheduler` has the queues, `SchedInfo`, the status of every task, the current
task, the place of each task in the trap code, `SIE` and the pending timer
interrupt. Time is kept as the ticks a queued task has waited, saturated at the
wait that lifts it to `MAX_PRIORITY`; the code uses nothing else of the clock.
`refresh_aging` is written in closed form in `ReadyQueues`; `RefreshAging` is the
pop and push loop of the code and is proved to compute it. `SchedulingPolicy` says
what the scheduler promises without queues: the processor goes to a waiting task
of highest aged priority. `SleepTimers` adds the timer heap and takes the
interrupt between `add_timer` and `block_current_task`, where the code does.

### Memory

`FrameAllocator` is the stack of recycled frames with the bump pointer and the
counts. `CowMemory` has address spaces as areas, `data_frames` and page table
entries over counted frames; fork, exec, exit, stores, faults, `mmap`, `munmap`
and the kernel's writes to user memory are actions. `PrivateMemory` is what user
programs expect: an address space each. A page holds one value and the contents
of an ELF file count as zero. The frames of the page tables, which are never
shared, are left out. Running out of frames makes the kernel panic and has no
step. Processes have one thread, as `fork` and `exec` assert.

### Synchronisation

A call that cannot proceed puts the thread into the queue of its object and a
wakeup moves it to where the call continues. The user programs are their loops,
one system call per step; sleeping is time between two steps. `Peterson` and
`Eisenberg` use no system call: a step is one volatile load or store, and an
assertion on the guard that fails is a place `panic`. `peterson.rs` has the
creation of its second thread commented out; its functions are modelled for both.

### Pipe and terminal

In `Pipe` processes fork, close, exit, read and write; a transfer moves as many
bytes as it can and suspends, keeping its own reference to its end. In `Tty` an
interrupt feeds a burst of bytes to the line discipline, and a reader blocks in
the condition variable. Echo and the UART's own buffer are left out; who may call
`tcsetpgrp` is a parameter. With `fg_pgrp = 0` and no current task the code
panics: the model has a current task then.

### Processes

`Threads` has one process's slots, identifiers and mapped stacks; where the code
unwraps, indexes or asserts and fails, `panic` says which. `ProcessTree` has pids,
parents, children and the references that keep a control block alive; processes
in `Readers` have their second thread from birth. `JobControl` has the signals,
groups and stop states of a shell and its jobs. The tail of a trap is one step up
to a stop and one after it: an interrupt within it only adds signals, and doing
so before or after the rest of the step comes to the same.

`Shell` sits above that: child processes end, stop and continue in their own time,
and the shell starts pipelines, waits with `WUNTRACED` for one pid after the other,
keeps a job table and gives the terminal away and takes it back. Starting or
continuing a job and giving it the terminal are two steps, between which its processes
may end. Pids are reused in the order of `RecycleAllocator`. `LineEditor` has one
action per key.

### File system

Every disk access of `easy-fs` happens under the spin lock of the block cache
manager and the kernel is not preempted, so one file system call is over before
another gets anywhere. `FileBlocks` and `DirTree` therefore have one step per
call; `BlockCache` and `DiskWait` are about what happens inside one.

- `FileBlocks`: the bitmap of data blocks, disk inodes with direct, indirect and
  doubly indirect block numbers, growth, reads and writes at an offset, clearing,
  and the directory entries as words. `WordArrays` is what they promise: an array
  per inode. Sizes count words of four bytes, so that an indirect block and a block
  of contents have the same shape.
- `BlockCache`: loading, eviction, modification, the write-back at the end of an
  operation block by block, and a power failure between any two steps. `stored` and
  `since` remember what was stored, for the properties only.
- `DirTree`: inodes, entries and parent links, `lookup_path`, `open`, `mkdir`,
  `unlink`, `rename`, `chdir` and the working directory that `fork` copies. A call
  through a working directory that was removed, and the clearing or filling of an
  inode of the wrong kind, set `misused`; the tree properties hold until then.
  `NameTree` is what the calls promise.
- `DiskWait`: tasks in `exec` poll the device, tasks in other calls submit a request
  and sleep while they hold the locks; the device answers in any order and its
  interrupt wakes the sleepers.

### Network

`Net` has the two tables with the reuse of their slots, the descriptors, and the
packet handler, which runs only inside `accept` and `read`. `accept` takes a number
that nobody checks, so the model calls it with every slot of the listen table, live or
not and whosever it is, and one past the end. A packet is its sender and its place in
what that peer sends. UDP and TCP sockets share the table, as in
the code. Sequence numbers, ARP and outgoing packets are left out.

## Runs

Components that share no state are checked in one run: an `MC` module extends or
instantiates each over variables of its own, and a variable chosen in the initial
state (`program`, `workload` or `component`) says which of them moves. The state
spaces add up and do not multiply, and every property speaks of its own component.

| Run | What it shows |
|---|---|
| `scheduler` | three tasks under ticks, interrupts, calls, wakeups, priority changes, stops and exits: a ready task is queued once, flags and counter agree, the current task is the running one, no task returns to user code past a better one, equal tasks are served in order of waiting, and the queues implement the policy; the loop of `refresh_aging` computes the closed form wherever tasks are queued; a sleeper is never lost and never queued twice |
| `sleep_starvation` | *violated:* a task woken before it blocked is never aged |
| `memory` | counts, page tables and areas agree, a writable page has one owner, copy-on-write sharing is invisible to programs, and the allocator is a pool of frames |
| `cow_list_apps` | *violated:* `sys_list_apps` writes to a page two processes share |
| `sync` | no wakeup is lost or repeated, one owner per lock in order of arrival, exact semaphores; the threads of the five programs keep apart where they must, and all but Peterson's, of which only exclusion is checked, finish |
| `io` | pipe, terminal and sockets deliver everything once, in order and to the right reader; end of file is final; slots of the socket tables and descriptors agree, whatever numbers are passed to `accept` |
| `tty_ctrl_c` | *violated:* Ctrl-C does not end a process blocked in `read` |
| `processes` | thread and process identifiers are exact, the children lists are a forest under `INITPROC`, a stopped job can be continued, the shell survives, misses no child and has the terminal back when it reads a line; no index of the line editor leaves its range |
| `progress` | readers of a pipe return; with keys that come one at a time no reader of the terminal sleeps on beside input, and with bursts not all of them do; orphans are reaped, SIGINT ends a job, every ready task runs, file system calls return |
| `fs` | blocks belong to one inode, inodes are arrays, the cache is invisible and what an operation stored before it returned survives a power failure, directories form a tree of names, the reported working directory is the real one, and no wakeup from the disk is lost |
| `disk_hang` | *violated:* a reader asleep with the spin lock stops a task in `exec` for ever |
| `mv_lost` | *violated:* a move to a path below a regular file loses the file |

### Bounds

- Scheduler: three tasks (two of one process, so that a stop meets a sibling that
  is queued, running or blocked), three levels, slices of two ticks. Three tasks
  are needed for one to be overtaken by two others; three levels for a task to be
  promoted twice. In `progress` there are two levels and slices of one tick, and
  stops and exits, which only take competitors away, are left out. Sleeping has three
  processes, two levels and slices of one tick.
- Memory: three address spaces and five frames without `mmap`; two spaces and four
  frames with it. A page shared by three processes is the first whose count passes
  a store without becoming private. Pages: one of data, one of the trap context,
  one in the window of `mmap`.
- Synchronisation: three threads, a spin and a blocking mutex, a semaphore and a
  condition variable for arbitrary calls; four philosophers and two rounds, three
  threads and two barriers, three producers, two items each and a buffer of two;
  three threads and two iterations of `eisenberg`.
- Pipe: a ring of two bytes and transfers of up to three, so that every full or
  empty ring and every wrap happens; three processes, two writes. Terminal: bursts
  of two out of three typed bytes, with changes of the mode and the foreground group;
  and five keys read a byte at a time, so that the rest of a line meets another line
  that is not empty. In `progress` there are two readers: bursts of two keys with
  changes of the mode and the foreground group, and four keys one at a time with
  buffers that hold any line of them. Network: one port, two peers, two processes with
  two descriptors each and two messages a socket: a slot is used, freed and used again
  while the other is live.
- Processes: four threads or processes, four identifiers; one job of two threads
  or two jobs of one; with two jobs the keyboard raises, and `sigaction` changes,
  SIGTSTP only, and SIGINT comes from `kill`. Shell: three pids, pipelines of two
  stages, two jobs, lines of one or two commands, so that a pid of a reaped stage is
  given to the next job. Line editor: two letters and the space, lines of three
  characters, two lines of history, two names to complete.
- File system: blocks of two words, one direct block. One file of up to fourteen
  words reaches the doubly indirect blocks; two files of six share seven blocks, so
  that the bitmap runs out; a directory of three entries beside a file of three
  words, on six blocks. A cache of three blocks over four, two held at a time. Two
  names, three inodes, paths of up to two components, two processes: enough for a
  directory in a directory and a file, and for a rename or removal under another
  process's feet. Three tasks at the disk, two descriptors, three accesses a call.

Symmetry is used between tasks, processes, peers or letters that no definition
tells apart, and only in runs without liveness properties.

Deadlock is checked for the scheduler and for memory, which always have a next
step. The other instances come to an end: programs finish, bounded input is used up,
or the kernel has panicked.

### Fairness

- `sync`: weak fairness for each thread of a program: the scheduler starves none.
- `progress`: weak fairness for kernel code, for initproc's loop of `waitpid`, for
  the clock, its interrupt and the idle loop, and for the device and its interrupt.
  Nothing is assumed of user programs, except that those at a pipe end. Strong
  fairness for these exits, for the dispatch of a task that is ready again and again
  (which is `StarvationFree` of the scheduler), and for each thread of shell and job:
  the timer traps it and the scheduler gives it its turn.
- `sleep_starvation`: the clock, its interrupt, kernel code, the idle loop and
  `check_timer`.
- `tty_ctrl_c`: weak fairness for the kernel code of each process.
- `disk_hang`: as for the disk in `progress`.

## Proofs

Each theorem is about the specification of one component and holds for every value
of its constants that satisfies the named assumption of the module: finite sets of
tasks, threads, processes or frames of any size, any ring, cache or slice. The
property a theorem states is the very definition its run checks (for
`SleepersNeverLost` and `StopMarksAlwaysAgree` the one that the run instantiates for
its component). An invariant is proved with a stronger one that every step keeps; each
action has a lemma or a step of its own, and the facts on queues, lists and counts that
several actions need are lemmas before them.

| Module | Theorems | Assumption beyond finiteness and types |
|---|---|---|
| `SchedulerProofs` | `RefreshKeepsTasks`, `RefreshKeepsOrder`, `TypeCorrect`, `NoTaskLostOrDuplicated`, `FlagsAndCounterExact`, `OneRunning`, `OrderInvariant`, `NoInversion`, `NoOvertaking`, `SchedulerImplementsPolicy`, `SleepersNeverLost` | positive slice and aging interval |
| `RefreshProofs` | `LoopIsRefresh` | none |
| `MemoryProofs` | `FramesNeverLostOrDoubled`, `AllocatorImplementsPool`, `CopyOnWriteExact`, `SharingIsInvisible` | for the last two: the areas of a program do not overlap each other or the window of `mmap`; `initproc` fits in memory |
| `SyncPrimsProofs` | `NoLostWakeup`, `MutualExclusion`, `LocksCountRight`, `MutexIsFifo` | a program unlocks, and waits with, only mutexes it holds, and does not lock one it has |
| `IoProofs` | `EndOfFileIsFinal`, `PipeIsFifo`, `SocketsAreExact` | for the first two: a ring of at least one byte |
| `BlockCacheProofs` | `CacheIsCoherent`, `CacheIsDurable`, `DiskWakeupsExact` | for the first two: an operation holds fewer blocks than the cache has |
| `ProcessesProofs` | `ThreadIdsExact`, `ProcessTreeExact`, `StopMarksAlwaysAgree` | none |
| `Peterson` | `PetersonCorrect` | none |

- *Queues of the scheduler.* None of the four invariants is inductive alone: waking a
  task keeps it queued once only if a blocked task is not queued, which needs the
  flag, the status and the queues to agree. `IInv` joins `QueueInv` (queues without
  duplicates, flag and counter exact), `StatusInv` (ready iff queued, running iff
  current) and `HartInv` (types of the rest). What a refresh does rests on its closed
  form: the place of a task in its new queue is the number of tasks filed before it.
- *Order of the scheduler.* Which task is dispatched depends on how the queues are
  ordered, and a refresh is done only now and then. `OrderInv` adds that a task out
  of the queues has no wait, that a queued task whose base priority cannot have been
  changed is between its base and its aged level, and that of two such tasks of one
  base priority the longer waiting is in front or higher. From it follow
  `NoInversion`, `NoOvertaking` and, step by step with the mapping of
  `SchedulingPolicy`, `SchedulerImplementsPolicy`. Tasks whose priority
  `set_priority` may change are not in the order: their place is the one of their
  old level.
- *The loop of `refresh_aging`.* It files tasks at levels it has yet to visit and at the
  end of the level it is in, so while it runs no queue is in its final order.
  `LoopIInv` says from which slot of the old queues each task came (`Mirrors`) and how
  the slots lie (`Filing`): visited ones at the level of their target (`Rightly`), and
  each level in the order of the closed form, except that in the level being visited
  those still to be looked at stand before those filed there (`Ordered`). When the
  loop is done every level lists exactly its slots in that order, which is the closed
  form. That a task is queued once is not used.
- *Sleeping tasks.* `SleepIInv` ties timers, queues and states: a task that is blocked
  or arming a timer has a timer or is queued, never both, and a queued task runs only
  while it arms a timer that has already expired. The flag is exact only for tasks
  that are not blocked, for the early wakeup makes it wrong.
- *Frames.* `FramesExact` is inductive as it stands; the refinement of `FramePool`
  needs it to know that a recycled frame has count 0 when it is handed out again.
- *Copy-on-write.* `IInv` has exact counts (as the number of pages of all spaces that
  hold the frame), for each space that areas, `data_frames` and entries agree and no
  frame is in it twice (`SpaceOK`), that what is writable is in one space (`Sole`), and
  that the buffer of a blocked `sys_read` is still made of writable pages (`BufferOK`).
  The counts need cardinalities of sets of pages: one lemma for giving up and one for
  taking a set of pages. For `SharingIsInvisible` each action maps to the step of
  `PrivateMemory` that the program sees, and a fault that only copies to no step.
- *Locks.* Wakeups and exclusion are proved together: `unlock` hands the mutex to the
  head of its queue, so exclusion needs that whoever is queued waits for that very
  mutex, and that no `up` or `signal` wakes it. The proof follows the queues through
  an action with `Fits`, which is `BlockedIffQueued` of given queues: one lemma for
  each way to wake and to block, then one per system call. The books of a semaphore
  (`SemBooks`) count the threads that `up` has woken and that have not run yet. For the
  order of a blocking mutex `NotHeldYet` is added: inside `wait_with_mutex` a thread has
  let go of the mutex, so that it comes back at the end of the line.
- *Pipe.* `IInv` adds that `status` tells the full ring from the empty one, and that
  the process in the middle of a turn has as much room or as many bytes as it was
  promised. The refinement maps the ring to the bytes between `head` and `tail`,
  around its end.
- *Block cache.* `IInv` adds that an unmarked block is as on the device, that only a
  running operation has marked blocks, and that `block_cache_sync_all` has still to
  visit each marked one. That the cache never runs out of blocks is a pigeonhole
  argument on the queue and the handles.
- *Waiting for the disk.* `DiskIInv` adds to the types that the place of a task in its
  call tells who has the processor and the lock of the cache (`TasksOK`), and that each
  request that is out has one waiter of its own and a sleeping task one request
  (`TokensOK`): the answer to a request then wakes the task that made it.
- *Identifiers.* `RecycleAllocator` has lemmas of its own (`AllocGives`, `DeallocTakes`):
  an identifier it gives is not in use, and one in use passes its assertions. `ThreadsInv`
  adds that only ready and blocked threads have user resources, and that the allocator
  is in order as long as the process lives: at the exit of the main thread the
  identifiers collected from the slots are all that are in use. `TreeInv` adds that
  `INITPROC` lives with the first pid and that every entry of the map of pids is of the
  process with that pid; with it a new pid is in no entry, and the hand-over of
  children at an exit neither drops nor repeats one.
- *Job control.* `JobIInv` says of each process how its mark, its state and its threads
  go together (`ProcessOK`), and of the shell that it ignores SIGINT and SIGTSTP and is
  not stopped (`ShellOK`). `add_signal_to_process` drops a word of signals only when
  all of it is ignored, so that the shell lives is stated for words that join SIGINT
  with nothing but SIGTSTP; the keyboard raises no others.
- *Sockets.* `NetIInv` adds that the index in a descriptor is a bijection to the live
  slots of its table (`Match`), that no two sockets have the same ends (`EndsApart`), and
  that nothing is left over from an earlier socket with the ends of a new one
  (`NothingLeft`). A slot that is freed and given out again is then never reached
  through an old descriptor.
- *Peterson.* Exclusion is not inductive: `PetersonIInv` adds that a thread's flag is up
  exactly from its first store to its exit, that the guard counts who is between the
  two updates of the counter, and that beside a thread inside, the peer has not offered
  the turn yet or waits with the turn offered away.

In `Scheduler`, which the other theorems on the scheduler are about, a task is woken only
after it has blocked. `sys_sleep` does not keep to that: of `SleepTimers` only
`SleepersNeverLost` is proved, and aging fails (below).

Only model-checked:

- liveness and fairness (`progress`, `ProgramsFinish`), which are out of the prover's
  reach;
- `InputInOrder`, `JobsKept`, `BlocksExact`, `ImplementsArrays`, and `CwdPathTrue`,
  `TreeExact` and `ImplementsTree` of `DirTree`: what a fold over typed bytes, over the
  stages of a job or over the blocks of a file, or a walk along a path computes needs an
  induction over data;
- `EditorSound`, and `ProgramsExclude` for the programs other than Peterson's: no proof
  has been written.

## Where code and documentation disagree

Five runs have a counterexample; `PROJECT.json` quotes the lines.

- `sleep_starvation`: the timer can expire between `add_timer` and
  `block_current_task`. The task is queued while running, then blocks: it stays
  queued with `in_ready_queue` cleared. A debug build stops at an assertion of
  `refresh_aging`; a release build never ages the task.
- `cow_list_apps`: the one system call that writes to user memory without
  `ensure_private_range`.
- `tty_ctrl_c`: `signal_fg` sets the bit and wakes nobody.
- `disk_hang`: `exec` polls the disk so that it does not sleep with a spin lock held.
  Any other call still does; a task that enters `exec` then spins on the lock in the
  kernel, where nothing takes the processor from it. Execs alone are safe
  (`CallsReturn` in `progress`).
- `mv_lost`: `rename_at` does not test that the new parent is a directory; `link`
  writes the entry into a regular file and the old entry goes.

Seen while modelling, and not made into runs:

- A thread's slot is reused when its tid is, so the exit code of a thread that
  nobody collected in time is lost; `waittid` panics on a tid past the table; a
  process that ever had a second thread cannot `fork` or `exec` (the table does
  not shrink); after the main thread's exit a queued thread of the process is
  dispatched without user resources and the kernel panics.
- `waitpid` asserts that nobody else refers to the child, while another thread
  of the child may be suspended in `sys_read` with a reference.
- A stop reaches the threads of a process that has more than one only as they
  trap: `waitpid` can report it while one still runs.
- `exec` erases pending signals along with the dispositions.
- `munmap` of the exact range of an ELF area unmaps it.
- An interrupt wakes one reader, where the comment of `handle_uart_irq`
  (`tty/mod.rs:201`) speaks of readers: of two that are blocked, the second sleeps on
  beside the second line of a burst, or the rest of a line that did not fit, until the
  next key or `read`. So does a reader when the one that was woken is in the
  background and returns, and when another process changes the mode.
  `InputReachesReader` says what is left: per reader for keys that come one at a time,
  lines that fit and no such change, and otherwise that not all readers sleep. In a
  burst `^C^Z` the last signal wins. An empty line and end of file both read as 0.
- A task promoted by `refresh_aging` to a level above is not met again, but one
  filed below after `set_priority` is met twice in one refresh, contrary to the
  comment in `priority.rs`; the second time changes nothing.
- `alloc_more` refuses a request that would fit exactly. A writer of a pipe
  without readers suspends for ever, and a read of length zero of an empty pipe
  waits.
- Removing an entry reduces a directory's size but frees no block: the blocks past
  the new size are lost when the directory grows again or is removed. (`NoBlockLost`
  is checked for regular files.) The comment of `unlink`, `easy-fs/src/vfs.rs:472`,
  says that it deallocates the data blocks of its target.
- `open` of a directory with `TRUNC` and without `CREATE` clears it. `open` with
  `CREATE` or `mkdir` below a regular file fails an assertion of `easy-fs`. A working
  directory or open file that was removed stays usable, also when its inode is used
  again. After another process has renamed a directory on the way, `getcwd` reports a
  path that no longer leads to the working directory. The comment of `sys_rename` says
  it renames within one directory; it also moves.
- A second socket with the same ends, after a repeated connection request or
  `connect`, makes the kernel panic. UDP and TCP share the table. What does not fit
  into the reader's buffer of a message is dropped. `accept` and TCP's `read` poll
  in the kernel and let no other task run until a packet comes. `accept` does not ask
  whose port a number is: on another process's it takes that one's connection, also
  when the slot was the caller's before, and for a number of no open port the kernel
  panics at an assertion.
- The shell gives a job the terminal after it has started it. If the first stage of
  the pipeline has ended by then, `tcsetpgrp` finds no such process and fails, the
  shell does not look at the result, and the terminal stays with the shell while it
  waits: Ctrl-C and Ctrl-Z do not reach the other stages, and their reads of the
  terminal return 0. `fg` of a job whose first stage is gone comes to the same.
- On a line with several commands the shell may register a stopped pipeline with the
  pid of a stage it has reaped; the next command can get that pid
  (`PidsAreOwn` is checked for lines of one command). Ctrl-Z does not stop a process
  that loops in the kernel at a pipe.

## Not modelled

- `round_robin.rs`: another build of the scheduler trait, one FIFO queue.
- `sync/up.rs`: the masking of interrupts is the atomicity the models assume.
- The kernel heap (external allocator), address conversions (bit operations) and the
  parsing of ELF files (external crate).
- The shell's tokenizer and redirections, the builtins that only print, `PATH`, `stat`
  and the listing of directories: sequential, without state that later steps use.
- Packet formats, TCP sequence numbers, ARP, and what the kernel sends.
- Device drivers without protocol state (interrupt controller, GPU, input), the image
  packer and the sequential user programs: no property beyond input and output.
  `adder_peterson_spin.rs` and `adder_peterson_yield.rs` use Peterson's algorithm with
  plain stores that the compiler may move; only `peterson.rs` is modelled.
- A crash in the middle of an operation may leave the bitmap, the inode and the
  directory of different ages, for the cache writes blocks back in the order they were
  loaded. `Durable` says what each single block holds then; the code has no recovery
  that would need more.
