----------------------------- MODULE MCProgress -----------------------------
(***************************************************************************)
(* What must eventually happen, for TLC: the readers of a pipe and of the  *)
(* terminal, the orphans of a process tree, the job that was sent   *)
(* SIGINT, the tasks in the ready queues and the file system calls that    *)
(* wait for the disk, each in behaviours of its own.                       *)
(***************************************************************************)
EXTENDS Naturals, Sequences, TLC

CONSTANTS p1, p2, p3, NoProc, init, b1, b2, b3, NoPcb, sh, j1,
          t1, t2, t3, NoTask

VARIABLES component,
          arr, head, tail, status, cell, alive, ends, call, writes, taken, short,
          icanon, isig, line, lines, raw_buf, eof, fg, wait_queue,
          proc, want, pending, typed, unread, misread,
          pids, pid2pcb, pid, parent, children, life, reading, halt,
          state, task, pgid, signals, sig_ignored, stopped, fg_pgrp,
          ready_queues, ready_tasks, sched_info, task_status, current, pc, sie, timer_pending,
          cpu, dstatus, place, dcall, budget, fs_lock, manager, nb, requests, used_ring, condvars

pipeVars == <<arr, head, tail, status, cell, alive, ends, call, writes, taken, short>>
ttyVars == <<icanon, isig, line, lines, raw_buf, eof, fg, wait_queue,
             proc, want, pending, typed, unread, misread>>
treeVars == <<pids, pid2pcb, pid, parent, children, life, reading, halt>>
jobVars == <<state, task, pgid, signals, sig_ignored, stopped, fg_pgrp>>
schedVars == <<ready_queues, ready_tasks, sched_info, task_status, current, pc, sie, timer_pending>>
diskVars == <<cpu, dstatus, place, dcall, budget, fs_lock, manager, nb, requests, used_ring, condvars>>
vars == <<component, pipeVars, ttyVars, treeVars, jobVars, schedVars, diskVars>>

P == INSTANCE Pipe WITH Procs <- {p1, p2, p3}, Creator <- p1, Bytes <- {1},
        NoByte <- 0, RING_BUFFER_SIZE <- 2, Lens <- {3}, MaxWrites <- 1,
        state <- alive, eof <- short

(* Two readers of the terminal in groups of their own, with bursts of keys *)
(* and changes of the mode and the foreground group; or two of one group,  *)
(* with keys that come one at a time and lines that fit into the buffers.  *)
Ttys == {"shell", "job"}
Number == [p \in Ttys |-> IF p = "shell" THEN 2 ELSE 3]

T == INSTANCE Tty WITH Procs <- Ttys, pid <- Number, pgrp <- Number,
        Ignores <- {"shell"}, Controllers <- {"shell"},
        Printable <- {"a"}, Wants <- {1}, MaxBurst <- 2, MaxTyped <- 2,
        fg_pgrp <- fg, signals <- pending

OneKey == INSTANCE Tty WITH Procs <- Ttys, pid <- Number, pgrp <- [p \in Ttys |-> 3],
        Ignores <- {}, Controllers <- {},
        Printable <- {"a"}, Wants <- {3}, MaxBurst <- 1, MaxTyped <- 4,
        fg_pgrp <- fg, signals <- pending

Tree == INSTANCE ProcessTree WITH Pcbs <- {init, b1, b2, b3}, INITPROC <- init,
        Readers <- {}, MaxPid <- 3, PID_ALLOCATOR <- pids, state <- life

Job == INSTANCE JobControl WITH Shell <- sh, Jobs <- {j1}, pid <- (sh :> 2 @@ j1 :> 3),
        Two <- {j1}, MayExec <- FALSE, Keys <- {{"SIGINT"}, {"SIGTSTP"}},
        Flags <- {{"SIGINT"}, {"SIGTSTP"}, {"SIGCONT"}}

Sched == INSTANCE Scheduler WITH Tasks <- {t1, t2, t3}, InitTask <- t1,
        ProcessOf <- (t1 :> 1) @@ (t2 :> 2) @@ (t3 :> 2),
        MAX_PRIORITY <- 1, DEFAULT_PRIORITY <- 1, SettablePriorities <- {0},
        TIME_SLICE_TICKS <- 1, AGING_INTERVAL_TICKS <- 1

(* One task at a time uses the files, beside a task that only runs; or two *)
(* tasks exec at the same time.  (With a reader beside them the calls do   *)
(* not always return: see the run disk_hang.)                              *)
Disk == INSTANCE DiskWait WITH Tasks <- {t1, t2}, Nobody <- NoTask,
        Execers <- {t1}, Readers <- {t1}, Tokens <- {0, 1}, MaxAccesses <- 3,
        status <- dstatus, pc <- place, call <- dcall, left <- budget

Execs == INSTANCE DiskWait WITH Tasks <- {t1, t2}, Nobody <- NoTask,
        Execers <- {t1, t2}, Readers <- {}, Tokens <- {0, 1}, MaxAccesses <- 3,
        status <- dstatus, pc <- place, call <- dcall, left <- budget

ASSUME Disk!DiskWaitConstants /\ Execs!DiskWaitConstants

(* Starvation is about tasks that compete: start with all three ready, and *)
(* leave out stops, exits and exceptions, which only take tasks out.       *)
SchedInit ==
    /\ ready_queues = [Sched!EmptyQueues EXCEPT ![1] = <<t1, t2, t3>>]
    /\ ready_tasks = 3
    /\ sched_info = [t \in {t1, t2, t3} |-> Sched!on_enqueue(Sched!NewSchedInfo(1))]
    /\ task_status = [t \in {t1, t2, t3} |-> "Ready"]
    /\ current = NoTask
    /\ pc = [t \in {t1, t2, t3} |-> "user"]
    /\ sie = FALSE /\ timer_pending = FALSE

SchedNext ==
    \/ Sched!Tick \/ Sched!Fetch \/ Sched!TimerInterrupt
    \/ \E t \in {t1, t2, t3} :
          \/ Sched!DeviceWakeup(t) \/ Sched!Syscall(t) \/ Sched!Yield(t) \/ Sched!Block(t)
          \/ Sched!SyscallReturn(t) \/ Sched!TrapReturn(t)
          \/ \E p \in {1, 2} : Sched!SetPriority(t, p, 0)

Init ==
    /\ P!Init /\ T!Init /\ Tree!TreeInit /\ Job!Init /\ SchedInit /\ Disk!DiskInit
    /\ component \in {"pipe", "tty", "keys", "tree", "job", "sched", "disk", "execs"}

Others(k) ==
    /\ k \in {"tty", "tree", "job", "sched", "disk"} => UNCHANGED pipeVars
    /\ k \in {"pipe", "tree", "job", "sched", "disk"} => UNCHANGED ttyVars
    /\ k \in {"pipe", "tty", "job", "sched", "disk"} => UNCHANGED treeVars
    /\ k \in {"pipe", "tty", "tree", "sched", "disk"} => UNCHANGED jobVars
    /\ k \in {"pipe", "tty", "tree", "job", "disk"} => UNCHANGED schedVars
    /\ k \in {"pipe", "tty", "tree", "job", "sched"} => UNCHANGED diskVars
    /\ UNCHANGED component

PipeStep(A) == component = "pipe" /\ A /\ Others("pipe")
TtyStep(A) == component = "tty" /\ A /\ Others("tty")
KeysStep(A) == component = "keys" /\ A /\ Others("tty")
TreeStep(A) == component = "tree" /\ A /\ Others("tree")
JobStep(A) == component = "job" /\ A /\ Others("job")
SchedStep(A) == component = "sched" /\ A /\ Others("sched")
DiskStep(A) == component = "disk" /\ A /\ Others("disk")
ExecsStep(A) == component = "execs" /\ A /\ Others("disk")
DiskOrExecs(A) == component \in {"disk", "execs"} /\ A /\ Others("disk")

Next ==
    \/ PipeStep(P!Next) \/ TtyStep(T!Next) \/ KeysStep(OneKey!Next)
    \/ TreeStep(Tree!TreeNext) \/ JobStep(Job!Next) \/ SchedStep(SchedNext)
    \/ DiskStep(Disk!DiskNext) \/ ExecsStep(Execs!DiskNext)

(* Kernel code is not starved, initproc waits for ever, time goes on, its  *)
(* interrupt is taken, and the disk answers.  Behaviours are about one     *)
(* component each, so a disjunction is as good as a condition for each     *)
(* component, and cheaper to check; within the disk the steps of a task,   *)
(* and those of the device, are never enabled together.                    *)
Weak(k) ==
    \/ PipeStep(P!Transfer(<<p1, p2, p3>>[k]))
    \/ k # 3 /\ TtyStep(T!Kernel(<<"shell", "job">>[k]))
    \/ k # 3 /\ KeysStep(OneKey!Kernel(<<"shell", "job">>[k]))
    \/ k = 1 /\ TreeStep(Tree!sys_waitpid(init, Tree!AnyPid))
    \/ k = 1 /\ SchedStep(Sched!Tick)
    \/ k = 2 /\ SchedStep(Sched!TimerInterrupt)
    \/ k = 3 /\ SchedStep(Sched!KernelProgress)
    \/ DiskOrExecs(IF k = 3 THEN Disk!handle_irq \/ \E token \in {0, 1} : Disk!Complete(token)
                   ELSE Disk!InKernel(<<t1, t2>>[k]) \/ Disk!Preempt(<<t1, t2>>[k]))

(* Programs at a pipe end, the timer and the scheduler give each thread of *)
(* shell and job its turn, and a ready task gets the processor.            *)
Strong(k) ==
    \/ PipeStep(P!Exit(<<p1, p2, p3>>[k]))
    \/ JobStep(Job!Kernel(<<sh, j1, j1>>[k], <<0, 0, 1>>[k]))
    \/ k # 3 /\ DiskOrExecs(Disk!Dispatch(<<t1, t2>>[k]))

Fairness == \A k \in 1 .. 3 : WF_vars(Weak(k)) /\ SF_vars(Strong(k))

Spec == Init /\ [][Next]_vars /\ Fairness
-----------------------------------------------------------------------------
(* A reader of a pipe that has closed its own write end gets its bytes or  *)
(* end of file, provided no other reader keeps one open.                   *)
ReadersReturn == P!ReadersReturn

(* Of keys that come one at a time and lines that fit into the buffers, no *)
(* reader stays blocked for ever beside input it could take.  And in what  *)
(* bursts and pieces the input comes, and however the mode changes: never  *)
(* are all readers asleep for good beside input that one of them could     *)
(* take.  (An interrupt wakes one reader, however many lines it brings.)   *)
InputReachesReader ==
    /\ \A p \in Ttys : []<>(component = "keys" => OneKey!InputTaken(p))
    /\ []<>(component = "tty" => T!NotAllAsleep)

(* Orphans do not pile up: a process that ends as a child of INITPROC is   *)
(* reaped, unless the machine is shut down.                                *)
OrphansReaped == Tree!OrphansReaped

(* A pending SIGINT ends the job before it returns from a trap, unless the *)
(* job is stopped.  (No exec here: it would drop the signal.)      *)
SigintEnds == Job!SigintEnds

(* A ready task is dispatched, however often others of a higher priority   *)
(* are ready: its waiting time raises its priority.                        *)
StarvationFree == \A t \in {t1, t2, t3} : []<>(component = "sched" => Sched!Served(t))

(* A file system call returns when one task at a time uses the files, or   *)
(* when all that do are in exec: nobody spins on a lock whose holder       *)
(* sleeps, and every answer of the disk reaches the task that waits.       *)
CallsReturn == Disk!CallsReturn
=============================================================================
