----------------------------- MODULE JobControl -----------------------------
(***************************************************************************)
(* Signals, process groups, stopping and continuing: a shell and the jobs  *)
(* it starts (os/src/task/mod.rs, os/src/task/signal.rs, the tail of       *)
(* trap_handler, os/src/syscall/process.rs; the shell is the one of        *)
(* user/src/bin/user_shell.rs after its set-up).                           *)
(*                                                                         *)
(* One hart: a thread in user mode, or in one of these system calls, has   *)
(* it until it traps or the call ends; interrupts raise signals meanwhile. *)
(* The tail of a trap is one step up to a stop and one after it: an        *)
(* interrupt inside it only adds signals, which commutes with what is left *)
(* of the step.  A job has one thread, or two.                             *)
(***************************************************************************)
EXTENDS Integers, FiniteSets

CONSTANTS Jobs, Shell,
          pid,          \* pid[b], greater than 0
          Two,          \* the jobs that create a second thread
          MayExec,      \* whether jobs call exec
          Flags,        \* the signal words passed to kill
          Keys          \* those the terminal raises and sigaction changes;
                        \* ignoring SIGCONT alone has no effect

Procs == Jobs \cup {Shell}
SIGNALS == {"SIGINT", "SIGTSTP", "SIGCONT"}

JobControlConstants ==
    /\ Shell \notin Jobs /\ Two \subseteq Jobs /\ MayExec \in BOOLEAN
    /\ pid \in [Procs -> Nat \ {0}]
    /\ \A b, c \in Procs : pid[b] = pid[c] => b = c
    /\ Flags \subseteq SUBSET SIGNALS /\ Keys \subseteq SUBSET SIGNALS

VARIABLES state,    \* "unborn", "live", "zombie" or "reaped"
          task,     \* task[b][i]: thread i of b; see JobTypeOK
          pgid, signals, sig_ignored, stopped, fg_pgrp

vars == <<state, task, pgid, signals, sig_ignored, stopped, fg_pgrp>>

Pids == {pid[b] : b \in Procs}
Tids == {0, 1}

Init ==
    /\ state = [b \in Procs |-> IF b = Shell THEN "live" ELSE "unborn"]
    /\ task = [b \in Procs |->
                 [i \in Tids |-> IF b = Shell /\ i = 0 THEN "user" ELSE "none"]]
    /\ pgid = [b \in Procs |-> pid[Shell]]
    /\ signals = [b \in Procs |-> {}]
    /\ sig_ignored = [b \in Procs |-> IF b = Shell THEN {"SIGINT", "SIGTSTP"} ELSE {}]
    /\ stopped = [b \in Procs |-> FALSE]
    /\ fg_pgrp = pid[Shell]

(* A process of which a thread makes a system call, and its threads after. *)
Calls(b) == state[b] = "live" /\ \E i \in Tids : task[b][i] = "call"
Ret(t) == [i \in Tids |-> IF t[i] = "call" THEN "kernel" ELSE t[i]]

(* No thread but thread i of b has the hart. *)
Hart(b, i) == \A c \in Procs, k \in Tids :
    task[c][k] \in {"user", "call"} => <<c, k>> = <<b, i>>

fork(child) ==
    /\ Calls(Shell) /\ state[child] = "unborn"
    /\ state' = [state EXCEPT ![child] = "live"]
    /\ task' = [task EXCEPT ![child][0] = "fresh", ![Shell] = Ret(@)]
    /\ pgid' = [pgid EXCEPT ![child] = pgid[Shell]]
    /\ sig_ignored' = [sig_ignored EXCEPT ![child] = sig_ignored[Shell]]
    /\ UNCHANGED <<signals, stopped, fg_pgrp>>

sys_thread_create(b) ==
    /\ Calls(b) /\ b \in Two /\ task[b][1] = "none"
    /\ task' = [task EXCEPT ![b] = [Ret(@) EXCEPT ![1] = "fresh"]]
    /\ UNCHANGED <<state, pgid, signals, sig_ignored, stopped, fg_pgrp>>

(* Of itself or of a child; 0 makes the target the leader of its group. *)
sys_setpgid(b, target, g) ==
    /\ Calls(b) /\ state[target] = "live" /\ target \in Jobs /\ b \in {target, Shell}
    /\ pgid' = [pgid EXCEPT ![target] = IF g = 0 THEN pid[target] ELSE g]
    /\ task' = [task EXCEPT ![b] = Ret(@)]
    /\ UNCHANGED <<state, signals, sig_ignored, stopped, fg_pgrp>>

sys_sigaction(b, flag, ignore) ==
    /\ Calls(b) /\ b \in Jobs
    /\ sig_ignored' = [sig_ignored EXCEPT ![b] = IF ignore THEN @ \cup flag ELSE @ \ flag]
    /\ task' = [task EXCEPT ![b] = Ret(@)]
    /\ UNCHANGED <<state, pgid, signals, stopped, fg_pgrp>>

(* exec asserts a single thread. *)
exec(b) ==
    /\ MayExec /\ Calls(b) /\ b \in Jobs /\ task[b][1] = "none"
    /\ signals' = [signals EXCEPT ![b] = {}]
    /\ sig_ignored' = [sig_ignored EXCEPT ![b] = {}]
    /\ stopped' = [stopped EXCEPT ![b] = FALSE]
    /\ task' = [task EXCEPT ![b] = Ret(@)]
    /\ UNCHANGED <<state, pgid, fg_pgrp>>

sys_tcsetpgrp(b, g) ==
    /\ Calls(b) /\ \E c \in Procs : state[c] = "live" /\ pid[c] = g
    /\ fg_pgrp' = g
    /\ task' = [task EXCEPT ![b] = Ret(@)]
    /\ UNCHANGED <<state, pgid, signals, sig_ignored, stopped>>
-----------------------------------------------------------------------------
Group(g) == {b \in Procs : state[b] = "live" /\ pgid[b] = g}

(* add_signal_to_process, to each target. *)
Delivered(targets, flag) ==
    [b \in Procs |-> IF b \in targets /\ ~(flag \subseteq sig_ignored[b])
                     THEN signals[b] \cup flag ELSE signals[b]]

(* Slip: only the main thread is made ready. *)
Resumed_Main(b) == [i \in Tids |->
    IF i = 0 /\ task[b][i] = "Stopped" THEN "resuming" ELSE task[b][i]]

(* The threads of b after continue_process. *)
Resumed(b) == [i \in Tids |-> IF task[b][i] = "Stopped" THEN "resuming" ELSE task[b][i]]

(* continue_process of each target, and the return of the caller. *)
Continue(targets) ==
    LET C == {c \in targets : stopped[c]} IN
    /\ stopped' = [c \in Procs |-> stopped[c] /\ c \notin C]
    /\ signals' = [c \in Procs |-> IF c \in C THEN signals[c] \ {"SIGCONT"} ELSE signals[c]]
    /\ task' = [c \in Procs |-> Ret(IF c \in C THEN Resumed(c) ELSE task[c])]

(* The processes that the first argument of kill names: one (n > 0), the   *)
(* group -n (n < 0) or the caller's group.                                 *)
Targets(b, n) ==
    IF n > 0 THEN {c \in Procs : state[c] = "live" /\ pid[c] = n}
    ELSE Group(IF n < 0 THEN -n ELSE pgid[b])

sys_kill(b, n, flag) ==
    /\ Calls(b)
    /\ IF flag = {"SIGCONT"} THEN Continue(Targets(b, n))
       ELSE /\ signals' = Delivered(Targets(b, n), flag)
            /\ task' = [task EXCEPT ![b] = Ret(@)]
            /\ UNCHANGED stopped
    /\ UNCHANGED <<state, pgid, sig_ignored, fg_pgrp>>

(* signal_fg from the terminal's interrupt, which traps a thread in user   *)
(* mode before it is handled.                                              *)
signal_fg(flag) ==
    /\ \A b \in Procs, i \in Tids : task[b][i] # "user"
    /\ signals' = Delivered(Group(fg_pgrp), flag)
    /\ UNCHANGED <<state, task, pgid, sig_ignored, stopped, fg_pgrp>>
-----------------------------------------------------------------------------
(* A new thread goes to user mode without the tail of a trap. *)
Start(b, i) ==
    /\ state[b] = "live" /\ task[b][i] = "fresh" /\ Hart(b, i)
    /\ task' = [task EXCEPT ![b][i] = "user"]
    /\ UNCHANGED <<state, pgid, signals, sig_ignored, stopped, fg_pgrp>>

(* An interrupt, and a system call, from user mode. *)
Trap(b, i) ==
    /\ state[b] = "live" /\ task[b][i] = "user"
    /\ task' = [task EXCEPT ![b][i] = "kernel"]
    /\ UNCHANGED <<state, pgid, signals, sig_ignored, stopped, fg_pgrp>>

SystemCall(b, i) ==
    /\ state[b] = "live" /\ task[b][i] = "user"
    /\ task' = [task EXCEPT ![b][i] = "call"]
    /\ UNCHANGED <<state, pgid, signals, sig_ignored, stopped, fg_pgrp>>

(* The end of a call that changes nothing here. *)
OtherCall(b, i) ==
    /\ state[b] = "live" /\ task[b][i] = "call"
    /\ task' = [task EXCEPT ![b][i] = "kernel"]
    /\ UNCHANGED <<state, pgid, signals, sig_ignored, stopped, fg_pgrp>>

(* exit_current_and_run_next. *)
ExitTask(b, i) ==
    /\ task' = [task EXCEPT ![b][i] = "exited"]
    /\ state' = [state EXCEPT ![b] = IF i = 0 THEN "zombie" ELSE @]

sys_exit(b, i) ==
    /\ state[b] = "live" /\ task[b][i] = "call" /\ b \in Jobs
    /\ ExitTask(b, i)
    /\ UNCHANGED <<pgid, signals, sig_ignored, stopped, fg_pgrp>>

(* clear_cont_signal_of_current and check_signals_of_current. *)
Tail(b, i, pending) ==
    /\ signals' = [signals EXCEPT ![b] = pending \ {"SIGCONT"}]
    /\ IF "SIGINT" \in pending THEN ExitTask(b, i)
       ELSE task' = [task EXCEPT ![b][i] = "user"] /\ UNCHANGED state

Stops(b) == "SIGTSTP" \in signals[b] \ sig_ignored[b]

(* The end of a trap from user mode without a stop, and with one.  A       *)
(* signal that is ignored is dropped if it is SIGTSTP only.                *)
TrapReturns(b, i) ==
    /\ state[b] = "live" /\ task[b][i] = "kernel" /\ Hart(b, i) /\ ~Stops(b)
    /\ Tail(b, i, signals[b] \ {"SIGTSTP"})
    /\ UNCHANGED <<pgid, sig_ignored, stopped, fg_pgrp>>

TrapStops(b, i) ==
    /\ state[b] = "live" /\ task[b][i] = "kernel" /\ Hart(b, i) /\ Stops(b)
    /\ signals' = [signals EXCEPT ![b] = @ \ {"SIGTSTP"}]
    /\ stopped' = [stopped EXCEPT ![b] = TRUE]
    /\ task' = [task EXCEPT ![b][i] = "Stopped"]
    /\ UNCHANGED <<state, pgid, sig_ignored, fg_pgrp>>

(* Slip: after a stop the signals are not looked at, nor when it traps     *)
(* again: they were taken as handled.                                      *)
Resume_Unchecked(b, i) ==
    /\ state[b] = "live" /\ task[b][i] = "resuming" /\ Hart(b, i)
    /\ task' = [task EXCEPT ![b][i] = "user"]
    /\ signals' = [signals EXCEPT ![b] = {}]
    /\ UNCHANGED <<state, pgid, sig_ignored, stopped, fg_pgrp>>

(* A continued task goes on after its stop. *)
Resume(b, i) ==
    /\ state[b] = "live" /\ task[b][i] = "resuming" /\ Hart(b, i)
    /\ Tail(b, i, signals[b])
    /\ UNCHANGED <<pgid, sig_ignored, stopped, fg_pgrp>>

(* What the shell's waitpid with WUNTRACED returns for a job. *)
WaitResult(c) ==
    IF stopped[c] THEN "-3" ELSE IF state[c] = "zombie" THEN "reaped" ELSE "-2"

(* The process control block goes with the zombie: what was in it is as    *)
(* good as never set.                                                      *)
sys_waitpid(c) ==
    /\ Calls(Shell) /\ state[c] \in {"live", "zombie"} /\ WaitResult(c) = "reaped"
    /\ state' = [state EXCEPT ![c] = "reaped"]
    /\ task' = [task EXCEPT ![Shell] = Ret(@), ![c] = [i \in Tids |-> "none"]]
    /\ pgid' = [pgid EXCEPT ![c] = pid[Shell]]
    /\ signals' = [signals EXCEPT ![c] = {}]
    /\ sig_ignored' = [sig_ignored EXCEPT ![c] = {}]
    /\ UNCHANGED <<stopped, fg_pgrp>>

Kernel(b, i) ==
    \/ Start(b, i) \/ Trap(b, i) \/ OtherCall(b, i)
    \/ TrapReturns(b, i) \/ TrapStops(b, i) \/ Resume(b, i)

Next ==
    \/ \E c \in Jobs : fork(c) \/ sys_waitpid(c)
    \/ \E b \in Procs :
          \/ sys_thread_create(b) \/ exec(b)
          \/ \E t \in Procs, g \in Pids \cup {0} : sys_setpgid(b, t, g)
          \/ \E f \in Keys, ignore \in BOOLEAN : sys_sigaction(b, f, ignore)
          \/ \E g \in Pids : sys_tcsetpgrp(b, g)
          \/ \E n \in Pids \cup {-g : g \in Pids} \cup {0}, f \in Flags : sys_kill(b, n, f)
          \/ \E i \in Tids : SystemCall(b, i) \/ sys_exit(b, i) \/ Kernel(b, i)
    \/ \E f \in Keys : signal_fg(f)

(* The timer traps the thread that has the hart, and the scheduler gives   *)
(* every other one its turn (StarvationFree of the scheduler).             *)
Spec == Init /\ [][Next]_vars /\ \A b \in Procs, i \in Tids : SF_vars(Kernel(b, i))
-----------------------------------------------------------------------------
(* Type invariant of the processes and their signals. *)
JobTypeOK ==
    /\ state \in [Procs -> {"unborn", "live", "zombie", "reaped"}]
    /\ task \in [Procs -> [Tids -> {"none", "fresh", "user", "call", "kernel", "Stopped",
                               "resuming", "exited"}]]
    /\ pgid \in [Procs -> Nat] /\ fg_pgrp \in Nat
    /\ signals \in [Procs -> SUBSET SIGNALS] /\ sig_ignored \in [Procs -> SUBSET SIGNALS]
    /\ stopped \in [Procs -> BOOLEAN]

(* No stopped thread is out of reach of SIGCONT: continue_process returns  *)
(* early for a process that is not marked as stopped.                      *)
StoppedCanContinue ==
    \A b \in Procs : state[b] = "live" /\ (\E i \in Tids : task[b][i] = "Stopped") => stopped[b]

(* Stopping a process of one thread stops it; so one that waitpid reports  *)
(* as stopped neither runs nor has ended.  (The other thread of a process  *)
(* of two runs on.)                                                        *)
StopStopsAll ==
    \A b \in Procs \ Two : stopped[b] =>
       state[b] = "live" /\ \A i \in Tids : task[b][i] \in {"none", "Stopped", "exited"}

(* The shell ignores what the keyboard raises, and is neither killed nor   *)
(* stopped by any group signal, while the jobs it starts come and go; a    *)
(* word of kill that adds to SIGINT something the shell does not ignore    *)
(* would end it.                                                           *)
ShellSurvives ==
    /\ ~stopped[Shell]
    /\ (\A f \in Flags \cup Keys : "SIGINT" \in f => f \subseteq {"SIGINT", "SIGTSTP"})
          => state[Shell] = "live"

(* No stopped thread is out of reach of SIGCONT, a process that waitpid    *)
(* reports as stopped is, and the shell survives.                          *)
StopMarksAgree == JobTypeOK /\ StoppedCanContinue /\ StopStopsAll /\ ShellSurvives

(* A pending SIGINT ends a job before it returns from a trap, unless the   *)
(* job is stopped.                                                         *)
SigintEnds ==
    \A b \in Jobs :
       state[b] = "live" /\ "SIGINT" \in signals[b] ~> state[b] # "live" \/ stopped[b]
=============================================================================
