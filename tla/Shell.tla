------------------------------- MODULE Shell -------------------------------
(***************************************************************************)
(* The job table of the shell (user/src/bin/user_shell.rs): pipelines in   *)
(* the foreground and in the background, waiting with WUNTRACED, fg, bg,   *)
(* jobs and kill, over child processes that end, stop and continue in      *)
(* their own time and whose pids are used again.  How the kernel delivers  *)
(* the signals is JobControl's subject; here a process may take a stop     *)
(* signal late, or never, as one in a loop of the kernel does.             *)
(***************************************************************************)
EXTENDS Naturals, Sequences, FiniteSets, SequencesExt

CONSTANTS
    shell_pgrp,     \* process group of the shell
    FirstPid,       \* pids of children are FirstPid .. LastPid
    LastPid,
    MaxStages,      \* bound on the stages of a pipeline
    MaxJobs,        \* bound on the job table
    MaxCommands     \* bound on the commands of a line, joined by ; && ||

Pids == FirstPid .. LastPid

ShellConstants == /\ shell_pgrp \in Nat /\ FirstPid > shell_pgrp /\ LastPid >= FirstPid
                  /\ MaxStages \in Nat /\ MaxJobs \in Nat /\ MaxCommands \in Nat \ {0}

VARIABLES
    pc,         \* "prompt", "command", "launched" or "wait"
    commands,   \* commands of the line not yet executed
    jobs,       \* the job table: pgid, pids and status of each job
    waiting,    \* pids run_pipeline or fg has still to wait for
    job,        \* the job it waits for, index 0 if not in the table yet
    stop_seen,  \* stopped, stopped_again: one of its processes was stopped
    fg_pgrp,    \* foreground process group of the terminal
    proc,       \* state of each child: free, running, stopped, zombie
    pgid,       \* process group of each child, the shell's if free
    tstp,       \* children with SIGTSTP pending
    recycled    \* free pids, the one given out next at the end

vars == <<pc, commands, jobs, waiting, job, stop_seen, fg_pgrp, proc, pgid, tstp, recycled>>
table == <<jobs, waiting, job, stop_seen>>
children == <<proc, pgid, tstp, recycled>>

NoJob == [index |-> 0, pgid |-> shell_pgrp, pids |-> <<>>]

Init ==
    /\ pc = "prompt" /\ commands = 0 /\ jobs = <<>> /\ waiting = <<>>
    /\ job = NoJob /\ stop_seen = FALSE /\ fg_pgrp = shell_pgrp
    /\ proc = [p \in Pids |-> "free"] /\ pgid = [p \in Pids |-> shell_pgrp]
    /\ tstp = {}
    /\ recycled = [k \in 1 .. LastPid - FirstPid + 1 |-> LastPid + 1 - k]
-----------------------------------------------------------------------------
(* waitpid takes the zombies among pids, in order: each pid is free again. *)
Reaped(pids) == SelectSeq(pids, LAMBDA p : proc[p] = "zombie")
Reap(pids) ==
    /\ proc' = [p \in Pids |-> IF p \in ToSet(Reaped(pids)) THEN "free" ELSE proc[p]]
    /\ pgid' = [p \in Pids |-> IF p \in ToSet(Reaped(pids)) THEN shell_pgrp ELSE pgid[p]]
    /\ recycled' = recycled \o Reaped(pids)
    /\ UNCHANGED tstp

(* reap_jobs: forget the pids that waitpid reaps or does not know, and     *)
(* then the jobs with none left.                                           *)
reap_jobs ==
    LET Left(j) == [j EXCEPT !.pids = SelectSeq(@, LAMBDA p : proc[p] \in {"running", "stopped"})]
        all == FoldLeft(LAMBDA acc, j : acc \o SelectSeq(j.pids, LAMBDA p : p \notin ToSet(acc)),
                        <<>>, jobs)
    IN  /\ Reap(all)
        /\ jobs' = SelectSeq([k \in DOMAIN jobs |-> Left(jobs[k])], LAMBDA j : j.pids # <<>>)

(* main: reap the jobs, then read and parse the next line. *)
ReadLine(n) ==
    /\ pc = "prompt"
    /\ reap_jobs
    /\ pc' = "command" /\ commands' = n
    /\ UNCHANGED <<waiting, job, stop_seen, fg_pgrp>>

(* The command is done; && and || may skip the ones after it. *)
CommandDone == \E n \in 0 .. commands - 1 :
                  commands' = n /\ pc' = IF n = 0 THEN "prompt" ELSE "command"

(* run_pipeline: fork the stages into one process group.  In the           *)
(* background it becomes a job, else it is to get the terminal.            *)
run_pipeline(n, background) ==
    LET pids == Reverse(SubSeq(recycled, Len(recycled) - n + 1, Len(recycled)))
        group == pids[1]
    IN  /\ pc = "command" /\ n <= Len(recycled) /\ Len(jobs) < MaxJobs
        /\ recycled' = SubSeq(recycled, 1, Len(recycled) - n)
        /\ proc' = [p \in Pids |-> IF p \in ToSet(pids) THEN "running" ELSE proc[p]]
        /\ pgid' = [p \in Pids |-> IF p \in ToSet(pids) THEN group ELSE pgid[p]]
        /\ \/ /\ background
              /\ jobs' = Append(jobs, [pgid |-> group, pids |-> pids, status |-> "Running"])
              /\ CommandDone
              /\ UNCHANGED <<waiting, job, stop_seen, fg_pgrp>>
           \/ /\ ~background
              /\ job' = [index |-> 0, pgid |-> group, pids |-> pids]
              /\ waiting' = pids /\ stop_seen' = FALSE /\ pc' = "launched"
              /\ UNCHANGED <<jobs, commands, fg_pgrp>>
        /\ UNCHANGED tstp

(* tcsetpgrp of run_pipeline and fg, after the stages were forked or       *)
(* continued and may have ended: it fails if the leader of the group has,  *)
(* and the shell, which does not look at the result, keeps the terminal.   *)
tcsetpgrp ==
    /\ pc = "launched"
    /\ fg_pgrp' = IF proc[job.pgid] \in {"running", "stopped"} THEN job.pgid ELSE fg_pgrp
    /\ pc' = "wait"
    /\ UNCHANGED <<commands, table, children>>

(* wait_foreground of the next pid: reaped, gone already (-1), or stopped. *)
wait_foreground ==
    /\ pc = "wait" /\ waiting # <<>> /\ proc[Head(waiting)] # "running"
    /\ waiting' = Tail(waiting)
    /\ stop_seen' = (stop_seen \/ proc[Head(waiting)] = "stopped")
    /\ Reap(<<Head(waiting)>>)
    /\ UNCHANGED <<pc, commands, jobs, job, fg_pgrp>>

(* Slip: a pipeline of which one stage was reaped is forgotten. *)
ForgetsPartlyStopped ==
    /\ pc = "wait" /\ waiting = <<>>
    /\ fg_pgrp' = shell_pgrp
    /\ LET stop == stop_seen /\ \A k \in DOMAIN job.pids : proc[job.pids[k]] = "stopped"
           stopped == [pgid |-> job.pgid, pids |-> job.pids, status |-> "Stopped"]
       IN  jobs' = IF job.index = 0 THEN IF stop THEN Append(jobs, stopped) ELSE jobs
                   ELSE IF stop THEN [jobs EXCEPT ![job.index].status = "Stopped"]
                   ELSE RemoveAt(jobs, job.index)
    /\ job' = NoJob /\ stop_seen' = FALSE /\ CommandDone
    /\ UNCHANGED <<waiting, children>>

(* All pids are dealt with: take the terminal back; a job with a stopped   *)
(* process is registered as stopped, with the pids it started with.        *)
WaitDone ==
    /\ pc = "wait" /\ waiting = <<>>
    /\ fg_pgrp' = shell_pgrp
    /\ LET stopped == [pgid |-> job.pgid, pids |-> job.pids, status |-> "Stopped"]
       IN  jobs' = IF job.index = 0 THEN IF stop_seen THEN Append(jobs, stopped) ELSE jobs
                   ELSE IF stop_seen THEN [jobs EXCEPT ![job.index].status = "Stopped"]
                   ELSE RemoveAt(jobs, job.index)
    /\ job' = NoJob /\ stop_seen' = FALSE /\ CommandDone
    /\ UNCHANGED <<waiting, children>>

Group(g) == {p \in Pids : proc[p] # "free" /\ pgid[p] = g}

(* kill with SIGCONT: those of these processes that are stopped run again. *)
Continue(pids) ==
    /\ proc' = [p \in Pids |-> IF proc[p] = "stopped" /\ p \in pids THEN "running" ELSE proc[p]]
    /\ UNCHANGED <<pgid, tstp, recycled>>

(* fg: continue the job if the table says it is stopped; it is to get the  *)
(* terminal and is awaited.                                                *)
builtin_fg(k) ==
    /\ pc = "command" /\ k \in DOMAIN jobs
    /\ IF jobs[k].status = "Stopped" THEN Continue(Group(jobs[k].pgid)) ELSE UNCHANGED children
    /\ jobs' = [jobs EXCEPT ![k].status = "Running"]
    /\ job' = [index |-> k, pgid |-> jobs[k].pgid, pids |-> jobs[k].pids]
    /\ waiting' = jobs[k].pids /\ stop_seen' = FALSE /\ pc' = "launched"
    /\ UNCHANGED <<commands, fg_pgrp>>

builtin_bg(k) ==
    /\ pc = "command" /\ k \in DOMAIN jobs /\ jobs[k].status = "Stopped"
    /\ Continue(Group(jobs[k].pgid))
    /\ jobs' = [jobs EXCEPT ![k].status = "Running"]
    /\ CommandDone
    /\ UNCHANGED <<waiting, job, stop_seen, fg_pgrp>>

builtin_jobs ==
    /\ pc = "command" /\ reap_jobs /\ CommandDone
    /\ UNCHANGED <<waiting, job, stop_seen, fg_pgrp>>

(* kill to a process or a group, with SIGTSTP or SIGCONT.  One with SIGINT *)
(* needs no step of its own, Exit covers it; a command with no effect on   *)
(* jobs is a kill of nobody.                                               *)
builtin_kill(pids) ==
    /\ pc = "command"
    /\ \/ /\ tstp' = tstp \cup {p \in pids : proc[p] \in {"running", "stopped"}}
          /\ UNCHANGED <<proc, pgid, recycled>>
       \/ Continue(pids)
    /\ CommandDone
    /\ UNCHANGED <<table, fg_pgrp>>

(* Ctrl-Z: SIGTSTP to the foreground group; the shell ignores it. *)
CtrlZ ==
    /\ pc = "wait"
    /\ tstp' = tstp \cup {p \in Group(fg_pgrp) : proc[p] # "zombie"}
    /\ UNCHANGED <<pc, commands, table, fg_pgrp, proc, pgid, recycled>>

(* A child takes its stop signal, or ends (by itself or by a signal).      *)
Stop(p) ==
    /\ proc[p] = "running" /\ p \in tstp
    /\ proc' = [proc EXCEPT ![p] = "stopped"] /\ tstp' = tstp \ {p}
    /\ UNCHANGED <<pc, commands, table, fg_pgrp, pgid, recycled>>

Exit(p) ==
    /\ proc[p] = "running"
    /\ proc' = [proc EXCEPT ![p] = "zombie"] /\ tstp' = tstp \ {p}
    /\ UNCHANGED <<pc, commands, table, fg_pgrp, pgid, recycled>>

Next ==
    \/ \E n \in 1 .. MaxCommands : ReadLine(n)
    \/ \E n \in 1 .. MaxStages, background \in BOOLEAN : run_pipeline(n, background)
    \/ tcsetpgrp \/ wait_foreground \/ WaitDone \/ builtin_jobs \/ CtrlZ
    \/ \E k \in DOMAIN jobs : builtin_fg(k) \/ builtin_bg(k)
    \/ \E p \in Pids : builtin_kill({p}) \/ builtin_kill(Group(p)) \/ Stop(p) \/ Exit(p)

Spec == Init /\ [][Next]_vars
-----------------------------------------------------------------------------
Listed == UNION {ToSet(jobs[k].pids) : k \in DOMAIN jobs} \cup ToSet(job.pids)

(* No child is forgotten: one that has not been reaped is in the job table *)
(* or in the pipeline being waited for, however many of its pipeline were  *)
(* reaped or stopped before, so that some later waitpid reaps it.          *)
NoChildForgotten == \A p \in Pids : proc[p] # "free" => p \in Listed

(* When the shell reads a line or executes a command the terminal is its   *)
(* own again.  While it waits the terminal is the job's, whatever becomes  *)
(* of the leader from then on; only if the leader ended before it was      *)
(* given the terminal, the shell still has it.                             *)
TerminalFollowsJob ==
    \/ fg_pgrp = shell_pgrp /\ (pc = "wait" => proc[job.pgid] \in {"zombie", "free"})
    \/ fg_pgrp = job.pgid /\ pc = "wait"

(* Where a line holds one command, the pids of a job are its own: a pid    *)
(* left behind in a stopped job has gone by the time it is given out       *)
(* again, so that no job waits for or reaps another one's process.         *)
PidsAreOwn ==
    MaxCommands = 1 =>
        \A k \in DOMAIN jobs, p \in Pids :
            p \in ToSet(jobs[k].pids) /\ proc[p] # "free" => pgid[p] = jobs[k].pgid
=============================================================================
