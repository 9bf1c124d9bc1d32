---------------------------- MODULE MCProcesses ----------------------------
(***************************************************************************)
(* Threads, ProcessTree, JobControl, Shell and LineEditor for TLC.  A      *)
(* behaviour is about one of: the threads of a process, the tree of        *)
(* processes, a job that may have two threads, two jobs of one thread      *)
(* each, the shell with lines of one command or of up to two, or its line  *)
(* editor.                                                                 *)
(***************************************************************************)
EXTENDS Threads, ProcessTree, TLC

CONSTANTS sh, j1, j2, None

VARIABLES component,
          job_state, task, pgid, signals, sig_ignored, stopped, fg_pgrp,
          pc, commands, jobs, waiting, job, stop_seen, tty_pgrp, proc, group, tstp, recycled,
          buf, cursor, history, hist_idx

jobVars == <<job_state, task, pgid, signals, sig_ignored, stopped, fg_pgrp>>
shellVars == <<pc, commands, jobs, waiting, job, stop_seen, tty_pgrp, proc, group, tstp, recycled>>
editVars == <<buf, cursor, history, hist_idx>>

Signal == {{"SIGINT"}, {"SIGTSTP"}, {"SIGCONT"}}
Key == {{"SIGINT"}, {"SIGTSTP"}}

Job == INSTANCE JobControl WITH Shell <- sh, Jobs <- {j1}, pid <- (sh :> 2 @@ j1 :> 3),
        Two <- {j1}, MayExec <- TRUE, state <- job_state,
        Flags <- Signal \cup {{"SIGTSTP", "SIGCONT"}}, Keys <- Key

(* The keyboard raises, and sigaction changes, SIGTSTP only; kill also     *)
(* sends SIGINT.                                                           *)
Jobs == INSTANCE JobControl WITH Shell <- sh, Jobs <- {j1, j2},
        pid <- (sh :> 2 @@ j1 :> 3 @@ j2 :> 4),
        Two <- {}, MayExec <- TRUE, state <- job_state,
        Flags <- Signal, Keys <- {{"SIGTSTP"}}

OneCommand == INSTANCE Shell WITH shell_pgrp <- 2, FirstPid <- 3, LastPid <- 5,
        MaxStages <- 2, MaxJobs <- 2, MaxCommands <- 1, fg_pgrp <- tty_pgrp, pgid <- group

TwoCommands == INSTANCE Shell WITH shell_pgrp <- 2, FirstPid <- 3, LastPid <- 5,
        MaxStages <- 2, MaxJobs <- 2, MaxCommands <- 2, fg_pgrp <- tty_pgrp, pgid <- group

Editor == INSTANCE LineEditor WITH Letters <- {"a", "b"}, Space <- " ",
        app_names <- {<<"a", "b">>, <<"b">>}, MAX_HISTORY <- 2, MaxLen <- 3

ASSUME /\ Job!JobControlConstants /\ Jobs!JobControlConstants
       /\ OneCommand!ShellConstants /\ TwoCommands!ShellConstants
       /\ Editor!LineEditorConstants

MCInit ==
    /\ ThreadsInit /\ TreeInit /\ OneCommand!Init /\ Editor!Init
    /\ \/ component \in {"threads", "tree", "job", "shell", "shell2", "editor"} /\ Job!Init
       \/ component = "jobs" /\ Jobs!Init

MCNext ==
    /\ \/ /\ component = "threads" /\ ThreadsNext
          /\ UNCHANGED <<treeVars, jobVars, shellVars, editVars>>
       \/ /\ component = "tree" /\ TreeNext
          /\ UNCHANGED <<threadVars, jobVars, shellVars, editVars>>
       \/ /\ \/ component = "job" /\ Job!Next
             \/ component = "jobs" /\ Jobs!Next
          /\ UNCHANGED <<threadVars, treeVars, shellVars, editVars>>
       \/ /\ \/ component = "shell" /\ OneCommand!Next
             \/ component = "shell2" /\ TwoCommands!Next
          /\ UNCHANGED <<threadVars, treeVars, jobVars, editVars>>
       \/ /\ component = "editor" /\ Editor!Next
          /\ UNCHANGED <<threadVars, treeVars, jobVars, shellVars>>
    /\ UNCHANGED component

MCSpec == MCInit /\ [][MCNext]_<<component, threadVars, treeVars, jobVars, shellVars, editVars>>
-----------------------------------------------------------------------------
(* No stopped thread is out of reach of SIGCONT: continue_process returns  *)
(* early for a process that is not marked as stopped.  A process with one  *)
(* thread that waitpid reports as stopped neither runs nor has ended.  And *)
(* the shell, which ignores what the keyboard raises, is neither killed    *)
(* nor stopped while the jobs it starts come and go.                       *)
StopMarksAgree ==
    /\ component = "job" => Job!StopMarksAgree
    /\ component = "jobs" => Jobs!StopMarksAgree

(* The shell keeps track of its children: one that has not been reaped is  *)
(* in the job table or in the pipeline being waited for; the terminal is   *)
(* the job's while the shell waits for it, unless the leader ended before  *)
(* it got the terminal, and the shell's otherwise; and where a line holds  *)
(* one command no job waits for another one's process.                     *)
JobsKept ==
    /\ component \in {"shell", "shell2"} =>
          OneCommand!NoChildForgotten /\ OneCommand!TerminalFollowsJob
    /\ component = "shell" => OneCommand!PidsAreOwn

(* Whatever keys come, no index of the line editor is out of range, and a  *)
(* key changes the line at the cursor only, unless it replaces all of it.  *)
EditorSound == []Editor!IndicesInRange /\ Editor!EditsAtCursor
=============================================================================
