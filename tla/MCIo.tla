-------------------------------- MODULE MCIo --------------------------------
(***************************************************************************)
(* Pipe, Tty and Net for TLC: in a behaviour three processes share a pipe, *)
(* or a shell that ignores the signals and a job in a group of its own use *)
(* the terminal, or they read what is typed key by key in pieces smaller   *)
(* than its lines, or two processes serve two peers on one port.           *)
(***************************************************************************)
EXTENDS Pipe, Net, TLC

CONSTANTS p2, p3, a, b, r1, r2

VARIABLES component,
          icanon, isig, line, lines, raw_buf, tty_eof, fg_pgrp, wait_queue,
          proc, want, signals, typed, unread, misread

ttyVars == <<icanon, isig, line, lines, raw_buf, tty_eof, fg_pgrp, wait_queue,
             proc, want, signals, typed, unread, misread>>
allVars == <<component, vars, ttyVars, netVars>>

Own == [p \in {"shell", "job"} |-> IF p = "shell" THEN 2 ELSE 3]

T == INSTANCE Tty WITH Procs <- {"shell", "job"}, pid <- Own, pgrp <- Own,
        Ignores <- {"shell"}, Controllers <- {"shell", "job"},
        Printable <- {a, b}, Wants <- {0, 1}, MaxBurst <- 2, MaxTyped <- 3,
        eof <- tty_eof

(* Long enough for the rest of a line to meet another line that is not     *)
(* empty; nobody changes the mode or the foreground group.                 *)
L == INSTANCE Tty WITH Procs <- {"shell", "job"}, pid <- Own, pgrp <- Own,
        Ignores <- {"shell"}, Controllers <- {},
        Printable <- {a, b}, Wants <- {1}, MaxBurst <- 1, MaxTyped <- 5,
        eof <- tty_eof

ASSUME T!TtyConstants /\ L!TtyConstants

MCInit == Init /\ T!Init /\ NetInit /\ component \in {"pipe", "tty", "lines", "net"}

MCNext ==
    /\ \/ component = "pipe" /\ Next /\ UNCHANGED <<ttyVars, netVars>>
       \/ component = "tty" /\ T!Next /\ UNCHANGED <<vars, netVars>>
       \/ component = "lines" /\ L!Next /\ UNCHANGED <<vars, netVars>>
       \/ component = "net" /\ NetNext /\ UNCHANGED <<vars, ttyVars>>
    /\ UNCHANGED component

MCSpec == MCInit /\ [][MCNext]_allVars

Symmetry == UNION {Permutations(S) : S \in {{p2, p3}, {a, b}, {r1, r2}}}

(* The terminal alone, with one key and the shell in control. *)
T1 == INSTANCE Tty WITH Procs <- {"shell", "job"}, pid <- Own, pgrp <- Own,
        Ignores <- {"shell"}, Controllers <- {"shell"},
        Printable <- {a}, Wants <- {1}, MaxBurst <- 1, MaxTyped <- 1,
        eof <- tty_eof

KeySpec ==
    /\ MCInit /\ component = "tty"
    /\ [][T1!Next /\ UNCHANGED <<component, vars, netVars>>]_allVars
    /\ \A p \in {"shell", "job"} : WF_allVars(T1!Kernel(p) /\ UNCHANGED <<component, vars, netVars>>)
-----------------------------------------------------------------------------
(* What was typed is read once and in order, whoever reads, in whatever    *)
(* pieces, and however the mode changes in between; the rest of a line     *)
(* that did not fit comes before the lines behind it.                      *)
InputInOrder ==
    /\ component = "tty" => T!TtyTypeOK /\ T!InputInOrder
    /\ component = "lines" => L!TtyTypeOK /\ L!InputInOrder

(* Ctrl-C ends the foreground job. *)
CtrlCEndsForeground == T1!CtrlCEndsForeground
=============================================================================
