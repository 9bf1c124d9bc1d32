-------------------------------- MODULE Tty --------------------------------
(***************************************************************************)
(* The terminal (os/src/tty/mod.rs): the line discipline fed by the UART   *)
(* interrupt, the processes that read from it, the foreground process      *)
(* group and the signals of Ctrl-C and Ctrl-Z.                             *)
(*                                                                         *)
(* An interrupt drains a burst of bytes; a turn of the read loop runs with *)
(* interrupts masked.  Each is one step.  Echo is left out.                *)
(***************************************************************************)
EXTENDS Naturals, Sequences, FiniteSets
LOCAL INSTANCE SequencesExt

CONSTANTS Procs, pid, pgrp,  \* numbers, never 0, of a process and its group
          Ignores,           \* the processes that ignore both signals
          Controllers,       \* those that change modes and the foreground group
          Printable,         \* bytes of text
          Wants,             \* bound: the lengths of user buffers
          MaxBurst, MaxTyped \* bounds: bytes in one interrupt, and in all

Control == {"LF", "DEL", "CTRL_C", "CTRL_D", "CTRL_Z"}
InputBytes == Printable \cup Control

TtyConstants ==
    /\ pid \in [Procs -> Nat \ {0}] /\ pgrp \in [Procs -> Nat \ {0}]
    /\ Ignores \subseteq Procs /\ Controllers \subseteq Procs
    /\ Wants \subseteq Nat /\ MaxBurst \in Nat /\ MaxTyped \in Nat
    /\ Printable \cap Control = {}

VARIABLES icanon, isig,                    \* flags
          line, lines, raw_buf, eof,       \* TtyInner
          fg_pgrp,
          wait_queue,                      \* of the condvar
          proc,      \* what a process does: see TtyTypeOK
          want,      \* the room in its buffer while it reads
          signals,   \* pending signals
          typed,     \* the number of bytes so far
          unread,    \* history: what went into lines, and into raw_buf, and
                     \* was not read yet
          misread    \* history: something else than the first of it was read

tty == <<icanon, isig, line, lines, raw_buf, eof, fg_pgrp>>
vars == <<tty, wait_queue, proc, want, signals, typed, unread, misread>>

Init ==
    /\ icanon = TRUE /\ isig = TRUE
    /\ line = << >> /\ lines = << >> /\ raw_buf = << >> /\ eof = FALSE
    /\ fg_pgrp = 0
    /\ wait_queue = << >>
    /\ proc = [p \in Procs |-> "user"]
    /\ want = [p \in Procs |-> 0]
    /\ signals = [p \in Procs |-> {}]
    /\ typed = 0
    /\ unread = [lines |-> << >>, raw |-> << >>] /\ misread = FALSE
-----------------------------------------------------------------------------
(* The line discipline as a record, so that a burst is a fold. *)
Inner == [line |-> line, lines |-> lines, raw_buf |-> raw_buf, eof |-> eof,
          unread |-> unread, signal |-> "none"]

Completed(t) == [t EXCEPT !.lines = Append(@, t.line), !.line = << >>,
                          !.unread.lines = @ \o t.line]

(* ch >= 0x20 *)
Kept(ch) == ch \in Printable

push_byte(t, ch) ==
    CASE isig /\ ch = "CTRL_C" -> [t EXCEPT !.line = << >>, !.signal = "SIGINT"]
      [] isig /\ ch = "CTRL_Z" -> [t EXCEPT !.line = << >>, !.signal = "SIGTSTP"]
      [] ~icanon /\ ~(isig /\ ch \in {"CTRL_C", "CTRL_Z"}) ->
            [t EXCEPT !.raw_buf = Append(@, ch), !.unread.raw = Append(@, ch)]
      [] icanon /\ ch = "LF" -> Completed(t)
      [] icanon /\ ch = "DEL" ->
            IF t.line = << >> THEN t ELSE [t EXCEPT !.line = Front(@)]
      [] icanon /\ ch = "CTRL_D" ->
            IF t.line = << >> THEN [t EXCEPT !.eof = TRUE] ELSE Completed(t)
      [] OTHER -> IF Kept(ch) THEN [t EXCEPT !.line = Append(@, ch)] ELSE t

has_data(t) == t.lines # << >> \/ t.raw_buf # << >> \/ t.eof

(* Slip: whether there is data is asked before the UART is drained. *)
Ready_Before(t) == has_data(Inner)

Ready(t) == has_data(t)

(* signal_process_group, or the current process while there is no          *)
(* foreground group; that one is not asked whether it ignores the signal,  *)
(* and without a current process the kernel panics: there is no step.      *)
signal_fg(sig) ==
    \/ /\ fg_pgrp # 0
       /\ signals' = [p \in Procs |->
             IF pgrp[p] = fg_pgrp /\ p \notin Ignores /\ proc[p] # "dead"
             THEN signals[p] \cup {sig} ELSE signals[p]]
    \/ /\ fg_pgrp = 0
       /\ \E p \in Procs : /\ proc[p] \in {"user", "reading", "tail"}
                           /\ signals' = [signals EXCEPT ![p] = @ \cup {sig}]

Popped(q) == Tail(q)

handle_uart_irq(burst) ==
    LET t == FoldLeft(push_byte, Inner, burst)
        wakes == Ready(t) /\ wait_queue # << >>
    IN  /\ typed + Len(burst) <= MaxTyped
        /\ typed' = typed + Len(burst)
        /\ line' = t.line /\ lines' = t.lines /\ raw_buf' = t.raw_buf /\ eof' = t.eof
        /\ unread' = t.unread
        /\ proc' = IF wakes THEN [proc EXCEPT ![Head(wait_queue)] = "reading"] ELSE proc
        /\ wait_queue' = IF wakes THEN Popped(wait_queue) ELSE wait_queue
        /\ IF t.signal = "none" THEN UNCHANGED signals ELSE signal_fg(t.signal)
        /\ UNCHANGED <<icanon, isig, fg_pgrp, want, misread>>
-----------------------------------------------------------------------------
sys_read(p, n) ==
    /\ proc[p] = "user"
    /\ proc' = [proc EXCEPT ![p] = IF n = 0 THEN "user" ELSE "reading"]
    /\ want' = [want EXCEPT ![p] = n]
    /\ UNCHANGED <<tty, wait_queue, signals, typed, unread, misread>>

Returns(p) ==
    /\ proc' = [proc EXCEPT ![p] = "tail"]
    /\ want' = [want EXCEPT ![p] = 0]
    /\ UNCHANGED wait_queue

Least(m, n) == IF m < n THEN m ELSE n

(* Slip: what does not fit into the buffer goes behind the other lines. *)
Remainder_Back(rest, others) == IF rest = << >> THEN others ELSE Append(others, rest)

Remainder(rest, others) == IF rest = << >> THEN others ELSE <<rest>> \o others

ReadLine(p) ==
    LET first == Head(lines)
        n == Least(Len(first), want[p])
    IN  /\ icanon /\ lines # << >>
        /\ lines' = Remainder(SubSeq(first, n + 1, Len(first)), Tail(lines))
        /\ misread' = (misread \/ ~IsPrefix(SubSeq(first, 1, n), unread.lines))
        /\ unread' = [unread EXCEPT !.lines = SubSeq(@, n + 1, Len(@))]
        /\ Returns(p)
        /\ UNCHANGED <<raw_buf, eof>>

ReadEof(p) ==
    /\ icanon /\ lines = << >> /\ eof
    /\ eof' = FALSE
    /\ Returns(p)
    /\ UNCHANGED <<lines, raw_buf, unread, misread>>

ReadRaw(p) ==
    LET n == Least(Len(raw_buf), want[p]) IN
    /\ ~icanon /\ n > 0
    /\ raw_buf' = SubSeq(raw_buf, n + 1, Len(raw_buf))
    /\ misread' = (misread \/ ~IsPrefix(SubSeq(raw_buf, 1, n), unread.raw))
    /\ unread' = [unread EXCEPT !.raw = SubSeq(@, n + 1, Len(@))]
    /\ Returns(p)
    /\ UNCHANGED <<lines, eof>>

(* Nothing to read: wait_no_sched. *)
Block(p) ==
    /\ IF icanon THEN lines = << >> /\ ~eof ELSE raw_buf = << >>
    /\ proc' = [proc EXCEPT ![p] = "blocked"]
    /\ wait_queue' = Append(wait_queue, p)
    /\ UNCHANGED <<lines, raw_buf, eof, want, unread, misread>>

Background(p) == fg_pgrp # 0 /\ pgrp[p] # fg_pgrp

(* One turn of the loop of Tty::read. *)
ReadTurn(p) ==
    /\ proc[p] = "reading"
    /\ \/ Background(p) /\ Returns(p) /\ UNCHANGED <<lines, raw_buf, eof, unread, misread>>
       \/ ~Background(p) /\ (ReadLine(p) \/ ReadEof(p) \/ ReadRaw(p) \/ Block(p))
    /\ UNCHANGED <<icanon, isig, line, fg_pgrp, signals, typed>>

(* The end of trap_handler: a pending stop is taken first, and a pending   *)
(* SIGINT ends the process.                                                *)
TrapTail(p) ==
    /\ proc[p] = "tail" \/ (proc[p] = "user" /\ signals[p] # {})
    /\ \/ /\ "SIGTSTP" \in signals[p]
          /\ proc' = [proc EXCEPT ![p] = IF p \in Ignores THEN "tail" ELSE "stopped"]
          /\ signals' = [signals EXCEPT ![p] = @ \ {"SIGTSTP"}]
       \/ /\ "SIGTSTP" \notin signals[p]
          /\ proc' = [proc EXCEPT ![p] = IF "SIGINT" \in signals[p] THEN "dead" ELSE "user"]
          /\ UNCHANGED signals
    /\ UNCHANGED <<tty, wait_queue, want, typed, unread, misread>>

(* SIGCONT from some process of the job's shell. *)
Continue(p) ==
    /\ proc[p] = "stopped" /\ \E q \in Procs : proc[q] = "user"
    /\ proc' = [proc EXCEPT ![p] = "tail"]
    /\ UNCHANGED <<tty, wait_queue, want, signals, typed, unread, misread>>

sys_tty_ctl(p) ==
    /\ proc[p] = "user" /\ p \in Controllers
    /\ icanon' \in BOOLEAN /\ isig' \in BOOLEAN
    /\ UNCHANGED <<line, lines, raw_buf, eof, fg_pgrp>>
    /\ UNCHANGED <<wait_queue, proc, want, signals, typed, unread, misread>>

sys_tcsetpgrp(p, g) ==
    /\ proc[p] = "user" /\ p \in Controllers
    /\ \E q \in Procs : pid[q] = g /\ proc[q] # "dead"
    /\ fg_pgrp' = g
    /\ UNCHANGED <<icanon, isig, line, lines, raw_buf, eof>>
    /\ UNCHANGED <<wait_queue, proc, want, signals, typed, unread, misread>>

Bursts == UNION {[1 .. n -> InputBytes] : n \in 1 .. MaxBurst}

Kernel(p) == ReadTurn(p) \/ TrapTail(p)

Next ==
    \/ \E burst \in Bursts : handle_uart_irq(burst)
    \/ \E p \in Procs :
          \/ \E n \in Wants : sys_read(p, n)
          \/ Kernel(p)
          \/ Continue(p)
          \/ sys_tty_ctl(p)
          \/ \E q \in Procs : sys_tcsetpgrp(p, pid[q])

(* A process that can go on in the kernel is not starved; nobody has to    *)
(* type, read or continue a stopped job.                                   *)
Spec == Init /\ [][Next]_vars /\ \A p \in Procs : WF_vars(Kernel(p))
-----------------------------------------------------------------------------
(* Type invariant: what the line discipline holds and where a process is.  *)
TtyTypeOK ==
    /\ icanon \in BOOLEAN /\ isig \in BOOLEAN /\ eof \in BOOLEAN
    /\ line \in Seq(Printable) /\ lines \in Seq(Seq(Printable)) /\ raw_buf \in Seq(InputBytes)
    /\ fg_pgrp \in Nat /\ wait_queue \in Seq(Procs)
    /\ proc \in [Procs -> {"user", "reading", "blocked", "tail", "stopped", "dead"}]
    /\ want \in [Procs -> Nat] /\ typed \in 0 .. MaxTyped
    /\ signals \in [Procs -> SUBSET {"SIGINT", "SIGTSTP"}]

(* What was entered is read once and in the order it was typed, whoever    *)
(* reads, in whatever pieces, and however the mode changes in between.     *)
InputInOrder ==
    ~misread /\ unread.lines = FlattenSeq(lines) /\ unread.raw = raw_buf

Available(p) ==
    /\ ~Background(p)
    /\ IF icanon THEN lines # << >> \/ eof ELSE raw_buf # << >>

(* A reader does not sleep beside input it could take: that each of them   *)
(* always comes back to this is true only if an interrupt brings no more   *)
(* than one reader can take, because it wakes one.                         *)
InputTaken(p) == ~(proc[p] = "blocked" /\ Available(p))

(* Not all sleep beside input that one of them could take. *)
NotAllAsleep == (\E p \in Procs : proc[p] # "blocked") \/ ~\E p \in Procs : Available(p)

(* Ctrl-C ends the foreground job. *)
CtrlCEndsForeground ==
    \A p \in Procs : ("SIGINT" \in signals[p]) ~> (proc[p] \in {"dead", "stopped"})
=============================================================================
