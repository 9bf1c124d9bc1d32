----------------------------- MODULE LineEditor -----------------------------
(***************************************************************************)
(* The line editor of the shell (user/src/bin/user_shell.rs): the buffer,  *)
(* the cursor, the history and the position in it, one action per key.     *)
(* Characters are a few model values, Space among them; drawing is left    *)
(* out.  An escape sequence is one key.                                    *)
(***************************************************************************)
EXTENDS Integers, Sequences, FiniteSets, SequencesExt

CONSTANTS
    Letters,        \* characters other than white space
    Space,
    app_names,      \* names for completion, builtins included
    MAX_HISTORY,
    MaxLen,         \* bound on the length of the line
    None

LineEditorConstants == /\ MAX_HISTORY \in Nat \ {0} /\ MaxLen \in Nat
                       /\ Space \notin Letters /\ None \notin Int

VARIABLES
    buf, cursor,    \* the line and the number of characters left of the cursor
    history,        \* lines entered, oldest first
    hist_idx        \* the line of the history shown, or None

vars == <<buf, cursor, history, hist_idx>>

Init == buf = <<>> /\ cursor = 0 /\ history = <<>> /\ hist_idx = None

Before == SubSeq(buf, 1, cursor)
After == SubSeq(buf, cursor + 1, Len(buf))
-----------------------------------------------------------------------------
(* Slip: the cursor stays before the new character. *)
InsertStays(c) ==
    /\ Len(buf) < MaxLen
    /\ buf' = InsertAt(buf, cursor + 1, c)
    /\ UNCHANGED <<cursor, history, hist_idx>>

insert(c) ==
    /\ Len(buf) < MaxLen
    /\ buf' = InsertAt(buf, cursor + 1, c) /\ cursor' = cursor + 1
    /\ UNCHANGED <<history, hist_idx>>

backspace ==
    /\ cursor > 0
    /\ buf' = RemoveAt(buf, cursor) /\ cursor' = cursor - 1
    /\ UNCHANGED <<history, hist_idx>>

delete_char ==
    /\ cursor < Len(buf)
    /\ buf' = RemoveAt(buf, cursor + 1)
    /\ UNCHANGED <<cursor, history, hist_idx>>

(* move_left, move_right, home and end *)
Move(to) ==
    /\ to \in {cursor - 1, cursor + 1, 0, Len(buf)} \cap 0 .. Len(buf)
    /\ cursor' = to
    /\ UNCHANGED <<buf, history, hist_idx>>

(* Where delete_word stops: left of the word, having skipped white space. *)
WordStart ==
    LET end == Max({0} \cup {k \in 1 .. cursor : buf[k] # Space})
    IN  Max({0} \cup {k \in 1 .. end : buf[k] = Space})
delete_word ==
    /\ buf' = SubSeq(buf, 1, WordStart) \o After /\ cursor' = WordStart
    /\ UNCHANGED <<history, hist_idx>>

kill_to_end == buf' = Before /\ UNCHANGED <<cursor, history, hist_idx>>
kill_line == buf' = <<>> /\ cursor' = 0 /\ UNCHANGED <<history, hist_idx>>

(* complete: a prefix that only one name has becomes the name and a space. *)
complete ==
    LET start == Max({0} \cup {k \in 1 .. cursor : buf[k] = Space})
        prefix == SubSeq(buf, start + 1, cursor)
        matches == {n \in app_names : IsPrefix(prefix, n)}
    IN  /\ Cardinality(matches) = 1
        /\ \E name \in matches :
              /\ start + Len(name) + 1 + Len(After) <= MaxLen
              /\ buf' = SubSeq(buf, 1, start) \o name \o <<Space>> \o After
              /\ cursor' = start + Len(name) + 1
        /\ UNCHANGED <<history, hist_idx>>

Show(line) == buf' = line /\ cursor' = Len(line)

history_prev ==
    LET i == IF hist_idx = None THEN Len(history) - 1
             ELSE IF hist_idx = 0 THEN 0 ELSE hist_idx - 1
    IN  /\ history # <<>>
        /\ hist_idx' = i /\ Show(history[i + 1])
        /\ UNCHANGED history

history_next ==
    /\ hist_idx # None
    /\ \/ /\ hist_idx + 1 < Len(history)
          /\ hist_idx' = hist_idx + 1 /\ Show(history[hist_idx + 2])
       \/ /\ hist_idx + 1 >= Len(history)
          /\ hist_idx' = None /\ Show(<<>>)
    /\ UNCHANGED history

(* White space at both ends goes (trim). *)
trim(line) ==
    LET ink == {k \in DOMAIN line : line[k] # Space}
    IN  IF ink = {} THEN <<>>
        ELSE SubSeq(line, CHOOSE k \in ink : \A j \in ink : k <= j, Max(ink))

(* readline returns the line. *)
take_line == buf' = <<>> /\ cursor' = 0 /\ hist_idx' = None

(* Enter: main adds the line, trimmed, to the history (add_history) unless *)
(* it is empty or the last one again.                                      *)
Enter ==
    LET line == trim(buf)
        longer == Append(history, line)
    IN  /\ take_line
        /\ history' = IF line = <<>> \/ (history # <<>> /\ Last(history) = line) THEN history
                      ELSE IF Len(longer) > MAX_HISTORY THEN Tail(longer) ELSE longer

(* The line was "history -c": main clears the history. *)
ClearHistory == take_line /\ history' = <<>>

Next ==
    \/ \E c \in Letters \cup {Space} : insert(c)
    \/ \E to \in 0 .. Len(buf) : Move(to)
    \/ backspace \/ delete_char \/ delete_word \/ kill_to_end \/ kill_line \/ complete
    \/ history_prev \/ history_next \/ Enter \/ ClearHistory

Spec == Init /\ [][Next]_vars
-----------------------------------------------------------------------------
(* Whatever keys come, and however the history is cut or cleared between   *)
(* two lines, no index of the editor is out of range: the cursor is in the *)
(* line and the position shown is in the history.                          *)
IndicesInRange ==
    /\ cursor \in 0 .. Len(buf)
    /\ hist_idx # None => hist_idx \in 0 .. Len(history) - 1
    /\ Len(history) <= MAX_HISTORY

(* Keys work at the cursor: what is right of it stays, or loses its first  *)
(* characters, unless the whole line is replaced; only delete_char and     *)
(* kill_to_end touch it, and a move changes no character.                  *)
EditsAtCursor ==
    [][\/ buf' = buf
       \/ Show(<<>>) \/ \E k \in DOMAIN history : Show(history[k])
       \/ Before' = Before /\ \E k \in 1 .. Len(After) : After' = SubSeq(After, k + 1, Len(After))
       \/ After' = After]_vars
=============================================================================
