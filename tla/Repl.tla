--------------------------------- MODULE Repl ---------------------------------
(***************************************************************************)
(* The line editor of the interactive shell (lib/repl.js): the line, the   *)
(* cursor, kills and yanks, the history, and the terminal the line is      *)
(* shown on.  One step handles one key: handle_key runs the command,       *)
(* clamps the cursor and calls update().                                   *)
(*                                                                         *)
(* Text is a sequence of UTF-16 units of four kinds: letters of words,     *)
(* other characters, and the two halves of a surrogate pair.  Positions    *)
(* count units from 0 as in the code.  A character takes one column.       *)
(***************************************************************************)
EXTENDS Integers, Sequences, FiniteSets, FiniteSetsExt, SequencesExt

CONSTANTS Width,       \* term_width
          Prompt,      \* the length of ps1 and what is before it
          Prompt2,     \* the length of the prompt of a continued expression
          Typed,       \* the characters that are typed
          Completed,   \* what completion may insert
          MaxLine,     \* a bound on units in a line
          MaxUnits,    \* a bound on units in line, clipboard and lines of history
          MaxHistory   \* a bound on lines in the history

Word == {"a"}
NonWord == {".", "hi", "lo"}
Unit == Word \cup NonWord

ASSUME WidthAssumption ==
  /\ Width \in Nat /\ Width >= 2
  /\ Typed \subseteq {<< "a" >>, << "." >>, << "hi", "lo" >>}
  /\ Completed \subseteq Seq({"a", "."})
  /\ Prompt \in Nat \ {0} /\ Prompt2 \in Nat \ {0}

VARIABLES cmd, cursor_pos,        \* the line and the position in it
          clip_board,             \* what has been killed
          history, history_index, \* lines, and the one being looked at
          last_fun,               \* the command before this one
          quote_flag,             \* the next key is inserted as it is
          mexpr,                  \* an expression is being continued
          term,                   \* the terminal, see below
          reading,                \* FALSE: the program has exited
          before                  \* the line before the kills in a row, in two at
                                  \* the cursor (history)

text == <<cmd, cursor_pos, clip_board, before>>
lines == <<history, history_index>>
vars == <<text, lines, last_fun, quote_flag, mexpr, term, reading>>

\* the commands that are compared with, and all others
Funs == {"kill_region", "control_c", "completion", "other"}

NoLine == << >>

TypeOK ==
  /\ cmd \in Seq(Unit) /\ cursor_pos \in 0..Len(cmd)
  /\ clip_board \in Seq(Unit)
  /\ history \in Seq(Seq(Unit)) /\ history_index \in 0..Len(history)
  /\ last_fun \in Funs
  /\ quote_flag \in BOOLEAN /\ mexpr \in BOOLEAN /\ reading \in BOOLEAN
  /\ term.x \in 0..(Width - 1) /\ term.last = cmd /\ term.lastpos = cursor_pos

----------------------------------------------------------------------------
(* Text.                                                                   *)

\* substring, which takes positions outside of the text for its ends
Sub(s, i, j) == SubSeq(s, Max({i, 0}) + 1, Min({j, Len(s)}))

\* trailing surrogates are not counted
ucs_length(s) == Cardinality({i \in 1..Len(s) : s[i] # "lo"})

\* the first position from p on where no unit of the kinds comes
Over(s, p, kinds) == Min({q \in p..Max({p, Len(s)}) : q >= Len(s) \/ s[q + 1] \notin kinds})

\* the last position up to p that no unit of the kinds comes before
Back(s, p, kinds) == Max({q \in 0..p : q = 0 \/ s[q] \notin kinds})

skip_word_forward(s, p) == Over(s, Over(s, p, NonWord), Word)

skip_word_backward(s, p) == Back(s, Back(s, p, NonWord), Word)

\* backwards over trailing surrogates, before the line if it begins with one
Lead(s, p) == Max({q \in -1..p : q < 0 \/ q >= Len(s) \/ s[q + 1] # "lo"})

Inserted(s, p, t) == Sub(s, 0, p) \o t \o Sub(s, p, Len(s))

----------------------------------------------------------------------------
(* The terminal.  It counts cells from the first column of the row the     *)
(* prompt begins in; printing in the last column leaves the cursor there   *)
(* until the next character (pending).  x, last and lastpos are            *)
(* term_cursor_x, last_cmd and last_cursor_pos.                            *)

Puts(t, n) == IF n = 0 THEN t
              ELSE [t EXCEPT !.at = @ + n, !.pending = (t.at + n) % Width = 0]

Row(t) == IF t.pending THEN t.at \div Width - 1 ELSE t.at \div Width

Column(t) == IF t.pending THEN Width - 1 ELSE t.at % Width

Place(t, row, col) == [t EXCEPT !.at = row * Width + col, !.pending = FALSE]

StepRight(t) ==
  IF t.x = Width - 1 THEN [Place(t, Row(t) + 1, 0) EXCEPT !.x = 0]
  ELSE [Place(t, Row(t), Min({Column(t) + 1, Width - 1})) EXCEPT !.x = @ + 1]

StepLeft(t) ==
  IF t.x = 0 THEN [Place(t, Row(t) - 1, Width - 1) EXCEPT !.x = Width - 1]
  ELSE [Place(t, Row(t), Max({Column(t) - 1, 0})) EXCEPT !.x = @ - 1]

\* move_cursor; escape sequences for several columns are as many steps
move_cursor(t, delta) ==
  LET n == IF delta > 0 THEN delta ELSE -delta
      moved[k \in 0..n] ==
        IF k = 0 THEN t
        ELSE IF delta > 0 THEN StepRight(moved[k - 1]) ELSE StepLeft(moved[k - 1])
  IN  moved[n]

\* A mutant: the cursor is left in the margin.
PrintedPending(t, s) ==
  LET n == ucs_length(s)
  IN  [Puts(t, n) EXCEPT !.x = (t.x + n) % Width, !.last = s, !.lastpos = Len(s)]

\* the line is printed, and a blank and a backspace if it ends at the margin
Printed(t, s) ==
  LET n == ucs_length(s)
      p == [Puts(t, n) EXCEPT !.x = (t.x + n) % Width, !.last = s, !.lastpos = Len(s)]
  IN  IF p.x # 0 THEN p
      ELSE LET b == Puts(p, 1) IN Place(b, Row(b), Column(b) - 1)

\* update() of the line s with the cursor at p
update(t, s, p) ==
  LET shown == IF s = t.last THEN t
               ELSE Printed(move_cursor(t, -ucs_length(Sub(t.last, 0, t.lastpos))), s)
      delta == IF p > shown.lastpos THEN ucs_length(Sub(s, shown.lastpos, p))
               ELSE -ucs_length(Sub(s, p, shown.lastpos))
  IN  [move_cursor(shown, delta) EXCEPT !.lastpos = p]

\* readline_print_prompt where the terminal is now
print_prompt(t, more) ==
  LET n == IF more THEN Prompt2 ELSE Prompt
  IN  [Puts(t, n) EXCEPT !.x = n % Width, !.last = << >>, !.lastpos = 0]

\* after lines of output, and in the same line
NewLine == [x |-> 0, last |-> << >>, lastpos |-> 0, at |-> 0, pending |-> FALSE, origin |-> 0]

SameLine == [NewLine EXCEPT !.at = Column(term), !.origin = Column(term)]

----------------------------------------------------------------------------
(* Keys.                                                                   *)

Units(ss) == FoldLeft(LAMBDA n, s : n + Len(s), 0, ss)

\* a line in the history counts one more than its units
Bounded ==
  /\ Len(cmd') <= MaxLine /\ Len(history') <= MaxHistory
  /\ Units(history' \o << cmd', clip_board' >>) + Len(history') <= MaxUnits

\* readline_start; the blanks that indent a continued expression are left out,
\* as typing them does the same
readline_start(t, more) ==
  /\ cmd' = << >> /\ cursor_pos' = 0
  /\ mexpr' = more
  /\ term' = update(print_prompt(t, more), << >>, 0)

Init ==
  /\ cmd = << >> /\ cursor_pos = 0 /\ clip_board = << >>
  /\ history = << >> /\ history_index = 0
  /\ last_fun = "other" /\ quote_flag = FALSE
  /\ mexpr = FALSE
  /\ term = update(print_prompt(NewLine, FALSE), << >>, 0)
  /\ reading = TRUE
  /\ before = NoLine

Clamped(p, s) == IF p < 0 THEN 0 ELSE IF p > Len(s) THEN Len(s) ELSE p

\* the end of handle_key: the line is now s and the cursor at p
Settle(s, p) ==
  /\ cmd' = s /\ cursor_pos' = Clamped(p, s)
  /\ term' = update(term, s, Clamped(p, s))

\* a command that changes no more than the line and the cursor
Edit(fun, s, p) ==
  /\ reading /\ ~quote_flag
  /\ last_fun' = fun
  /\ Settle(s, p)
  /\ before' = NoLine
  /\ UNCHANGED <<clip_board, lines, quote_flag, mexpr, reading>>
  /\ Bounded

Move(p) == Edit("other", cmd, p)

Motions ==
  \/ Move(0)
  \/ Move(Len(cmd))
  \/ cursor_pos < Len(cmd) /\ Move(Over(cmd, cursor_pos + 1, {"lo"}))
  \/ cursor_pos > 0 /\ Move(Lead(cmd, cursor_pos - 1))
  \/ Move(skip_word_forward(cmd, cursor_pos))
  \/ Move(skip_word_backward(cmd, cursor_pos))

\* a character that no command is bound to
Type == \E t \in Typed : Edit("other", Inserted(cmd, cursor_pos, t), cursor_pos + Len(t))

yank == Edit("other", Inserted(cmd, cursor_pos, clip_board), cursor_pos + Len(clip_board))

\* ^X
reset == Edit("other", << >>, 0)

transpose_chars ==
  LET p == IF cursor_pos = Len(cmd) THEN cursor_pos - 1 ELSE cursor_pos
  IN  /\ Len(cmd) > 1 /\ cursor_pos > 0
      /\ Edit("other",
              Sub(cmd, 0, p - 1) \o << cmd[p + 1], cmd[p] >> \o Sub(cmd, p + 1, Len(cmd)),
              p + 1)

transpose_words ==
  LET p1 == skip_word_backward(cmd, cursor_pos)
      p2 == skip_word_forward(cmd, p1)
      p4 == skip_word_forward(cmd, cursor_pos)
      p3 == skip_word_backward(cmd, p4)
  IN  /\ p1 < p2 /\ p2 <= cursor_pos /\ cursor_pos <= p3 /\ p3 < p4
      /\ Edit("other",
              Sub(cmd, 0, p1) \o Sub(cmd, p3, p4) \o Sub(cmd, p2, p3) \o Sub(cmd, p1, p2), p4)

\* upcase_word, downcase_word, alert and the commands whose conditions fail:
\* the kinds of units stay as they are
Idle == Move(cursor_pos)

\* ^Q, and the key after it, which leaves last_fun alone
quoted_insert ==
  /\ reading /\ ~quote_flag
  /\ quote_flag' = TRUE /\ last_fun' = "other"
  /\ before' = NoLine
  /\ UNCHANGED <<cmd, cursor_pos, clip_board, lines, mexpr, term, reading>>

Quoted ==
  /\ reading /\ quote_flag
  /\ quote_flag' = FALSE
  /\ \/ \E t \in Typed : Settle(Inserted(cmd, cursor_pos, t), cursor_pos + Len(t))
     \/ Settle(cmd, cursor_pos)  \* an escape sequence
  /\ UNCHANGED <<clip_board, before, lines, last_fun, mexpr, reading>>
  /\ Bounded

----------------------------------------------------------------------------
(* Kills.                                                                  *)

Killing == last_fun = "kill_region"

\* A mutant: what is killed backwards goes behind what was killed before.
CollectedBehind(s, dir) == IF Killing THEN clip_board \o s ELSE s

\* what goes to the clipboard
Collected(s, dir) ==
  IF ~Killing THEN s ELSE IF dir < 0 THEN s \o clip_board ELSE clip_board \o s

kill_region(start, end, dir) ==
  LET p == IF cursor_pos > end THEN cursor_pos - (end - start)
           ELSE IF cursor_pos > start THEN start ELSE cursor_pos
  IN  /\ reading /\ ~quote_flag
      /\ clip_board' = Collected(Sub(cmd, start, end), dir)
      /\ last_fun' = "kill_region"
      /\ Settle(Sub(cmd, 0, start) \o Sub(cmd, end, Len(cmd)), p)
      /\ before' = IF Killing THEN before
                    ELSE << Sub(cmd, 0, cursor_pos), Sub(cmd, cursor_pos, Len(cmd)) >>
      /\ UNCHANGED <<lines, quote_flag, mexpr, reading>>
      /\ Bounded

Kills ==
  \/ kill_region(cursor_pos, Len(cmd), 1)
  \/ kill_region(0, cursor_pos, -1)
  \/ kill_region(cursor_pos, skip_word_forward(cmd, cursor_pos), 1)
  \/ kill_region(skip_word_backward(cmd, cursor_pos), cursor_pos, -1)

\* A mutant: one unit is deleted.
CharEndUnit(start) == start + 1

\* the end of the character that begins at start
CharEnd(start) == Over(cmd, start + 1, {"lo"})

\* delete_char, backward_delete_char, and control_d in a line that is not
\* empty: after a kill they kill too
delete_char_dir(dir) ==
  LET start == IF dir < 0 THEN Lead(cmd, cursor_pos - 1) ELSE cursor_pos
      end   == CharEnd(start)
  IN  /\ start >= 0 /\ start < Len(cmd)
      /\ IF Killing THEN kill_region(start, end, dir)
         ELSE Edit("other", Sub(cmd, 0, start) \o Sub(cmd, end, Len(cmd)), start)

----------------------------------------------------------------------------
(* History.                                                                *)

\* the line looked at is now the one at index i
Recall(lns, i, p) ==
  /\ reading /\ ~quote_flag
  /\ history' = lns /\ history_index' = i
  /\ last_fun' = "other"
  /\ Settle(lns[i + 1], p)
  /\ before' = NoLine
  /\ UNCHANGED <<clip_board, quote_flag, mexpr, reading>>
  /\ Bounded

\* the line being edited is added to the history, to come back to
previous_history ==
  LET lns == IF history_index = Len(history) THEN Append(history, cmd) ELSE history
  IN  /\ history_index > 0
      /\ Recall(lns, history_index - 1, Len(lns[history_index]))

next_history ==
  /\ history_index < Len(history) - 1
  /\ Recall(history, history_index + 1, Len(history[history_index + 2]))

\* the nearest other line in the direction that begins as this one does up to
\* the cursor
history_search(dir) ==
  LET Index(i) == (Len(history) + i * dir + history_index) % Len(history)
      found == {i \in 1..Len(history) :
                  Sub(history[Index(i) + 1], 0, cursor_pos) = Sub(cmd, 0, cursor_pos)}
  IN  found # {} /\ Recall(history, Index(Min(found)), cursor_pos)

----------------------------------------------------------------------------
(* Keys that end a line, or print.                                         *)

\* handle_cmd: the line is passed over, or run or found incomplete, and a
\* prompt is shown for the next; what it prints is whole lines
handle_cmd ==
  \/ readline_start(NewLine, mexpr)
  \/ cmd # << >> /\ \E more \in BOOLEAN : readline_start(NewLine, more)

accept_line ==
  /\ reading /\ ~quote_flag
  /\ history' = IF cmd = << >> THEN history ELSE Append(history, cmd)
  /\ history_index' = Len(history')
  /\ handle_cmd
  /\ before' = NoLine
  /\ UNCHANGED <<clip_board, last_fun, quote_flag, reading>>
  /\ Bounded

\* ^G: the line is dropped and the prompt printed where the cursor is
abort ==
  /\ reading /\ ~quote_flag
  /\ readline_start(SameLine, mexpr)
  /\ history_index' = Len(history)
  /\ before' = NoLine
  /\ UNCHANGED <<clip_board, history, last_fun, quote_flag, reading>>
  /\ Bounded

\* the prompt and the line again, after lines of output
Reprint(fun, s, p) ==
  /\ cmd' = s /\ cursor_pos' = p
  /\ last_fun' = fun
  /\ term' = update(print_prompt(NewLine, mexpr), s, p)
  /\ before' = NoLine
  /\ UNCHANGED <<clip_board, lines, quote_flag, mexpr, reading>>
  /\ Bounded

\* ^C: a warning, and the second time the end
control_c ==
  /\ reading /\ ~quote_flag
  /\ IF last_fun = "control_c"
     THEN reading' = FALSE /\ UNCHANGED <<text, lines, last_fun, quote_flag, mexpr, term>>
     ELSE Reprint("control_c", cmd, cursor_pos)

\* ^D in an empty line
control_d ==
  /\ reading /\ ~quote_flag /\ cmd = << >>
  /\ reading' = FALSE
  /\ UNCHANGED <<text, lines, last_fun, quote_flag, mexpr, term>>

\* the letters all completions share are inserted, and the second time the
\* completions are listed if there are several
completion ==
  /\ reading /\ ~quote_flag
  /\ \E t \in Completed :
       LET s == Inserted(cmd, cursor_pos, t)
           p == cursor_pos + Len(t)
       IN  \/ Edit("completion", s, p)
           \/ last_fun = "completion" /\ Reprint("completion", s, p)

Next ==
  \/ Motions \/ Type \/ yank \/ reset \/ Idle \/ transpose_chars \/ transpose_words
  \/ quoted_insert \/ Quoted
  \/ Kills \/ (\E dir \in {-1, 1} : delete_char_dir(dir))
  \/ previous_history \/ next_history \/ (\E dir \in {-1, 1} : history_search(dir))
  \/ accept_line \/ abort \/ control_c \/ control_d \/ completion

Spec == Init /\ [][Next]_vars

----------------------------------------------------------------------------
(* Properties.                                                             *)

Whole(s) == \A i \in 1..Len(s) : /\ s[i] = "hi" => i < Len(s) /\ s[i + 1] = "lo"
                                 /\ s[i] = "lo" => i > 1 /\ s[i - 1] = "hi"

AllWhole ==
  /\ Whole(cmd) /\ Whole(clip_board) /\ Whole(Sub(cmd, 0, cursor_pos))
  /\ \A i \in 1..Len(history) : Whole(history[i])

\* No key but transpose_chars takes a character of two units apart, or leaves
\* the cursor inside one, whatever line the history or the clipboard supplies.
CharactersWhole ==
  [][AllWhole => AllWhole' \/ transpose_chars]_vars

\* However kills and deletions of both directions follow each other in a line,
\* a yank right after them gives back the line as it was before the first, if
\* no character was taken apart in it and the cursor did not stand inside one.
YankUndoesKills ==
  Killing /\ before # NoLine /\ Whole(before[1]) /\ Whole(before[2]) =>
    Inserted(cmd, cursor_pos, clip_board) = before[1] \o before[2]

\* The terminal's cursor is where the line is edited, over wraps at the margin
\* and any change of the line, and term_cursor_x is its column: when the prompt
\* began in the first column.
CursorShown ==
  term.origin = 0 =>
    /\ term.at = (IF mexpr THEN Prompt2 ELSE Prompt) + ucs_length(Sub(cmd, 0, cursor_pos))
    /\ term.x = term.at % Width
    /\ term.pending => cmd = << >>
=============================================================================
