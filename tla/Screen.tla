------------------------------- MODULE Screen -------------------------------
(***************************************************************************)
(* The screen of one pane: the VT parser's grid, its dirty rows and its    *)
(* alternate buffer (nexterm-vt/src/screen.rs and performer.rs), what the  *)
(* PTY reader makes of it after every burst of output, latest_grid and the *)
(* scrollback mirror (nexterm-server/src/pane.rs), and the scrollback a    *)
(* graphical client keeps of the diffs it gets (scrollback.rs and          *)
(* state/pane.rs of nexterm-client-gpu).                                   *)
(*                                                                         *)
(* The parser is never resized: its grid keeps the size the pane was       *)
(* started with.  A cell is a character; colours, attributes, marks and    *)
(* images are left out.  A diff reaches the client at once: Delivery is    *)
(* about the ways it does not.                                             *)
(***************************************************************************)
EXTENDS Integers, Sequences, FiniteSets, SequencesExt

CONSTANTS
  Height, Width,    \* the size of the grid
  Char,             \* the characters a program prints
  ScrollbackLimit,  \* the lines the scrollback mirror keeps
  Capacities,       \* the values of scrollback_lines in the client's configuration
  MaxOps            \* bound on the characters and sequences parsed

Blank == "blank"

\* A grid one column wide is left out (a character then may scroll twice), and
\* so is a capacity of 0, with which the first push_line divides by 0.
ASSUME ScreenAssumption ==
  /\ Height \in Nat \ {0} /\ Width \in Nat \ {0, 1} /\ MaxOps \in Nat
  /\ ScrollbackLimit \in Nat /\ Capacities \subseteq Nat \ {0}
  /\ Blank \notin Char

VARIABLES
  scr,         \* the parser's screen
  mirror,      \* latest_grid: rows and cursor
  scrollback,  \* latest_scrollback, the oldest line first
  ring,        \* the client's Scrollback
  parsed,      \* has the reader something parsed that it has not looked at?
  ops,         \* the number of characters and sequences parsed
  gone,        \* history: the lines that left the top of the primary screen
  spilled      \* history: did one of them leave a region that ends above the bottom?

history == <<gone, spilled>>
reader == <<mirror, scrollback, ring>>
vars   == <<scr, reader, parsed, ops, history>>

RowId == 0 .. Height - 1
ColId == 0 .. Width - 1
Cell  == Char \cup {Blank}
Line  == [ColId -> Cell]

BlankRow  == [c \in ColId |-> Blank]
BlankGrid == [r \in RowId |-> BlankRow]
Bounded(n, max) == IF n <= max THEN n ELSE max

\* Screen::new.  saved holds the primary buffer while the alternate one is shown.
NewScreen ==
  [rows |-> BlankGrid, dirty |-> {}, col |-> 0, row |-> 0,
   top |-> 0, bottom |-> Height - 1, saved |-> <<>>, off |-> <<>>, sync |-> FALSE]

Alternate(s) == s.saved # <<>>

NewRing(n) == [capacity |-> n, lines |-> <<>>, head |-> 0, len |-> 0]

Init ==
  /\ scr = NewScreen
  /\ mirror = [rows |-> BlankGrid, col |-> 0, row |-> 0]
  /\ scrollback = <<>>
  /\ \E n \in Capacities : ring = NewRing(n)
  /\ parsed = FALSE
  /\ ops = 0
  /\ gone = <<>>
  /\ spilled = FALSE

-----------------------------------------------------------------------------
(***************************************************************************)
(* The operations of the screen.                                           *)
(***************************************************************************)

Marked(s, rs) == [s EXCEPT !.dirty = @ \cup rs]

\* The rows of the region move up; a region may be upside down.
Scrolled(s) ==
  [r \in RowId |-> IF r = s.bottom THEN BlankRow
                   ELSE IF r \in s.top .. s.bottom - 1 THEN s.rows[r + 1]
                   ELSE s.rows[r]]

\* Mutant of scroll_up: the alternate screen feeds the scrollback too.
scroll_up_alternate(s) ==
  Marked([s EXCEPT !.rows = Scrolled(s),
                   !.off = IF s.top = 0 THEN Append(@, s.rows[0]) ELSE @],
         (s.top .. s.bottom) \cup {s.bottom})

scroll_up(s) ==
  Marked([s EXCEPT !.rows = Scrolled(s),
                   !.off = IF ~ Alternate(s) /\ s.top = 0 THEN Append(@, s.rows[0]) ELSE @],
         (s.top .. s.bottom) \cup {s.bottom})

advance_line(s) ==
  IF s.row >= s.bottom THEN scroll_up(s) ELSE [s EXCEPT !.row = @ + 1]

Wrapped(s) == advance_line([s EXCEPT !.col = 0])

\* A character is written in one cell or two; the cursor may end up past the
\* last column, and the next character then wraps.
write_char(s, ch, width) ==
  LET s1   == IF s.col >= Width THEN Wrapped(s) ELSE s
      s2   == IF width = 2 /\ s1.col + 1 >= Width THEN Wrapped(s1) ELSE s1
      last == s2.col + (IF width = 2 /\ s2.col + 1 < Width THEN 1 ELSE 0)
      line == [c \in ColId |-> IF c = s2.col THEN ch
                               ELSE IF c = last THEN Blank ELSE s2.rows[s2.row][c]]
  IN Marked([s2 EXCEPT !.rows[s2.row] = line, !.col = last + 1], {s2.row})

move_cursor(s, col, row) ==
  [s EXCEPT !.col = Bounded(col, Width - 1), !.row = Bounded(row, Height - 1)]

set_scroll_region(s, top, bottom) ==
  [s EXCEPT !.top = Bounded(top, Height - 1), !.bottom = Bounded(bottom, Height - 1),
            !.col = 0, !.row = 0]

ErasedLine(line, cols) == [c \in ColId |-> IF c \in cols THEN Blank ELSE line[c]]

ErasedCols(s, mode) ==
  CASE mode = 0 -> s.col .. Width - 1
    [] mode = 1 -> 0 .. s.col
    [] mode = 2 -> ColId
    [] OTHER    -> {}

erase_in_line(s, mode) ==
  Marked([s EXCEPT !.rows[s.row] = ErasedLine(@, ErasedCols(s, mode))], {s.row})

Cleared(s, rs) ==
  [s EXCEPT !.rows = [r \in RowId |-> IF r \in rs THEN BlankRow ELSE s.rows[r]]]
ClearedRows(s, rs) == Marked(Cleared(s, rs), rs)

\* Mutant of erase_in_display: the rows above the cursor are not marked dirty.
erase_in_display_unmarked(s, mode) ==
  CASE mode = 0 -> ClearedRows(erase_in_line(s, 0), s.row + 1 .. Height - 1)
    [] mode = 1 -> erase_in_line(Cleared(s, 0 .. s.row - 1), 1)
    [] mode = 2 -> [ClearedRows(s, RowId) EXCEPT !.col = 0, !.row = 0]
    [] mode = 3 -> ClearedRows(s, RowId)
    [] OTHER    -> s

erase_in_display(s, mode) ==
  CASE mode = 0 -> ClearedRows(erase_in_line(s, 0), s.row + 1 .. Height - 1)
    [] mode = 1 -> erase_in_line(ClearedRows(s, 0 .. s.row - 1), 1)
    [] mode = 2 -> [ClearedRows(s, RowId) EXCEPT !.col = 0, !.row = 0]
    [] mode = 3 -> ClearedRows(s, RowId)
    [] OTHER    -> s

switch_to_alt(s) ==
  IF Alternate(s) THEN s
  ELSE [s EXCEPT !.saved = <<[rows |-> s.rows, col |-> s.col, row |-> s.row]>>,
                 !.rows = BlankGrid, !.dirty = RowId, !.col = 0, !.row = 0,
                 !.top = 0, !.bottom = Height - 1]

switch_to_primary(s) ==
  IF ~ Alternate(s) THEN s
  ELSE [s EXCEPT !.rows = s.saved[1].rows, !.col = s.saved[1].col, !.row = s.saved[1].row,
                 !.saved = <<>>, !.dirty = RowId, !.top = 0, !.bottom = Height - 1]

-----------------------------------------------------------------------------
(***************************************************************************)
(* What a program's output does to the screen.                             *)
(***************************************************************************)

\* The line a line break pushes off the top of the primary screen, if any.
Leaving(s) ==
  IF ~ Alternate(s) /\ s.top = 0 /\ s.row >= s.bottom THEN <<s.rows[0]>> ELSE <<>>

Parse(s, leaving) ==
  /\ ops < MaxOps
  /\ ops' = ops + 1
  /\ scr' = s
  /\ gone' = gone \o leaving
  /\ spilled' = (spilled \/ (leaving # <<>> /\ scr.bottom < Height - 1))
  /\ parsed' = TRUE
  /\ UNCHANGED reader

\* A printable character, one or two columns wide.
PrintChar(ch, width) ==
  Parse(write_char(scr, ch, width),
        IF scr.col >= Width \/ (width = 2 /\ scr.col + 1 >= Width)
        THEN Leaving(scr) ELSE <<>>)

\* LF, VT, FF.
LineFeed == Parse(advance_line(scr), Leaving(scr))

\* CUP, HVP, CHA, VPA, and the moves relative to the cursor, BS, HT and CR,
\* which all compute a position and go there.
MoveCursor(col, row) == Parse(move_cursor(scr, col, row), <<>>)

SetScrollRegion(top, bottom) == Parse(set_scroll_region(scr, top, bottom), <<>>)

EraseInLine(mode)    == Parse(erase_in_line(scr, mode), <<>>)
EraseInDisplay(mode) == Parse(erase_in_display(scr, mode), <<>>)

\* DEC private modes 47, 1047, 1049 and 2026.
AlternateScreen(on) ==
  Parse(IF on THEN switch_to_alt(scr) ELSE switch_to_primary(scr), <<>>)
SynchronizedOutput(on) == Parse([scr EXCEPT !.sync = on], <<>>)

-----------------------------------------------------------------------------
(***************************************************************************)
(* The client's scrollback: a ring of lines.                               *)
(***************************************************************************)

push_line(r, line) ==
  [r EXCEPT !.lines = IF Len(@) <= r.head THEN Append(@, line)
                      ELSE [@ EXCEPT ![r.head + 1] = line],
            !.len   = IF @ < r.capacity THEN @ + 1 ELSE @,
            !.head  = (@ + 1) % r.capacity]

\* The line of an index, 0 for the oldest.
get(r, i) ==
  r.lines[(IF r.len < r.capacity THEN i ELSE (r.head + i) % r.capacity) + 1]

Lines(r) == [i \in 1 .. r.len |-> get(r, i - 1)]

\* Mutant of set_capacity: the lines are kept in the order of their slots.
set_capacity_slots(r, n) ==
  LET kept == SubSeq(r.lines, r.len - Bounded(n, r.len) + 1, r.len)
  IN [capacity |-> n, lines |-> kept, len |-> Len(kept), head |-> Len(kept) % n]

set_capacity(r, n) ==
  IF n = r.capacity THEN r
  ELSE LET kept == SubSeq(Lines(r), r.len - Bounded(n, r.len) + 1, r.len)
       IN [capacity |-> n, lines |-> kept, len |-> Len(kept), head |-> Len(kept) % n]

\* Every row of a diff, from the top, pushes the row it replaces.
apply_diff(r, old, dirty) ==
  FoldLeft(LAMBDA acc, row : IF row \in dirty THEN push_line(acc, old[row]) ELSE acc,
           r, [i \in 1 .. Height |-> i - 1])

\* The rows a diff replaces, from the top.
Replaced(old, dirty) ==
  FoldLeft(LAMBDA acc, row : IF row \in dirty THEN Append(acc, old[row]) ELSE acc,
           <<>>, [i \in 1 .. Height |-> i - 1])

-----------------------------------------------------------------------------
(***************************************************************************)
(* The reader thread, at the end of every burst of output.                 *)
(***************************************************************************)

\* take_dirty_rows: nothing while the program asks for synchronized output.
DirtyRows == IF scr.sync THEN {} ELSE scr.dirty

\* Mutant of Retained: one line at most is dropped, however many came.
RetainedDropOne(lines) == IF Len(lines) > ScrollbackLimit THEN Tail(lines) ELSE lines

\* The newest lines, at most ScrollbackLimit of them.
Retained(lines) ==
  SubSeq(lines, Len(lines) - Bounded(ScrollbackLimit, Len(lines)) + 1, Len(lines))

\* Mutant of Reported: the first dirty row only.
ReportedFirst == {r \in DirtyRows : \A q \in DirtyRows : r <= q}

\* The rows of the burst's GridDiff.
Reported == DirtyRows

EndBurst ==
  /\ parsed
  /\ parsed' = FALSE
  /\ IF Reported = {}
     THEN UNCHANGED <<scr, reader>>
     ELSE /\ scr' = [scr EXCEPT !.dirty = {}, !.off = <<>>]
          /\ mirror' = [rows |-> [r \in RowId |-> IF r \in Reported THEN scr.rows[r]
                                                  ELSE mirror.rows[r]],
                        col |-> scr.col, row |-> scr.row]
          /\ scrollback' = IF scr.off = <<>> THEN scrollback
                           ELSE Retained(scrollback \o scr.off)
          /\ ring' = apply_diff(ring, mirror.rows, Reported)
  /\ UNCHANGED <<ops, history>>

\* The client's configuration is reloaded.
SetCapacity(n) ==
  /\ n # ring.capacity
  /\ ring' = set_capacity(ring, n)
  /\ UNCHANGED <<scr, mirror, scrollback, parsed, ops, history>>

-----------------------------------------------------------------------------

Next ==
  \/ \E ch \in Char, width \in {1, 2} : PrintChar(ch, width)
  \/ LineFeed
  \/ \E col \in 0 .. Width, row \in 0 .. Height : MoveCursor(col, row)
  \/ \E top, bottom \in 0 .. Height : SetScrollRegion(top, bottom)
  \/ \E mode \in 0 .. 2 : EraseInLine(mode)
  \/ \E mode \in 0 .. 3 : EraseInDisplay(mode)
  \/ \E on \in BOOLEAN : AlternateScreen(on)
  \/ \E on \in BOOLEAN : SynchronizedOutput(on)
  \/ EndBurst
  \/ \E n \in Capacities : SetCapacity(n)

Spec == Init /\ [][Next]_vars

-----------------------------------------------------------------------------

\* The cursor stays on a row of the grid and at most one column past its end,
\* the region and every buffer within the grid.
TypeOK ==
  /\ scr.rows \in [RowId -> Line] /\ scr.dirty \subseteq RowId
  /\ scr.col \in 0 .. Width /\ scr.row \in RowId
  /\ scr.top \in RowId /\ scr.bottom \in RowId /\ scr.sync \in BOOLEAN
  /\ Len(scr.saved) <= 1
  /\ mirror.rows \in [RowId -> Line]
  /\ Len(ring.lines) <= ring.capacity /\ ring.head < ring.capacity

\* Dirty tracking is complete: a row the parser does not call dirty is in
\* latest_grid as it is on the screen, whatever buffer is shown and however
\* long the program holds its output back.
CleanRowsMirrored ==
  \A r \in RowId : r \notin scr.dirty => mirror.rows[r] = scr.rows[r]

\* What clients are shown is always the whole screen as it stood at the end of
\* some burst, never a mixture of two frames.
FramesAreWhole == [][mirror'.rows # mirror.rows => mirror'.rows = scr.rows]_vars

\* As long as the program scrolls the whole screen, the scrollback mirror and the
\* lines waiting for it hold the newest lines that left the primary screen, each
\* once, in order: none is lost to synchronized output or to a switch of buffers,
\* and the alternate screen adds none.  Once a region that starts in the first row
\* and ends above the last one has scrolled, the mirror also has its lines, which
\* screen.rs:692-695 says it must not: `spilled` tells, and nothing is said then.
ScrollbackIsWhatLeft ==
  LET all == scrollback \o scr.off
  IN ~ spilled => /\ IsSuffix(all, gone)
                  /\ Len(scrollback) = Bounded(ScrollbackLimit, Len(gone) - Len(scr.off))

\* The scrollback mirror is a history of the mirror's limit: a burst leaves the
\* newest of the lines it had and the lines the parser pushed out.
ServerHistory ==
  INSTANCE History WITH kept <- scrollback, capacity <- ScrollbackLimit, waiting <- scr.off
ServerKeepsHistory == ServerHistory!Spec

\* The client's ring is a history of its configured capacity, across reloads: a
\* diff leaves the newest of the lines it had and the rows the diff replaced.
ClientHistory ==
  INSTANCE History WITH kept <- Lines(ring), capacity <- ring.capacity,
                        waiting <- Replaced(mirror.rows, Reported)
ClientKeepsHistory == ClientHistory!Spec

\* After a burst latest_grid has the parser's cursor, so that a client that
\* attaches then sees the current screen ("Cursor and hyperlinks are synced too",
\* pane.rs:919).  A burst that only moves the cursor has no dirty row, and is
\* neither mirrored nor sent.
CursorIsMirrored ==
  ~ parsed /\ ~ scr.sync => mirror.col = scr.col /\ mirror.row = scr.row
=============================================================================
