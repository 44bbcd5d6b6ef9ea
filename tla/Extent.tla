------------------------------- MODULE Extent -------------------------------
(***************************************************************************)
(* The arithmetic of lengths in a window: what the two children of a split *)
(* get (split_extent, window/bsp.rs) and the bounds of floating panes      *)
(* (FloatRect::clamp_to, window/floating.rs).                              *)
(***************************************************************************)
EXTENDS Integers

Rect(c, r, cols, rows) == [col |-> c, row |-> r, cols |-> cols, rows |-> rows]
Size(cols, rows) == [cols |-> cols, rows |-> rows]
Full(size) == Rect(0, 0, size.cols, size.rows)

AtMost(a, b)  == IF a <= b THEN a ELSE b
AtLeast(a, b) == IF a >= b THEN a ELSE b
Clamp(x, low, high) == AtMost(AtLeast(x, low), high)

-----------------------------------------------------------------------------
(***************************************************************************)
(* split_extent.                                                           *)
(***************************************************************************)

MIN_CHILD_EXTENT == 1

Separator(total) == IF total = 0 THEN 0 ELSE 1

\* (total * ratio).round(); halves are rounded up.
Rounded(total, ratio) == (2 * total * ratio + 10) \div 20

\* Mutant of FirstExtent: the separator is forgotten in the upper bound.
FirstExtentLoose(total, ratio) ==
  Clamp(Rounded(total, ratio), MIN_CHILD_EXTENT, AtLeast(total, 1))

\* What the left or top child gets.
FirstExtent(total, ratio) ==
  LET available == total - Separator(total)
  IN  IF available < 2 * MIN_CHILD_EXTENT THEN available
      ELSE Clamp(Rounded(total, ratio), MIN_CHILD_EXTENT, available - MIN_CHILD_EXTENT)

\* What is left for the right or bottom child.
SecondExtent(total, ratio) == total - Separator(total) - FirstExtent(total, ratio)

-----------------------------------------------------------------------------
(***************************************************************************)
(* Floating panes.                                                         *)
(***************************************************************************)

MIN_COLS == 10
MIN_ROWS == 5

\* Mutant of clamp_to: the offset is kept when the size has been clamped.
clamp_to_size_only(r, size) ==
  [r EXCEPT !.cols = Clamp(@, MIN_COLS, AtLeast(size.cols, MIN_COLS)),
            !.rows = Clamp(@, MIN_ROWS, AtLeast(size.rows, MIN_ROWS))]

\* FloatRect::clamp_to: the size first, then the offset.
clamp_to(r, size) ==
  LET cols == Clamp(r.cols, MIN_COLS, AtLeast(size.cols, MIN_COLS))
      rows == Clamp(r.rows, MIN_ROWS, AtLeast(size.rows, MIN_ROWS))
  IN  Rect(AtMost(r.col, AtLeast(size.cols - cols, 0)),
           AtMost(r.row, AtLeast(size.rows - rows, 0)), cols, rows)

\* A new floating pane: 60% by 70% of the window, in the middle.
Centred(size) ==
  LET cols == (size.cols * 6) \div 10
      rows == (size.rows * 7) \div 10
  IN  clamp_to(Rect((size.cols - cols) \div 2, (size.rows - rows) \div 2, cols, rows), size)
=============================================================================
