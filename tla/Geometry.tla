------------------------------ MODULE Geometry ------------------------------
(***************************************************************************)
(* The rectangles of the panes of a window: the split tree (window/bsp.rs) *)
(* and the tiling layout (window/tiling.rs).  Ratios are tenths.           *)
(***************************************************************************)
EXTENDS Extent, FiniteSets, SequencesExt

-----------------------------------------------------------------------------
(***************************************************************************)
(* The split tree, as the way down from its root to each of its panes: the *)
(* splits on the way and the child taken at each, the first (left, top) or *)
(* the second.  Two ways go through the same split as long as they agree.  *)
(***************************************************************************)

Directions == {"vertical", "horizontal"}
SplitNode(dir, ratio, second) == [dir |-> dir, ratio |-> ratio, second |-> second]

\* A tree of one pane.
Leaf(p) == [x \in {p} |-> <<>>]

\* The panes below the innermost split around a pane.
Below(t, pane) ==
  {p \in DOMAIN t : \A k \in 1 .. Len(t[pane]) - 1 : k <= Len(t[p]) /\ t[p][k] = t[pane][k]}

\* insert_after: the leaf becomes a split in the middle, the new pane second.
insert_after(t, target, new, dir) ==
  [p \in DOMAIN t \cup {new} |->
     CASE p = new    -> Append(t[target], SplitNode(dir, 5, TRUE))
       [] p = target -> Append(t[target], SplitNode(dir, 5, FALSE))
       [] OTHER      -> t[p]]

\* swap_ids.
swap_ids(t, a, b) == [t EXCEPT ![a] = t[b], ![b] = t[a]]

\* remove: the sibling takes the place of the innermost split.  (No caller
\* removes the only pane.)
remove(t, target) ==
  [p \in DOMAIN t \ {target} |->
     IF p \in Below(t, target) THEN RemoveAt(t[p], Len(t[target])) ELSE t[p]]

\* A ratio stays between 0.1 and 0.9.
NewRatio(ratio, change) == Clamp(ratio + change, 1, 9)

\* adjust_ratio_for: of the splits around the pane the innermost.
adjust_ratio_for(t, target, delta) ==
  LET n == Len(t[target])
      change == IF t[target][n].second THEN -delta ELSE delta
  IN  [p \in DOMAIN t |-> IF p \in Below(t, target)
                          THEN [t[p] EXCEPT ![n].ratio = NewRatio(@, change)]
                          ELSE t[p]]

\* The parts of rectangle r that the children of a split get, and what is left
\* between them.
FirstRect(split, r) ==
  IF split.dir = "vertical"
  THEN Rect(r.col, r.row, FirstExtent(r.cols, split.ratio), r.rows)
  ELSE Rect(r.col, r.row, r.cols, FirstExtent(r.rows, split.ratio))

SecondRect(split, r) ==
  IF split.dir = "vertical"
  THEN Rect(r.col + FirstExtent(r.cols, split.ratio) + Separator(r.cols), r.row,
            SecondExtent(r.cols, split.ratio), r.rows)
  ELSE Rect(r.col, r.row + FirstExtent(r.rows, split.ratio) + Separator(r.rows),
            r.cols, SecondExtent(r.rows, split.ratio))

SeparatorRect(split, r) ==
  IF split.dir = "vertical"
  THEN Rect(r.col + FirstExtent(r.cols, split.ratio), r.row, Separator(r.cols), r.rows)
  ELSE Rect(r.col, r.row + FirstExtent(r.rows, split.ratio), r.cols, Separator(r.rows))

Part(split, r) == IF split.second THEN SecondRect(split, r) ELSE FirstRect(split, r)

\* The rectangles on a way down, r at its start.
RectsOn(way, r) ==
  LET rect[k \in 0 .. Len(way)] == IF k = 0 THEN r ELSE Part(way[k], rect[k - 1])
  IN  rect

\* compute: the rectangle of every leaf.
compute(t, r) == [p \in DOMAIN t |-> RectsOn(t[p], r)[Len(t[p])]]

\* The rectangles between the children of the splits.
Separators(t, r) ==
  UNION {{SeparatorRect(t[p][k], RectsOn(t[p], r)[k - 1]) : k \in 1 .. Len(t[p])} : p \in DOMAIN t}

-----------------------------------------------------------------------------
(***************************************************************************)
(* The tiling layout.                                                      *)
(***************************************************************************)

\* ceil(sqrt(n)).
TilingColumns(n) == CHOOSE k \in 1 .. n : k * k >= n /\ (k - 1) * (k - 1) < n

\* The first n % k of the k columns get one pane more than the others.
PanesInColumn(n, c) ==
  LET k == TilingColumns(n)
  IN  n \div k + (IF c < n % k THEN 1 ELSE 0)

\* The column of pane number i, both counted from 0.
ColumnOf(n, i) ==
  LET k == TilingColumns(n)
      before(c) == c * (n \div k) + AtMost(c, n % k)
  IN  CHOOSE c \in 0 .. k - 1 : before(c) <= i /\ i < before(c) + PanesInColumn(n, c)

RowOf(n, i) ==
  LET c == ColumnOf(n, i)
  IN  i - (c * (n \div TilingColumns(n)) + AtMost(c, n % TilingColumns(n)))

\* Where share number i of n starts, and how long it is.
ShareStart(i, total, n)  == (i * total) \div n
ShareLength(i, total, n) == AtLeast(ShareStart(i + 1, total, n) - ShareStart(i, total, n), 1)

\* compute_tiling_layouts: the panes in the order of their ids, column by column.
compute_tiling_layouts(ids, size) ==
  LET n == Cardinality(ids)
      tile(p) ==
        LET i == Cardinality({x \in ids : x < p})
            c == ColumnOf(n, i)
            r == RowOf(n, i)
            m == PanesInColumn(n, c)
            k == TilingColumns(n)
        IN  IF n = 1 THEN Full(size)
            ELSE Rect(ShareStart(c, size.cols, k), ShareStart(r, size.rows, m),
                      ShareLength(c, size.cols, k), ShareLength(r, size.rows, m))
  IN  [p \in ids |-> tile(p)]
=============================================================================
