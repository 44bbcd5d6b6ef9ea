------------------------------- MODULE Layout -------------------------------
(***************************************************************************)
(* The sizes in a session: the tiles of its windows' panes, the sizes of   *)
(* the PTYs behind them, zoom, the tiling mode and floating panes          *)
(* (window/mod.rs), as the requests of clients change them                 *)
(* (ipc/window_dispatch.rs, ipc/pane_dispatch.rs, session.rs).             *)
(*                                                                         *)
(* A client draws a pane in the rectangle that LayoutChanged announces for *)
(* it, and the program in the pane draws for the size of its PTY: the two  *)
(* should agree.  Session has the same requests and more, and follows      *)
(* which panes exist; tab order, serial panes, shells that do not start    *)
(* and destinations that do not exist are left to it.                      *)
(***************************************************************************)
EXTENDS Geometry

CONSTANTS
  Sizes,      \* the sizes a client resizes to
  Dirs,       \* the directions clients split in (a moved pane: vertical)
  Deltas,     \* the steps of a ratio, in tenths
  Rects,      \* the rectangles clients ask floating panes to have
  SoloModes,  \* bound: are zoom and tiling asked for in a window of one pane?
  MaxPane,    \* bound on the pane ids issued
  MaxWindow   \* bound on the window ids issued

ASSUME LayoutAssumption ==
  /\ Sizes \subseteq [cols : Nat, rows : Nat]
  /\ Rects \subseteq [col : Nat, row : Nat, cols : Nat, rows : Nat]
  /\ \E s \in Sizes : \A t \in Sizes : t.cols <= s.cols
  /\ SoloModes \in BOOLEAN
  /\ Dirs \subseteq Directions /\ Deltas \subseteq Int
  /\ MaxPane \in Nat \ {0} /\ MaxWindow \in Nat \ {0}

VARIABLES
  windows,     \* the windows of the session
  focused,     \* focused_window_id
  size,        \* Session::cols and rows
  nextPane, nextWindow,
  off          \* history: why the PTYs of a window may be off their tiles, and its
               \* floating panes outside of it

session == <<focused, size, nextPane, nextWindow>>
vars == <<windows, session, off>>

Windows == DOMAIN windows
F == windows[focused]

\* A function that also takes x, to y.
With(f, x, y) == [z \in DOMAIN f \cup {x} |-> IF z = x THEN y ELSE f[z]]
Only(x, y) == [z \in {x} |-> y]

\* A window.  `pty` has the size of the PTY of each tiled pane, `last` is
\* last_cols and last_rows.
NewWindow(p, sz) ==
  [tree |-> Leaf(p), pty |-> Only(p, Size(sz.cols, sz.rows)), focus |-> p,
   zoomed |-> FALSE, tiled |-> FALSE, last |-> sz,
   float |-> [x \in {} |-> Full(sz)], floatPty |-> [x \in {} |-> sz]]

Panes(w) == DOMAIN w.pty
Initial == CHOOSE s \in Sizes : \A t \in Sizes : t.cols <= s.cols

Init ==
  /\ size = Initial
  /\ windows = Only(1, NewWindow(1, Initial))
  /\ focused = 1
  /\ nextPane = 2 /\ nextWindow = 2
  /\ off = Only(1, {})

-----------------------------------------------------------------------------
(***************************************************************************)
(* Window.                                                                 *)
(***************************************************************************)

\* compute_layouts: the rectangle of every tile.
compute_layouts(w, sz) ==
  IF w.tiled THEN compute_tiling_layouts(Panes(w), sz) ELSE compute(w.tree, Full(sz))

\* The sizes of the tiles.
TileSizes(w, sz) ==
  LET tiles == compute_layouts(w, sz)
  IN  [p \in Panes(w) |-> Size(tiles[p].cols, tiles[p].rows)]

\* The loop over compute_layouts that ends most operations: every PTY gets the
\* size of its tile.
LaidOut(w, sz) == [w EXCEPT !.pty = TileSizes(w, sz)]

\* resize_all_panes: the floating panes are clamped as well.
resize_all_panes(w, sz) ==
  LET float == [p \in DOMAIN w.float |-> clamp_to(w.float[p], sz)]
  IN  [LaidOut(w, sz) EXCEPT
         !.last = sz,
         !.float = float,
         !.floatPty = [p \in DOMAIN float |-> Size(float[p].cols, float[p].rows)]]

\* A window with one pane more, next to the focused one.
Grown(w, p, dir, sz) ==
  [w EXCEPT !.tree = insert_after(@, w.focus, p, dir), !.pty = With(@, p, sz), !.focus = p]

\* add_pane_with_options.  The layouts are computed when the tree has the new pane
\* and the map has not: a tiled window is laid out for the panes it had, and the
\* new one, not found in that, gets the size of the window.
add_pane(w, p, dir, sz) ==
  IF w.tiled THEN [Grown(w, p, dir, sz) EXCEPT !.pty = With(TileSizes(w, sz), p, sz)]
             ELSE LaidOut(Grown(w, p, dir, sz), sz)

Without(w, p) ==
  LET rest == [x \in Panes(w) \ {p} |-> w.pty[x]]
  IN  [w EXCEPT !.tree = remove(@, p), !.pty = rest,
                !.focus = IF @ = p THEN Min(DOMAIN rest) ELSE @]

\* Mutant of remove_focused_pane: the panes that stay keep their sizes.
remove_focused_pane_unresized(w, sz) == Without(w, w.focus)

\* remove_focused_pane: a window that is zoomed stays so.
remove_focused_pane(w, sz) == LaidOut(Without(w, w.focus), sz)

\* take_focused_pane, take_pane_by_id.
take_pane(w, p, sz) == LaidOut([Without(w, p) EXCEPT !.zoomed = FALSE], sz)

\* insert_pane_at: laid out with the pane in the map.
insert_pane(w, p, sz) == LaidOut([Grown(w, p, "vertical", sz) EXCEPT !.zoomed = FALSE], sz)

\* toggle_zoom: the focused PTY alone is enlarged; afterwards all are laid out.
toggle_zoom(w, sz) ==
  IF w.zoomed THEN resize_all_panes([w EXCEPT !.zoomed = FALSE], sz)
  ELSE [w EXCEPT !.zoomed = TRUE, !.pty[w.focus] = sz]

\* layout_changed_msg: the sizes announced for the PTY panes.
layout_changed(w, sz) ==
  IF w.zoomed THEN Only(w.focus, sz) ELSE TileSizes(w, sz)

-----------------------------------------------------------------------------
(***************************************************************************)
(* Requests about the focused window.                                      *)
(***************************************************************************)

\* Laid out again, but for the floating panes.
Tiled(why) == why \ {"split", "size", "swap"}

\* The focused window becomes w, its PTYs laid out for the session's size.
Fitted(w) ==
  /\ windows' = [windows EXCEPT ![focused] = w]
  /\ off' = [off EXCEPT ![focused] = Tiled(@)]

\* The focused window becomes w, by resize_all_panes.
Resized(w) ==
  /\ windows' = [windows EXCEPT ![focused] = w]
  /\ off' = [off EXCEPT ![focused] = {}]

\* The focused window becomes w, and only some of its PTYs were resized.
Unfitted(w, why) ==
  /\ windows' = [windows EXCEPT ![focused] = w]
  /\ off' = [off EXCEPT ![focused] = @ \cup why]

Split(dir) ==
  /\ nextPane <= MaxPane /\ nextPane' = nextPane + 1
  /\ IF F.tiled THEN Unfitted(add_pane(F, nextPane, dir, size), {"split"})
                ELSE Fitted(add_pane(F, nextPane, dir, size))
  /\ UNCHANGED <<focused, size, nextWindow>>

ClosePane ==
  /\ Cardinality(Panes(F)) > 1
  /\ Fitted(remove_focused_pane(F, size))
  /\ UNCHANGED session

\* ResizeSplit; a tree of one leaf has no ratio, and nothing is laid out.
ResizeSplit(delta) ==
  /\ F.tree[F.focus] # <<>>
  /\ Fitted(LaidOut([F EXCEPT !.tree = adjust_ratio_for(@, F.focus, delta)], size))
  /\ UNCHANGED session

ToggleZoom ==
  /\ SoloModes \/ F.zoomed \/ Cardinality(Panes(F)) > 1
  /\ IF F.zoomed THEN Resized(toggle_zoom(F, size)) ELSE Unfitted(toggle_zoom(F, size), {})
  /\ UNCHANGED session

SetLayoutMode(tiled) ==
  /\ SoloModes \/ Cardinality(Panes(F)) > 1
  /\ Resized(resize_all_panes([F EXCEPT !.tiled = tiled], size))
  /\ UNCHANGED session

\* FocusNextPane, FocusPrevPane, FocusPane: no PTY is resized.
Focus(p) ==
  /\ p \in Panes(F) \ {F.focus}
  /\ Unfitted([F EXCEPT !.focus = p], {})
  /\ UNCHANGED session

\* SwapPane: the panes trade tiles and keep their sizes.
SwapPane(p) ==
  /\ p \in Panes(F) \ {F.focus}
  /\ Unfitted([F EXCEPT !.tree = swap_ids(@, F.focus, p)], IF F.tiled THEN {} ELSE {"swap"})
  /\ UNCHANGED session

\* OpenFloatingPane.  The window takes the session's size: its other floating panes
\* are not clamped to it.
OpenFloatingPane ==
  LET r == Centred(size)
  IN  /\ nextPane <= MaxPane /\ nextPane' = nextPane + 1
      /\ Unfitted([F EXCEPT !.last = size,
                            !.float = With(@, nextPane, r),
                            !.floatPty = With(@, nextPane, Size(r.cols, r.rows))],
                   IF F.last = size \/ DOMAIN F.float = {} THEN {} ELSE {"float"})
      /\ UNCHANGED <<focused, size, nextWindow>>

CloseFloatingPane(p) ==
  /\ p \in DOMAIN F.float
  /\ Unfitted([F EXCEPT !.float = [x \in DOMAIN @ \ {p} |-> @[x]],
                        !.floatPty = [x \in DOMAIN @ \ {p} |-> @[x]]], {})
  /\ UNCHANGED session

\* MoveFloatingPane: clamped to the size the window had last.
MoveFloatingPane(p, r) ==
  /\ p \in DOMAIN F.float
  /\ LET moved == [F.float[p] EXCEPT !.col = r.col, !.row = r.row]
     IN  Unfitted([F EXCEPT !.float[p] = clamp_to(moved, F.last)], {})
  /\ UNCHANGED session

\* ResizeFloatingPane.
ResizeFloatingPane(p, r) ==
  /\ p \in DOMAIN F.float
  /\ LET resized == clamp_to([F.float[p] EXCEPT !.cols = r.cols, !.rows = r.rows], F.last)
     IN  Unfitted([F EXCEPT !.float[p] = resized,
                            !.floatPty[p] = Size(resized.cols, resized.rows)], {})
  /\ UNCHANGED session

-----------------------------------------------------------------------------
(***************************************************************************)
(* Requests about the session.                                             *)
(***************************************************************************)

\* Resize -> resize_focused: the other windows are left at the old size.
Resize(sz) ==
  /\ size' = sz
  /\ windows' = [windows EXCEPT ![focused] = resize_all_panes(@, sz)]
  /\ off' = [i \in Windows |-> IF i = focused THEN {} ELSE off[i] \cup {"size"}]
  /\ UNCHANGED <<focused, nextPane, nextWindow>>

\* NewWindow -> add_window.
AddWindow ==
  /\ nextPane <= MaxPane /\ nextWindow <= MaxWindow
  /\ windows' = With(windows, nextWindow, NewWindow(nextPane, size))
  /\ off' = With(off, nextWindow, {})
  /\ focused' = nextWindow
  /\ nextPane' = nextPane + 1 /\ nextWindow' = nextWindow + 1
  /\ UNCHANGED size

\* FocusWindow: the layout is sent, and no PTY is resized.
FocusWindow(i) ==
  /\ i \in Windows \ {focused}
  /\ focused' = i
  /\ UNCHANGED <<windows, size, nextPane, nextWindow, off>>

\* CloseWindow.
CloseWindow(i) ==
  /\ Cardinality(Windows) > 1 /\ i \in Windows
  /\ windows' = [x \in Windows \ {i} |-> windows[x]]
  /\ off' = [x \in Windows \ {i} |-> off[x]]
  /\ IF focused = i THEN focused' \in Windows \ {i} ELSE UNCHANGED focused
  /\ UNCHANGED <<size, nextPane, nextWindow>>

\* BreakPane, and MovePaneToWindow without a target for a pane that is not the
\* last of its window: the pane is resized for a window of its own.
MovePaneToNewWindow(i, p) ==
  /\ i \in Windows /\ p \in Panes(windows[i])
  /\ Cardinality(Panes(windows[i])) > 1 /\ nextWindow <= MaxWindow
  /\ windows' = With([windows EXCEPT ![i] = take_pane(@, p, size)],
                      nextWindow, NewWindow(p, size))
  /\ off' = With([off EXCEPT ![i] = Tiled(@)], nextWindow, {})
  /\ focused' = nextWindow /\ nextWindow' = nextWindow + 1
  /\ UNCHANGED <<size, nextPane>>

\* JoinPane and MovePaneToWindow: both windows are laid out.
MovePaneToWindow(i, p, target) ==
  /\ i \in Windows /\ target \in Windows \ {i} /\ p \in Panes(windows[i])
  /\ Cardinality(Panes(windows[i])) > 1
  /\ windows' = [windows EXCEPT ![i] = take_pane(@, p, size),
                                ![target] = insert_pane(@, p, size)]
  /\ off' = [off EXCEPT ![i] = Tiled(@), ![target] = Tiled(@)]
  /\ focused' = target
  /\ UNCHANGED <<size, nextPane, nextWindow>>

\* MovePaneToWindow with the last pane: its window is gone.
MoveLastPane(i, p, target) ==
  /\ i \in Windows /\ target \in Windows \ {i} /\ Panes(windows[i]) = {p}
  /\ windows' = [x \in Windows \ {i} |->
       IF x = target THEN insert_pane(windows[x], p, size) ELSE windows[x]]
  /\ off' = [x \in Windows \ {i} |-> IF x = target THEN Tiled(off[x]) ELSE off[x]]
  /\ focused' = target
  /\ UNCHANGED <<size, nextPane, nextWindow>>

-----------------------------------------------------------------------------
PaneRequest ==
  \/ \E dir \in Dirs : Split(dir)
  \/ ClosePane \/ ToggleZoom
  \/ \E delta \in Deltas : ResizeSplit(delta)
  \/ \E tiled \in BOOLEAN : SetLayoutMode(tiled)
  \/ \E p \in Panes(F) : Focus(p) \/ SwapPane(p)

FloatRequest ==
  \/ OpenFloatingPane
  \/ \E p \in DOMAIN F.float :
       CloseFloatingPane(p) \/ \E r \in Rects : MoveFloatingPane(p, r) \/ ResizeFloatingPane(p, r)

WindowRequest ==
  \/ \E sz \in Sizes : Resize(sz)
  \/ AddWindow
  \/ \E i \in Windows : FocusWindow(i) \/ CloseWindow(i)
  \/ \E i \in Windows : \E p \in Panes(windows[i]) :
       \/ MovePaneToNewWindow(i, p)
       \/ \E target \in Windows : MovePaneToWindow(i, p, target) \/ MoveLastPane(i, p, target)

Next == PaneRequest \/ FloatRequest \/ WindowRequest

Spec == Init /\ [][Next]_vars

-----------------------------------------------------------------------------
(***************************************************************************)
(* Properties.                                                             *)
(***************************************************************************)

\* Two ways go through the same splits, and part at split number k.
Other(split) == [split EXCEPT !.second = ~ @]
Apart(v, w, k) ==
  /\ k <= Len(v) /\ k <= Len(w) /\ \A j \in 1 .. k - 1 : v[j] = w[j]
  /\ w[k] = Other(v[k])

\* The ways of a tree: each two of them part somewhere, and at each of the splits
\* on a way another one goes the other way.
Splits == [dir : Directions, ratio : 1 .. 9, second : BOOLEAN]
TreeOK(t) ==
  /\ \A p \in DOMAIN t : t[p] \in Seq(Splits)
  /\ \A p, q \in DOMAIN t : p # q => \E k \in 1 .. Len(t[p]) : Apart(t[p], t[q], k)
  /\ \A p \in DOMAIN t : \A k \in 1 .. Len(t[p]) : \E q \in DOMAIN t : Apart(t[p], t[q], k)

\* Every window is a tree with ratios from 0.1 to 0.9 and one leaf for each of
\* its panes, the focused one included.
TypeOK ==
  /\ focused \in Windows /\ size \in Sizes
  /\ \A i \in Windows :
       LET w == windows[i]
       IN  /\ DOMAIN w.tree = Panes(w) /\ TreeOK(w.tree)
           /\ w.focus \in Panes(w)
           /\ w.last \in Sizes /\ off[i] \subseteq {"split", "size", "swap", "float"}

Disjoint(a, b) ==
  \/ a.col + a.cols <= b.col \/ b.col + b.cols <= a.col
  \/ a.row + a.rows <= b.row \/ b.row + b.rows <= a.row

Inside(r, sz) == r.col + r.cols <= sz.cols /\ r.row + r.rows <= sz.rows

Cells(sz) == (0 .. sz.cols - 1) \X (0 .. sz.rows - 1)
Holds(r, cell) ==
  /\ r.col <= cell[1] /\ cell[1] < r.col + r.cols
  /\ r.row <= cell[2] /\ cell[2] < r.row + r.rows

\* At every size the tiles of a window lie inside it and do not overlap, and
\* a cell that is in no tile is on the separator of a split, and only then: "first
\* + separator + second == total exactly" (bsp.rs, split_extent).  The tiling layout
\* needs a cell for every row and column of its grid.
TilesPartition ==
  \A i \in Windows, sz \in Sizes :
    LET w == windows[i]
        tiles == compute_layouts(w, sz)
        drawn == {tiles[p] : p \in Panes(w)}
        between == IF w.tiled THEN {} ELSE Separators(w.tree, Full(sz))
        n == Cardinality(Panes(w))
    IN  ~ w.tiled \/ (sz.cols >= TilingColumns(n) /\ sz.rows >= n) =>
          /\ \A p \in Panes(w) : Inside(tiles[p], sz)
          /\ \A p, q \in Panes(w) : p # q => Disjoint(tiles[p], tiles[q])
          /\ \A cell \in Cells(sz) :
               (\E r \in drawn : Holds(r, cell)) <=> ~ \E r \in between : Holds(r, cell)

\* A PTY has the size the clients are told, in every window that is not zoomed,
\* whatever the requests before, with three exceptions until the window is laid out
\* again: it was not focused at a resize, two of its panes were swapped, or it was
\* split in tiling mode (window/mod.rs, the loops over compute_layouts).
PtyFitsTile ==
  \A i \in Windows :
    LET w == windows[i]
    IN  ~ w.zoomed /\ off[i] \subseteq {"float"} => w.pty = layout_changed(w, size)

\* A window below the minimum of a floating pane is no place for one.
Roomy(sz) == sz.cols >= MIN_COLS /\ sz.rows >= MIN_ROWS

\* A floating pane lies inside the last size of its window, and its PTY has its
\* size, through moves, resizes and resizes of the window.  The exception, until
\* the window is resized: one more was opened in a window that had missed a resize.
FloatsFit ==
  \A i \in Windows :
    LET w == windows[i]
    IN  "float" \notin off[i] =>
          \A p \in DOMAIN w.float :
            /\ Roomy(w.last) => Inside(w.float[p], w.last)
            /\ w.floatPty[p] = Size(w.float[p].cols, w.float[p].rows)

\* "the invariant "stored rect is always inside the window" holds here too"
\* (window/mod.rs:999, resize_all_panes, of the size the window has last).
StoredRectInside ==
  \A i \in Windows :
    LET w == windows[i]
    IN  \A p \in DOMAIN w.float : Roomy(w.last) => Inside(w.float[p], w.last)

\* "While zoomed, the focused pane is expanded to the full window" (window/mod.rs,
\* toggle_zoom): its PTY has the size of the window, which is what the clients are
\* told.
ZoomFillsWindow == F.zoomed /\ off[focused] = {} => F.pty[F.focus] = size
=============================================================================
