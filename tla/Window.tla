------------------------------- MODULE Window -------------------------------
(***************************************************************************)
(* A window of a nexterm session, as the value the operations of           *)
(* `impl Window` (nexterm-server/src/window/mod.rs) compute on.  This      *)
(* module has no state of its own: each operator takes a window record and *)
(* returns the record the method leaves behind.                            *)
(*                                                                         *)
(* The BSP tree is abstracted to `layout`, its leaves from left to right   *)
(* (bsp.rs).  Insertion and removal visit the left child first, so they    *)
(* act on the first occurrence of an id in that sequence.  Ratios,         *)
(* directions, rectangles and zoom are left out.                           *)
(***************************************************************************)
EXTENDS Integers, FiniteSets, Sequences, SequencesExt

\* The records a window can be, over the pane ids of PaneId.
WindowOver(PaneId) ==
  [panes    : SUBSET PaneId,      \* PTY panes
   serial   : SUBSET PaneId,      \* serial-port panes
   floating : SUBSET PaneId,      \* panes overlaid on the layout
   layout   : Seq(PaneId),        \* leaves of the BSP tree
   order    : Seq(PaneId),        \* tab display order (pane_order)
   focus    : PaneId]             \* focused_pane_id

\* A request without a position: Option::None for `insert_at`.
NoPosition == -1

\* The ids of the tiled panes, PTY and serial.
pane_ids(w) == w.panes \cup w.serial

\* All the panes a window owns, tiled and floating.
Owned(w) == pane_ids(w) \cup w.floating

\* Window::new and Window::new_with_pane: a single pane that has the focus.
NewWindow(p) ==
  [panes |-> {p}, serial |-> {}, floating |-> {}, layout |-> <<p>>,
   order |-> <<p>>, focus |-> p]

-----------------------------------------------------------------------------
(***************************************************************************)
(* The BSP tree, by its leaves.                                            *)
(***************************************************************************)

\* The position of the first leaf with id x (x must be there).
FirstIndex(s, x) ==
  CHOOSE i \in DOMAIN s : s[i] = x /\ \A j \in 1 .. (i - 1) : s[j] # x

\* SplitNode::insert_after: the new leaf goes to the right of the target;
\* without the target the tree is left alone and the method returns false.
insert_after(layout, target, new) ==
  IF target \in Range(layout)
  THEN InsertAt(layout, FirstIndex(layout, target) + 1, new)
  ELSE layout

\* SplitNode::remove: the sibling is promoted into the parent's place.  A
\* tree of one leaf answers RemoveSelf, which its callers ignore.
remove(layout, target) ==
  IF target \in Range(layout) /\ Len(layout) > 1
  THEN RemoveAt(layout, FirstIndex(layout, target))
  ELSE layout

\* SplitNode::swap_ids: one pass over the leaves, whether or not both ids
\* are in the tree.
swap_ids(layout, a, b) ==
  [i \in DOMAIN layout |->
     IF layout[i] = a THEN b ELSE IF layout[i] = b THEN a ELSE layout[i]]

-----------------------------------------------------------------------------
(***************************************************************************)
(* Tab order.                                                              *)
(***************************************************************************)

\* pane_order.retain(|&id| id != x).
retain_other(order, x) ==
  IF x \in Range(order) THEN RemoveAt(order, FirstIndex(order, x)) ELSE order

\* compute_insert_position, with 0-based positions; focusedIndex is
\* NoPosition when the focused pane is not in the order.
compute_insert_position(len, requested, focusedIndex) ==
  IF requested # NoPosition
  THEN IF requested < len THEN requested ELSE len
  ELSE IF focusedIndex # NoPosition /\ focusedIndex + 1 < len
       THEN focusedIndex + 1
       ELSE len

\* The 0-based position of x in the tab order: Iterator::position.
PositionOf(order, x) ==
  IF x \in Range(order) THEN FirstIndex(order, x) - 1 ELSE NoPosition

\* Mutant of compute_reordered: the requested ids are not checked against the
\* window, nor for repetitions.
compute_reordered_unchecked(current, requested, known) ==
  requested \o SelectSeq(current, LAMBDA id : id \notin Range(requested))

\* compute_reordered: the known ids of the request, then the others in their
\* present order, then known ids in neither, ascending.  Position i holds the
\* id that i - 1 known ids come before.
compute_reordered(current, requested, known) ==
  LET rank == [id \in known |->
        IF id \in Range(requested) THEN FirstIndex(requested, id)
        ELSE IF id \in Range(current) THEN Len(requested) + FirstIndex(current, id)
        ELSE Len(requested) + Len(current) + id]
      before == [id \in known |-> Cardinality({x \in known : rank[x] < rank[id]})]
  IN  [i \in 1 .. Cardinality(known) |->
         CHOOSE id \in known : before[id] = i - 1]

-----------------------------------------------------------------------------
(***************************************************************************)
(* Operations.                                                             *)
(***************************************************************************)

\* add_pane_with_options when the shell starts: leaf, pane, focus and tab.
\* Nothing happens when the focused pane has no leaf.
add_pane(w, new) ==
  IF w.focus \notin Range(w.layout)
  THEN w
  ELSE [w EXCEPT !.layout = insert_after(@, w.focus, new),
                 !.panes  = @ \cup {new},
                 !.focus  = new,
                 !.order  = Append(@, new)]

\* add_pane_with_options when Pane::spawn_with_options fails: `?` returns
\* after the leaf was inserted.
add_pane_spawn_failed(w, new) ==
  [w EXCEPT !.layout = insert_after(@, w.focus, new)]

\* add_serial_pane, once the port is open.
add_serial_pane(w, new) ==
  [w EXCEPT !.layout = insert_after(@, w.focus, new),
            !.serial = @ \cup {new},
            !.focus  = new,
            !.order  = Append(@, new)]

\* set_focused_pane: PTY panes only.
set_focused_pane(w, p) ==
  IF p \in w.panes THEN [w EXCEPT !.focus = p] ELSE w

\* Mutant of focus_next: the next id instead of the next pane.
focus_next_successor(w) ==
  IF w.focus \notin w.panes THEN w ELSE [w EXCEPT !.focus = @ + 1]

\* focus_next and focus_prev walk the PTY ids in ascending order, and do
\* nothing when the focused pane is not a PTY pane.
focus_next(w) ==
  LET above == {p \in w.panes : p > w.focus}
  IN  IF w.focus \notin w.panes THEN w
      ELSE [w EXCEPT !.focus = Min(IF above # {} THEN above ELSE w.panes)]

focus_prev(w) ==
  LET below == {p \in w.panes : p < w.focus}
  IN  IF w.focus \notin w.panes THEN w
      ELSE [w EXCEPT !.focus = Max(IF below # {} THEN below ELSE w.panes)]

\* remove_focused_pane refuses when there is at most one PTY pane.
can_remove_focused_pane(w) == Cardinality(w.panes) > 1

\* Mutant of remove_focused_pane: the focus stays on the pane that is gone.
remove_focused_pane_keeps_focus(w) ==
  [w EXCEPT !.layout = remove(@, w.focus),
            !.panes  = @ \ {w.focus},
            !.serial = @ \ {w.focus},
            !.order  = retain_other(@, w.focus)]

remove_focused_pane(w) ==
  [w EXCEPT !.layout = remove(@, w.focus),
            !.panes  = @ \ {w.focus},
            !.serial = @ \ {w.focus},
            !.order  = retain_other(@, w.focus),
            !.focus  = Min(w.panes \ {w.focus})]

\* swap_focused_with.
swap_focused_with(w, target) ==
  IF w.focus = target THEN w
  ELSE [w EXCEPT !.layout = swap_ids(@, w.focus, target)]

\* take_focused_pane returns Some exactly when there are two PTY panes and
\* the focused one is a PTY pane.
can_take_focused_pane(w) ==
  Cardinality(w.panes) > 1 /\ w.focus \notin w.serial /\ w.focus \in w.panes

\* take_focused_pane: the window that remains.  The leaf goes before the
\* serial check, so it is lost even when the method then returns None.
take_focused_pane(w) ==
  IF Cardinality(w.panes) <= 1 THEN w
  ELSE IF ~ can_take_focused_pane(w)
  THEN [w EXCEPT !.layout = remove(@, w.focus)]
  ELSE [w EXCEPT !.layout = remove(@, w.focus),
                 !.panes  = @ \ {w.focus},
                 !.order  = retain_other(@, w.focus),
                 !.focus  = Min(w.panes \ {w.focus})]

\* take_pane_by_id returns Some exactly for a PTY pane that is not the last.
can_take_pane_by_id(w, p) ==
  Cardinality(w.panes) > 1 /\ p \in w.panes /\ p \notin w.serial

\* Mutant of take_pane_by_id: the pane is handed out but not removed.
take_pane_by_id_shared(w, p) ==
  [w EXCEPT !.layout = remove(@, p),
            !.order  = retain_other(@, p),
            !.focus  = IF @ = p THEN Min(w.panes \ {p}) ELSE @]

take_pane_by_id(w, p) ==
  [w EXCEPT !.layout = remove(@, p),
            !.panes  = @ \ {p},
            !.order  = retain_other(@, p),
            !.focus  = IF @ = p THEN Min(w.panes \ {p}) ELSE @]

\* into_single_pane returns Some exactly for one PTY pane and no serial one.
can_be_single_pane(w) == w.serial = {} /\ Cardinality(w.panes) = 1

\* Mutant of insert_pane_at: the focus moves before the leaf is inserted, so
\* the leaf to insert after is not found.
insert_pane_at_focus_first(w, new, position) ==
  LET at == compute_insert_position(Len(w.order), position,
                                    PositionOf(w.order, new))
  IN  [w EXCEPT !.layout = insert_after(@, new, new),
                !.panes  = @ \cup {new},
                !.focus  = new,
                !.order  = InsertAt(@, at + 1, new)]

\* insert_pane_at.  The focus moves to the new pane before its own position
\* in the tab order is looked up, and the result of insert_after is dropped.
insert_pane_at(w, new, position) ==
  LET at == compute_insert_position(Len(w.order), position,
                                    PositionOf(w.order, new))
  IN  [w EXCEPT !.layout = insert_after(@, w.focus, new),
                !.panes  = @ \cup {new},
                !.focus  = new,
                !.order  = InsertAt(@, at + 1, new)]

\* reorder_panes, and the floating pane map.
reorder_panes(w, requested) ==
  [w EXCEPT !.order = compute_reordered(@, requested, pane_ids(w))]

open_floating_pane(w, new) == [w EXCEPT !.floating = @ \cup {new}]

close_floating_pane(w, p) == [w EXCEPT !.floating = @ \ {p}]
=============================================================================
