------------------------------ MODULE Session -------------------------------
(***************************************************************************)
(* A session of the nexterm server (nexterm-server/src/session.rs): its    *)
(* windows, the panes each of them owns, and the client requests that      *)
(* create, focus, move and close them.                                     *)
(*                                                                         *)
(* Every handler of ipc/window_dispatch.rs and ipc/pane_dispatch.rs locks  *)
(* the session for the whole of the change it makes, so one request is one *)
(* step, and requests of several clients interleave freely.  A client acts *)
(* on what it last heard: replies go to the requesting client only, so the *)
(* ids in a request may be of panes and windows another client has closed. *)
(***************************************************************************)
EXTENDS Window

CONSTANTS
  MaxPane,      \* bound on the pane ids ever issued (NEXT_PANE_ID)
  MaxWindow,    \* bound on the window ids ever issued (NEXT_WINDOW_ID)
  MaxRequest,   \* bound on the length of a ReorderPanes request
  SpawnFails,   \* may Pane::spawn return an error?
  SerialPorts,  \* do clients open serial panes?
  StaleWindows, \* may a request name a window that is gone?
  Broadcasts,   \* do clients switch broadcast mode?
  ForeignSwaps  \* may SwapPane name a pane that is not in the window?

ASSUME SessionAssumption ==
  /\ MaxPane \in Nat \ {0}
  /\ MaxWindow \in Nat \ {0}
  /\ MaxRequest \in Nat
  /\ SpawnFails \in BOOLEAN
  /\ SerialPorts \in BOOLEAN
  /\ StaleWindows \in BOOLEAN
  /\ Broadcasts \in BOOLEAN
  /\ ForeignSwaps \in BOOLEAN

VARIABLES
  windows,      \* HashMap<u32, Window>: a function on the live window ids
  focused,      \* focused_window_id
  broadcast,    \* input goes to every pane of the focused window
  nextPane,     \* NEXT_PANE_ID
  nextWindow    \* NEXT_WINDOW_ID

vars == <<windows, focused, broadcast, nextPane, nextWindow>>

PaneId   == 1 .. MaxPane
WindowId == 1 .. MaxWindow

\* focused_window(): Some exactly when this holds.
HasFocusedWindow == focused \in DOMAIN windows

\* The session's map with the window id set to w, or without it.
WithWindow(ws, id, w) == [i \in DOMAIN ws \cup {id} |-> IF i = id THEN w ELSE ws[i]]
WithoutWindow(ws, id) == [i \in DOMAIN ws \ {id} |-> ws[i]]

\* The window ids a request may name: any id ever issued, or a live one.
NameableWindows == IF StaleWindows THEN 1 .. (nextWindow - 1) ELSE DOMAIN windows

\* Session::new_in_workspace: one window with one pane.
Init ==
  /\ windows = [i \in {1} |-> NewWindow(1)]
  /\ focused = 1
  /\ broadcast = FALSE
  /\ nextPane = 2
  /\ nextWindow = 2

-----------------------------------------------------------------------------
(***************************************************************************)
(* Requests about the focused window.                                      *)
(***************************************************************************)

\* The focused window becomes w; the session is otherwise left alone.
SetFocusedWindow(w) ==
  /\ windows' = [windows EXCEPT ![focused] = w]
  /\ UNCHANGED <<focused, broadcast, nextWindow>>

\* SplitVertical, SplitHorizontal, SplitWithShell.
Split ==
  /\ HasFocusedWindow
  /\ nextPane <= MaxPane
  /\ nextPane' = nextPane + 1
  /\ SetFocusedWindow(add_pane(windows[focused], nextPane))

\* The same when the shell cannot be started (a mistyped profile command).
SplitSpawnFails ==
  /\ SpawnFails
  /\ HasFocusedWindow
  /\ nextPane <= MaxPane
  /\ nextPane' = nextPane + 1
  /\ SetFocusedWindow(add_pane_spawn_failed(windows[focused], nextPane))

ConnectSerial ==
  /\ SerialPorts
  /\ HasFocusedWindow
  /\ nextPane <= MaxPane
  /\ nextPane' = nextPane + 1
  /\ SetFocusedWindow(add_serial_pane(windows[focused], nextPane))

ClosePane ==
  /\ HasFocusedWindow
  /\ can_remove_focused_pane(windows[focused])
  /\ SetFocusedWindow(remove_focused_pane(windows[focused]))
  /\ UNCHANGED nextPane

FocusPane(p) ==
  /\ HasFocusedWindow
  /\ SetFocusedWindow(set_focused_pane(windows[focused], p))
  /\ UNCHANGED nextPane

FocusNextPane ==
  /\ HasFocusedWindow
  /\ SetFocusedWindow(focus_next(windows[focused]))
  /\ UNCHANGED nextPane

FocusPrevPane ==
  /\ HasFocusedWindow
  /\ SetFocusedWindow(focus_prev(windows[focused]))
  /\ UNCHANGED nextPane

ReorderPanes(requested) ==
  /\ HasFocusedWindow
  /\ SetFocusedWindow(reorder_panes(windows[focused], requested))
  /\ UNCHANGED nextPane

\* SwapPane: the target is whatever id the client sent.
SwapPane(target) ==
  /\ HasFocusedWindow
  /\ ForeignSwaps \/ target \in pane_ids(windows[focused])
  /\ SetFocusedWindow(swap_focused_with(windows[focused], target))
  /\ UNCHANGED nextPane

OpenFloatingPane ==
  /\ HasFocusedWindow
  /\ nextPane <= MaxPane
  /\ nextPane' = nextPane + 1
  /\ SetFocusedWindow(open_floating_pane(windows[focused], nextPane))

CloseFloatingPane(p) ==
  /\ HasFocusedWindow
  /\ p \in windows[focused].floating
  /\ SetFocusedWindow(close_floating_pane(windows[focused], p))
  /\ UNCHANGED nextPane

\* SetBroadcast.
SetBroadcast(enabled) ==
  /\ Broadcasts
  /\ broadcast' = enabled
  /\ UNCHANGED <<windows, focused, nextPane, nextWindow>>

-----------------------------------------------------------------------------
(***************************************************************************)
(* Requests about windows.                                                 *)
(***************************************************************************)

\* NewWindow -> add_window.
AddWindow ==
  /\ nextPane <= MaxPane /\ nextWindow <= MaxWindow
  /\ windows' = WithWindow(windows, nextWindow, NewWindow(nextPane))
  /\ focused' = nextWindow
  /\ nextPane' = nextPane + 1
  /\ nextWindow' = nextWindow + 1
  /\ UNCHANGED broadcast

\* Mutant of CloseWindow: the focus is not moved off the closed window.
CloseWindowKeepsFocus(id) ==
  /\ Cardinality(DOMAIN windows) > 1
  /\ id \in DOMAIN windows
  /\ windows' = WithoutWindow(windows, id)
  /\ UNCHANGED <<focused, broadcast, nextPane, nextWindow>>

\* CloseWindow -> remove_window.  HashMap::keys().next() picks any survivor.
CloseWindow(id) ==
  /\ Cardinality(DOMAIN windows) > 1
  /\ id \in DOMAIN windows
  /\ windows' = WithoutWindow(windows, id)
  /\ IF focused = id THEN focused' \in DOMAIN windows \ {id}
                     ELSE UNCHANGED focused
  /\ UNCHANGED <<broadcast, nextPane, nextWindow>>

FocusWindow(id) ==
  /\ id \in DOMAIN windows
  /\ focused' = id
  /\ UNCHANGED <<windows, broadcast, nextPane, nextWindow>>

-----------------------------------------------------------------------------
(***************************************************************************)
(* Moving panes between windows.                                           *)
(***************************************************************************)

\* BreakPane: the focused pane becomes a window of its own.
BreakPane ==
  LET w == windows[focused]
  IN  /\ HasFocusedWindow
      /\ can_take_focused_pane(w)
      /\ nextWindow <= MaxWindow
      /\ windows' = WithWindow([windows EXCEPT ![focused] = take_focused_pane(w)],
                               nextWindow, NewWindow(w.focus))
      /\ focused' = nextWindow
      /\ nextWindow' = nextWindow + 1
      /\ UNCHANGED <<broadcast, nextPane>>

\* BreakPane or JoinPane answered with an error by take_focused_pane.
TakeFocusedRefused ==
  /\ HasFocusedWindow
  /\ ~ can_take_focused_pane(windows[focused])
  /\ SetFocusedWindow(take_focused_pane(windows[focused]))
  /\ UNCHANGED nextPane

\* JoinPane: the focused pane moves into another window.
JoinPane(target) ==
  LET w == windows[focused]
  IN  /\ HasFocusedWindow
      /\ target # focused
      /\ can_take_focused_pane(w)
      /\ target \in DOMAIN windows
      /\ windows' = [windows EXCEPT ![focused] = take_focused_pane(w),
                                    ![target]  = insert_pane_at(@, w.focus, NoPosition)]
      /\ focused' = target
      /\ UNCHANGED <<broadcast, nextPane, nextWindow>>

\* JoinPane with the id of a window that is gone: the pane is already out of
\* its window when the lookup fails, and is dropped.
JoinMissingWindow(target) ==
  LET w == windows[focused]
  IN  /\ HasFocusedWindow
      /\ can_take_focused_pane(w)
      /\ target \notin DOMAIN windows
      /\ SetFocusedWindow(take_focused_pane(w))
      /\ UNCHANGED nextPane

\* move_pane, first half: the source window's last pane takes the window
\* with it (into_single_pane), any other is taken by id.
IsLastPane(src) == Cardinality(pane_ids(windows[src])) <= 1

CanTake(src, p) ==
  IF IsLastPane(src) THEN can_be_single_pane(windows[src])
                     ELSE can_take_pane_by_id(windows[src], p)

\* Mutant of AfterTake: the source window is always taken as a whole.
AfterTakeWindowGone(src, p) == WithoutWindow(windows, src)

AfterTake(src, p) ==
  IF IsLastPane(src) THEN WithoutWindow(windows, src)
  ELSE [windows EXCEPT ![src] = take_pane_by_id(@, p)]

\* MovePaneToWindow with target_window_id = 0.
MovePaneToNewWindow(src, p) ==
  /\ p \in pane_ids(windows[src])
  /\ CanTake(src, p)
  /\ nextWindow <= MaxWindow
  /\ windows' = WithWindow(AfterTake(src, p), nextWindow, NewWindow(p))
  /\ focused' = nextWindow
  /\ nextWindow' = nextWindow + 1
  /\ UNCHANGED <<broadcast, nextPane>>

\* MovePaneToWindow into a window of the session.
MovePaneToWindow(src, p, target, position) ==
  /\ p \in pane_ids(windows[src])
  /\ src # target
  /\ CanTake(src, p)
  /\ target \in DOMAIN windows
  /\ windows' = [AfterTake(src, p) EXCEPT ![target] = insert_pane_at(@, p, position)]
  /\ focused' = target
  /\ UNCHANGED <<broadcast, nextPane, nextWindow>>

\* MovePaneToWindow with the id of a window that is gone: the pane, and with
\* the last pane its window, is out of the session when the lookup fails.
MovePaneToMissingWindow(src, p, target) ==
  /\ p \in pane_ids(windows[src])
  /\ CanTake(src, p)
  /\ target \notin DOMAIN windows
  /\ windows' = AfterTake(src, p)
  /\ UNCHANGED <<focused, broadcast, nextPane, nextWindow>>

-----------------------------------------------------------------------------
\* The ReorderPanes requests considered.
Requests == UNION {[1 .. n -> 1 .. (nextPane - 1)] : n \in 0 .. MaxRequest}

FocusedWindowRequest ==
  \/ Split \/ SplitSpawnFails \/ ConnectSerial
  \/ ClosePane \/ FocusNextPane \/ FocusPrevPane
  \/ \E p \in PaneId : FocusPane(p) \/ CloseFloatingPane(p)
  \/ \E target \in 1 .. (nextPane - 1) : SwapPane(target)
  \/ \E requested \in Requests : ReorderPanes(requested)
  \/ OpenFloatingPane

WindowRequest ==
  \/ AddWindow
  \/ \E id \in WindowId : CloseWindow(id) \/ FocusWindow(id)
  \/ \E enabled \in BOOLEAN : SetBroadcast(enabled)

\* The requests that move a pane and are not meant to end one.
MoveRequest ==
  \/ BreakPane
  \/ TakeFocusedRefused
  \/ \E target \in NameableWindows : JoinPane(target) \/ JoinMissingWindow(target)
  \/ \E src \in DOMAIN windows, p \in PaneId :
       \/ MovePaneToNewWindow(src, p)
       \/ \E target \in NameableWindows :
            \/ MovePaneToMissingWindow(src, p, target)
            \/ \E position \in {NoPosition} \cup 0 .. MaxPane :
                 MovePaneToWindow(src, p, target, position)

Next == FocusedWindowRequest \/ WindowRequest \/ MoveRequest

Spec == Init /\ [][Next]_vars

-----------------------------------------------------------------------------
(***************************************************************************)
(* Properties.                                                             *)
(***************************************************************************)

\* Every variable has its type; windows is a map from issued ids.
TypeOK ==
  /\ DOMAIN windows \subseteq WindowId
  /\ windows \in [DOMAIN windows -> WindowOver(PaneId)]
  /\ focused \in WindowId
  /\ broadcast \in BOOLEAN
  /\ nextPane \in 1 .. (MaxPane + 1)
  /\ nextWindow \in 1 .. (MaxWindow + 1)

\* A pane has one owner: no pane is in two windows, or in two of the maps of
\* one window, and every live pane has an id below the counter.  Moving and
\* joining panes (session.rs, move_pane, join_pane) must never duplicate one.
OwnedOnce ==
  /\ \A i \in DOMAIN windows :
       LET w == windows[i]
       IN  /\ \A p \in Owned(w) : p < nextPane
           /\ w.panes \cap w.serial = {}
           /\ pane_ids(w) \cap w.floating = {}
  /\ \A i, j \in DOMAIN windows :
       i # j => Owned(windows[i]) \cap Owned(windows[j]) = {}

\* The focused pane of a window is one of its tiled panes, and a window never
\* runs out of PTY panes: write_to_focused always has a pane to write to, and
\* the `expect`s on a remaining pane in window/mod.rs cannot fail.
FocusLive ==
  \A i \in DOMAIN windows :
    /\ windows[i].focus \in pane_ids(windows[i])
    /\ windows[i].panes # {}

\* pane_order lists every tiled pane of its window exactly once, whatever
\* splits, moves and ReorderPanes requests the clients sent: the tab bar shows
\* neither a dead tab nor a pane twice.
OrderIsPermutation ==
  \A i \in DOMAIN windows :
    /\ IsInjective(windows[i].order)
    /\ Range(windows[i].order) = pane_ids(windows[i])

\* Every tiled pane has exactly one leaf of the BSP tree and every leaf is a
\* pane: no ghost pane that is never drawn (window/mod.rs, add_pane_with_options)
\* and no leaf that reserves room for a pane that does not exist.
LeavesMatchPanes ==
  \A i \in DOMAIN windows :
    /\ IsInjective(windows[i].layout)
    /\ Range(windows[i].layout) = pane_ids(windows[i])

\* The half of LeavesMatchPanes that the comment in add_pane_with_options
\* states: no pane of the maps or of pane_order lacks a leaf.
NoGhostPane ==
  \A i \in DOMAIN windows :
    pane_ids(windows[i]) \cup Range(windows[i].order) \subseteq Range(windows[i].layout)

\* focused_window_id always refers to a live window (session.rs,
\* restore_from_snapshot): without one every request is silently ignored.
FocusedWindowLive == HasFocusedWindow

\* Breaking, joining and moving a pane keeps every tiled pane of the session.
TiledPanes == UNION {pane_ids(windows[i]) : i \in DOMAIN windows}
MovesConservePanes == [][TiledPanes' # TiledPanes => ~ MoveRequest]_vars
=============================================================================
