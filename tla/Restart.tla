------------------------------ MODULE Restart -------------------------------
(***************************************************************************)
(* A session across restarts of the server: what a snapshot keeps of it    *)
(* (Session::to_snapshot, Window::to_snapshot), how it is built again from *)
(* the snapshot on disk (restore_from_snapshot of both) and what the       *)
(* server then does to the id counters and to the file (lib.rs,            *)
(* run_server_inner).                                                      *)
(*                                                                         *)
(* Everything between the death of the old server and the first request to *)
(* the new one happens before ipc::serve, so it is one step.  Saving is    *)
(* one step here too; Snapshots takes it apart.                            *)
(*                                                                         *)
(* The file is restored unchecked, so what a session was when it was saved *)
(* matters for what it is after a restart.  Two history variables, which   *)
(* no action reads, let the properties speak of that.                      *)
(***************************************************************************)
EXTENDS Session

VARIABLES
  exists,   \* is the session in the manager's map?
  disk,     \* the session as snapshot.json has it, Nothing without one
  troubles, \* history: the requests that left a tree at odds with its panes
  saved     \* history: the session when the file was written

restartVars == <<vars, exists, disk, troubles, saved>>

\* A leaf without a shell (add_pane_with_options when the spawn fails), a swap
\* with a pane the window does not have, and a serial pane that lost its leaf
\* when it was to be taken out of its window.
Trouble == {"ghost", "foreign", "refused"}

NoWindows == [i \in {} |-> NewWindow(1)]

\* No file, a file that does not load, and a snapshot without sessions.
Nothing == [windows |-> [i \in {} |-> <<>>], focused |-> 1]

\* What `saved` remembers: the tiled panes and the focus of every window, the
\* focused window and the troubles so far.
Remembered(ws, f, t) ==
  [windows |-> [i \in DOMAIN ws |-> [panes |-> pane_ids(ws[i]), focus |-> ws[i].focus]],
   focused |-> f, troubles |-> t]

RestartInit ==
  /\ Init
  /\ exists = TRUE
  /\ disk = Nothing
  /\ troubles = {}
  /\ saved = Remembered(NoWindows, 1, {})

-----------------------------------------------------------------------------
(***************************************************************************)
(* Snapshots.                                                              *)
(***************************************************************************)

\* Mutant of window_snapshot: the first tab is saved as the focused pane.
window_snapshot_first_tab(w) == [layout |-> w.layout, focus |-> Head(w.order)]

\* Window::to_snapshot: the tree and the focus.  Tab order, floating panes and
\* the kinds of the panes are not saved.
window_snapshot(w) == [layout |-> w.layout, focus |-> w.focus]

\* Session::to_snapshot.
session_snapshot(ws, f) ==
  [windows |-> [i \in DOMAIN ws |-> window_snapshot(ws[i])], focused |-> f]

\* Mutant of window_restored: the tab order starts with the focused pane only.
window_restored_one_tab(snap) ==
  [panes |-> Range(snap.layout), serial |-> {}, floating |-> {},
   layout |-> snap.layout, order |-> <<snap.focus>>, focus |-> snap.focus]

\* Window::restore_from_snapshot: a shell for every leaf, in the order of the
\* tree; the focus is taken over as it is.
window_restored(snap) ==
  [panes |-> Range(snap.layout), serial |-> {}, floating |-> {},
   layout |-> snap.layout, order |-> snap.layout, focus |-> snap.focus]

\* The windows that can be restored at all: a pane id must not have two leaves.
Restorable(snap) == {i \in DOMAIN snap.windows : IsInjective(snap.windows[i].layout)}

\* max_pane_id_in_snapshot, max_window_id_in_snapshot.
max_pane_id(snap) ==
  Max({0} \cup UNION {Range(snap.windows[i].layout) : i \in DOMAIN snap.windows})
max_window_id(snap) == Max({0} \cup DOMAIN snap.windows)

\* Mutants of set_min_id: the counter is not raised; it is added to.
set_min_id_forgotten(min) == 1
set_min_id_added(min) == 1 + min

\* set_min_pane_id, set_min_window_id: fetch_max on a counter that is 1.
set_min_id(min) == Max({1, min})

-----------------------------------------------------------------------------
(***************************************************************************)
(* The life of the session.                                                *)
(***************************************************************************)

\* The requests that make trouble.
ForeignSwap ==
  \E target \in 1 .. (nextPane - 1) :
    target \notin pane_ids(windows[focused]) /\ SwapPane(target)

SerialTakeRefused ==
  windows[focused].focus \in windows[focused].serial /\ TakeFocusedRefused

TroublesMade ==
  {t \in Trouble : \/ t = "ghost"   /\ SplitSpawnFails
                   \/ t = "foreign" /\ ForeignSwap
                   \/ t = "refused" /\ SerialTakeRefused}

\* The requests of Session reach the session while it is in the map.
Serve ==
  /\ exists /\ Next
  /\ troubles' = troubles \cup TroublesMade
  /\ UNCHANGED <<exists, disk, saved>>

\* kill_session drops it, with its windows.
KillSession ==
  /\ exists
  /\ exists' = FALSE
  /\ windows' = NoWindows
  /\ troubles' = {}
  /\ UNCHANGED <<focused, broadcast, nextPane, nextWindow, disk, saved>>

\* Attach finds no session of that name and creates one, with the next ids.
CreateSession ==
  /\ ~ exists
  /\ nextPane <= MaxPane /\ nextWindow <= MaxWindow
  /\ exists' = TRUE
  /\ windows' = [i \in {nextWindow} |-> NewWindow(nextPane)]
  /\ focused' = nextWindow
  /\ broadcast' = FALSE
  /\ nextPane' = nextPane + 1
  /\ nextWindow' = nextWindow + 1
  /\ troubles' = {}
  /\ UNCHANGED <<disk, saved>>

\* The auto-save and the save at shutdown: a server without sessions keeps the
\* file as it is.
Save ==
  /\ exists
  /\ disk' = session_snapshot(windows, focused)
  /\ saved' = Remembered(windows, focused, troubles)
  /\ UNCHANGED <<vars, exists, troubles>>

\* Mutant of FocusRestored: the persisted focused window is trusted.
FocusTrusted(kept) == focused' = disk.focused

\* The focused window, or any restored one if that did not come back.
FocusRestored(kept) ==
  IF disk.focused \in kept THEN focused' = disk.focused ELSE focused' \in kept

\* The server starts again and the windows of `kept` are restored.  If some
\* are missing the file is rewritten with what is there; that save may fail.
\* A leaf that had no shell gets one.
RestartWith(kept) ==
  /\ kept # {}
  /\ kept \subseteq Restorable(disk)
  /\ exists' = TRUE
  /\ windows' = [i \in kept |-> window_restored(disk.windows[i])]
  /\ FocusRestored(kept)
  /\ broadcast' = FALSE
  /\ nextPane' = set_min_id(max_pane_id(disk) + 1)
  /\ nextWindow' = set_min_id(max_window_id(disk) + 1)
  /\ troubles' = saved.troubles \ {"ghost"}
  /\ \/ UNCHANGED <<disk, saved>>
     \/ /\ kept # DOMAIN disk.windows
        /\ disk' = session_snapshot(windows', focused')
        /\ saved' = Remembered(windows', focused', troubles')

\* Nothing could be restored: the counters start again.
RestartEmpty ==
  /\ exists' = FALSE
  /\ windows' = NoWindows
  /\ focused' = 1 /\ broadcast' = FALSE
  /\ nextPane' = 1 /\ nextWindow' = 1
  /\ troubles' = {}
  /\ \/ UNCHANGED <<disk, saved>>
     \/ disk' = Nothing /\ saved' = Remembered(NoWindows, 1, {})

RestartNext ==
  \/ Serve \/ KillSession \/ CreateSession \/ Save
  \/ \E kept \in SUBSET DOMAIN disk.windows : RestartWith(kept)
  \/ RestartEmpty

RestartSpec == RestartInit /\ [][RestartNext]_restartVars

-----------------------------------------------------------------------------
(***************************************************************************)
(* Properties.                                                             *)
(***************************************************************************)

\* Session's variables have their types and the snapshot on disk is one of a
\* session with issued ids.
RestartTypeOK ==
  /\ TypeOK
  /\ exists \in BOOLEAN
  /\ DOMAIN disk.windows \subseteq WindowId
  /\ \A i \in DOMAIN disk.windows :
       disk.windows[i] \in [layout : Seq(PaneId), focus : PaneId]
  /\ disk.focused \in WindowId
  /\ troubles \subseteq Trouble /\ saved.troubles \subseteq Trouble

\* No tree holds an id of another window or misses one of its own.
NotTorn(t) == t \cap {"foreign", "refused"} = {}

\* While the session is in the map it has a live focused window, whichever
\* windows failed to come back (session.rs, Session::restore_from_snapshot).
RestoredFocusLive == exists => FocusedWindowLive

\* A window has one leaf for each of its panes, PTY and serial, through any
\* requests and restarts, until a spawn fails, a swap names a foreign pane or a
\* serial pane is refused: a failed spawn is made good by a restart
\* (window/mod.rs, add_pane_with_options and Window::restore_from_snapshot).
TreesMatchUnlessTroubled == troubles = {} => LeavesMatchPanes

\* Ids stay unique across restarts and partial restores: a pane has one owner
\* and the next id issued is above every id in use (lib.rs, set_min_pane_id),
\* whatever spawns fail, unless the file was written after a foreign swap or the
\* refusal of a serial pane: those put one id in two trees.
RestoredOwnedOnce ==
  NotTorn(troubles) => OwnedOnce /\ \A i \in DOMAIN windows : i < nextWindow

\* A restored window has a live focus and a tab for every pane, although the
\* focus is taken from the file unchecked (window/mod.rs, focused_pane_id),
\* unless the file was written after one of the two requests that take the
\* leaf of a pane away.
RestoredWindowsGood == NotTorn(troubles) => FocusLive /\ OrderIsPermutation

\* A restart brings back the last save and nothing older: every window that
\* comes back has the tiled panes and the focus it had then, and the session its
\* focused window if that one does, also when the file was rewritten after a
\* partial restore or a session of that name was killed and created in between.
\* After a failed spawn there may be panes more, one for each leaf without a
\* shell (lib.rs, the auto-save; window/mod.rs, Window::to_snapshot).
RestoredAsSaved ==
  [][\A kept \in SUBSET DOMAIN disk.windows :
       RestartWith(kept) /\ NotTorn(saved.troubles) =>
         /\ \A i \in kept :
              /\ windows'[i].focus = saved.windows[i].focus
              /\ saved.windows[i].panes \subseteq pane_ids(windows'[i])
              /\ saved.troubles = {} => pane_ids(windows'[i]) = saved.windows[i].panes
         /\ saved.focused \in kept => focused' = saved.focused]_restartVars
=============================================================================
