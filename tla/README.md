# A TLA+ model of Nexterm

Nexterm is a terminal multiplexer: a server owns sessions, windows and panes,
each pane runs a shell on a PTY, and GPU and text clients attach over a local
socket (or a browser over a web socket) and display them. This directory models
the parts of it where several actors or several collections have to agree,
checks them with TLC and proves the central invariants with TLAPS. Paths below
are relative to the repository root, file names to the crate they are in.

## The system

| Part | State | Operations | What is hard about it |
|---|---|---|---|
| Window (`nexterm-server/src/window/`) | PTY, serial and floating panes, BSP tree, tab order, focus, zoom, tiling mode | split, close, focus, swap, reorder, take out, put in, float, zoom, resize | four collections that must agree; every operation updates several of them, some return early after the first |
| Session (`session.rs`) | windows, focused window, broadcast flag, size | new/close/focus window, break, join and move panes, input | requests name ids that another client has closed; a move fails half way |
| Connection (`ipc/handler.rs`, `ipc/*_dispatch.rs`) | handshake, current session, forwarder task, bounded outbox of 256 messages | one handler per request | a session is named, looked up several times and killed in between; handlers and forwarder share the outbox |
| Pane (`pane.rs`) | PTY, `latest_grid`, scrollback mirror, recording, log | reader thread: parse, store, broadcast | the reader thread takes no session lock; the broadcast ring of 2048 messages drops what slow receivers miss |
| Workspaces (`session.rs`, `SessionManager`) | known names, current name, the name each session carries | create, switch, rename, delete | three locks, never all held; renames and deletions visit sessions one by one |
| Persistence (`persist.rs`, `snapshot.rs`, `lib.rs`) | snapshot file, temporary file, id counters | save every 30 s and on shutdown, restore, self-heal | crashes between any two steps, partial restores, a temporary file that saves share |
| Layout (`window/bsp.rs`, `tiling.rs`, `floating.rs`) | rectangles of tiles and floating panes, PTY sizes | split, ratio, tiling, zoom, resize | `u16` subtraction, lengths of 0 and 1, windows that are resized while another has the focus |
| VT (`nexterm-vt`) | screen, cursor, scroll region, dirty rows, alternate buffer | escape sequences | clients see dirty rows only, so a row that changes unmarked is lost |
| Clients (`nexterm-client-gpu`) | grids, layout, scrollback ring, command blocks | apply server messages, input | a diff means nothing without the grid it applies to; rings that wrap and change their capacity |
| Drawing (`renderer/`, `glyph_atlas.rs`) | cached vertices, dirty marks, redraw requests, glyph atlas | frames, frame cap, overflow and growth of the atlas | vertices outlive the grid and the texture they were built from; the screen is drawn on request only |
| Web terminal (`web/`) | web sockets, login sessions, one-time passwords, rate limits | attach, login | expiry against use, counters at their limits |
| Configuration and hooks (`nexterm-config`, `runtime_config.rs`, `hooks.rs`, the client's `settings/`) | file, shared snapshot of the configuration, the copy in the settings panel | reload on a file change, adjust, save | editor, panel and watcher share one file; copies are stale until the reload arrives |
| Plugins (`nexterm-plugin`, `plugin_read.rs`) | loaded WASM guests, read policy | load, unload, dispatch | mostly the WASM runtime |

A handler looks its session up in the manager's map, locks it, changes it and
composes a reply, which goes to the requesting connection only. A reader thread
runs the parser, stores the dirty rows in `latest_grid` and broadcasts them as a
diff to every attached connection. The forwarder of a connection copies the
broadcast ring to the outbox and, when it lagged, locks the session to replay the
focused window. Workspace operations and snapshots visit the sessions through
their own locks. A client applies what it receives in order and sends requests
from what it last heard.

What makes each part correct: a pane has one owner, a live focus, one tab and
one leaf of the tree; moving a pane loses none; a session has a focused window;
tiles cover the window and every PTY has the size of its tile; a client that has
received everything displays what the panes contain, and a scrollback what left
the screen; what is drawn is the grid and the glyphs as they are; a connection is served by
the session it names and leaves no task
behind; handlers finish and lagging clients catch up; a session's workspace
exists; a crash leaves a whole file, and a restart brings back what was saved
and issues no id twice.

## Modules

| Module | What it is | Extends |
|---|---|---|
| `Window` | operators: a window's pane maps, tab order and the leaves of its tree | |
| `Session` | state machine: the windows of one session | `Window` |
| `Restart` | state machine: a session that is saved, killed and restored | `Session` |
| `Workspaces` | state machine: names, sessions and locks of the `SessionManager` | |
| `Snapshots` | state machine: saving and restoring the manager, file by file | `Workspaces` |
| `Connection` | state machine: peers, session names and forwarders | |
| `Delivery` | state machine: output on its way to the clients' grids | |
| `Extent` | operators: lengths, clamping, floating rectangles | |
| `Geometry` | operators: trees of rectangles and the tiling layout | `Extent` |
| `Layout` | state machine: tiles and PTY sizes of a session | `Geometry` |
| `Screen` | state machine: parser, mirror of the screen, both scrollbacks | |
| `History` | abstract specification: what a scrollback promises | |
| `Blocks` | state machine: a client's command blocks | |
| `Frames` | state machine: redraws, frames and the vertices kept for panes | |
| `Atlas` | state machine: the glyph atlas and its two caches | |
| `Settings` | state machine: the configuration file, its watcher and the settings panel | |
| `Calendar` | state machine: days, and the date the status bar makes of them | |

`MC*` modules hold symmetry sets, values of constants and state constraints; `*Proofs`
modules the theorems: `SessionProofs` (`Window`, `Session`, `Restart`), `SnapshotsProofs`
(`Workspaces`, `Snapshots`), `ConnectionProofs`, `DeliveryProofs`, `LayoutProofs` (`Extent`,
`Geometry`, `Layout`), `ScreenProofs` and `ClientProofs` (`Frames`, `Atlas`, `Settings`).
`CountingLemmas` has what several of them need: least and greatest elements, counting up
to a bound, staircases, sequences that are cut or shortened, sets numbered in order.

### Window, Session, Restart

The BSP tree is the sequence of its leaves in `Window`: `insert_after`, `remove`
and `swap_ids` keep the other leaves in order, and ratios and directions matter
to `Geometry` only. Maps of panes are sets of ids. Every handler locks the
session for the whole of its change, so a request is one action of `Session`;
clients are not told apart because a session cannot tell them apart either.
Constants say which troubles happen: `SpawnFails`, `SerialPorts`, `StaleWindows`
(requests that name windows that are gone), `ForeignSwaps` (a swap names a pane
of another window) and `Broadcasts`.

| Action | Code |
|---|---|
| `Split`, `SplitSpawnFails` | `handle_split_with`, `Window::add_pane_with_options` |
| `ConnectSerial` | `SessionManager::connect_serial`, `Window::add_serial_pane` |
| `ClosePane`, `FocusPane`, `FocusNextPane`, `FocusPrevPane`, `ReorderPanes`, `SwapPane`, `OpenFloatingPane`, `CloseFloatingPane` | the handlers of `ipc/pane_dispatch.rs` |
| `AddWindow`, `CloseWindow`, `FocusWindow`, `SetBroadcast` | `Session::add_window`, `remove_window`, `focus_window`, `set_broadcast` |
| `BreakPane`, `JoinPane`, `JoinMissingWindow`, `TakeFocusedRefused` | `Session::break_pane`, `join_pane` |
| `MovePaneToNewWindow`, `MovePaneToWindow`, `MovePaneToMissingWindow` | `Session::move_pane` |
| `Restart`: `Save`, `KillSession`, `CreateSession` | `Session::to_snapshot`, `kill_session`, `create_session` |
| `Restart`: `RestartWith(kept)`, `RestartEmpty` | `restore_from_snapshot` of session and window, `set_min_*_id` and the self-healing save of `run_server_inner` |

`kept` is the set of windows whose shells start again. A window whose tree
repeats a pane id is refused, so it is never in `kept`. Beyond that the file is
restored unchecked, so a session that was at odds with itself when it was saved is so
after a restart. Two history variables let the properties speak of it: `troubles` has the
kinds of requests that left a tree at odds with its panes (`"ghost"`, a split whose spawn
fails leaves a leaf without a pane; `"foreign"`, a swap with a pane of another window;
`"refused"`, a serial pane that lost its leaf when it was to be taken out), and `saved` is the
session as it was when the file was written.

### Workspaces, Snapshots

One action per critical section of `create_session`, `kill_session`,
`rename_workspace` and `delete_workspace`; `op` holds what a task remembers
between two of them. `ConcurrentAdmin` and `CreateWhileDelete` restrict which
operations may overlap; with both TRUE everything the code allows happens.
`Snapshots` adds tasks that save (`SaveCollect`, `SaveState`, `SaveSession`,
`SaveRead`: the three locks of `SessionManager::to_snapshot`; `SaveOpen`,
`SaveWrite`, `SaveRename`, `SaveFails`: `write_atomic_secure`) and `Restart`,
which is also a crash: it is possible at every step. A task's descriptor names
what it refers to (`"tmp"`, `"disk"` or `"gone"`), because a rename by one task
turns the file another one is writing into the snapshot.

### Connection

A connection knows its session by name and its forwarder holds a receiver of one
session, so sessions are numbered by their creation. `Attach`, `AttachCreate`,
`AttachFails`, `Subscribe` and `Redraw` are the lookups of `handle_attach`;
`Detach`, `KillSession` and `Request` the other handlers (`Request` stands for all
that act on the current session and draw it again); `Connect`, `Hello` and `Close`
the receive loop of `handler.rs`; `TaskEnds` a forwarder whose channel closed;
`Browser*` the web socket of `web/handlers/ws.rs`, which is its own forwarder.
`replaced` is a history variable: a session of that name was killed since the
attach began.

### Delivery

A grid is a version number per row, and a burst of output sets one row of one
pane. The actors are the readers (`StoreGrid`, then `BroadcastDiff`), the
forwarder of each connection (`Receive`, `Lag`, `Resync`, `ForwardNext`), its
handler (the requests, the steps in which replies are composed, `SendReply`) and
the client (`Apply`). `lock` is the session lock where it is held over a wait:
`handle_set_broadcast` sends its reply with the guard alive; the other handlers
take and release it within a step. `behind` is a history variable: the panes of
which a client may miss output. tokio's broadcast channel is external: it keeps
the last `Ring` messages, and a receiver that has fallen behind is told so once
and continues at the oldest.

### Extent, Geometry, Layout

`split_extent`, `FloatRect::clamp_to`, the rectangles of a tree, the ratio of
`ResizeSplit` and the columns of the tiling mode, in whole cells; a ratio is a
number of tenths, since the code only produces those. The code's tree of boxes is, in
`Geometry`, the function from each pane to the way down to it: the splits on the way, each
with its direction, its ratio and the child taken. Two panes are below one split where their
ways agree (`Below`), so that `insert_after` makes a way longer by one, `remove` takes
one split out of the ways of the sibling's panes, `adjust_ratio_for` changes one split in all
ways that go through it, and `compute` follows each way with a rectangle. `TreeOK` says that
the ways are those of a tree. `Layout` has the requests
that change sizes (`Split`, `ClosePane`, `ResizeSplit`, `ToggleZoom`,
`SetLayoutMode`, `Focus`, `SwapPane`, the floating panes, `Resize`, windows and
moves of panes). The code lays a split out before it puts the new pane into the window: with a tree it asks
a tree that has the new leaf already, in tiling mode the panes without the new one, so that
`add_pane` gives the new PTY the whole window there and the others the tiling of one pane
less. `off` is a history variable with the reasons why PTYs of a window
may be off their tiles (`"size"`: it missed a resize, `"swap"`, `"split"`: it was split in
tiling mode) and floating panes outside of it (`"float"`: one was opened when it had missed a
resize).

### Screen, History, Blocks

One action of `Screen` per parser operation: `PrintChar` with deferred wrap and
wide characters, `LineFeed`, `MoveCursor`, `SetScrollRegion`, `EraseInLine`,
`EraseInDisplay`, `AlternateScreen`, `SynchronizedOutput`; `EndBurst` is what the
reader does after `parse_bytes` (mirror, scrollback, diff, and the client's
`apply_diff`); `SetCapacity` is a configuration reload. `gone` and `spilled` are history
variables: the lines that left the top of the primary screen, and whether one of them left a
region that ends above the last row. `History` is the abstract
specification of a bounded record of lines: whatever lines come at once, it then keeps
exactly the newest of those it had and those that came, in order. `ServerKeepsHistory` and
`ClientKeepsHistory` instantiate it with the server's mirror, to which the lines come that
the parser scrolled out in a burst, and with what the client's wrapped ring holds, to which the
replaced rows of a diff come. `Blocks` has the marks, their folding into blocks,
anchors, selection, names and jumps of one pane of the client.

### Frames, Atlas

The client's main thread applies messages, keys and configurations between frames
(`GridDiff`, `Refreshed`, `LayoutChanged`, `Scroll`, `FontChanged`, all of which ask for
a redraw) and draws on request (`SkipFrame`, `StartFrame`, one action per pane:
`DrawHistory`, `DrawCached`, `DrawAnew`, then `EndPanes`, `DrawChrome`, `Present`). In a
`LostFrame` the surface has no texture: the request is used up and nothing is drawn.
A grid is the number of times it changed and the atlas the number of times its
texture was begun again, so vertices are a pair of numbers. What is drawn may overflow
the atlas at any step of a frame; when exactly it does is in `Atlas`. `missed` and
`late` are history variables: panes that were unmarked without their grid being
drawn, and vertices kept over a change of the atlas that the pass over the panes did
not see. `lost` is one as well: the last frame found no surface.

`Atlas` has the texture pixel by pixel, the position of the next glyph, both LRU caches
(a library's: the entry used last is in front), `insert_with_area_budget`, the
overflow, the growth between frames and the replacement on a font change. `used` is
what the frame under way was told. A row is drawn as a whole, through the ligature
cache, while the client has no layout yet; a pane in a layout is drawn glyph by glyph.

### Settings, Calendar

`Settings` has an editor that writes, breaks or removes the file (`Edit`), the watcher
(`StartWatch`, `Signalled`, `Quiet`: the debounce; `Reload`, `ReloadMissing`,
`WriteDefault`: `ConfigLoader::load`, for which a file that does not parse is the
defaults with an error; `Send`), the main thread that takes a configuration over and
fills the panel from it (`Take`), the keys that zoom the font, and the panel (`Open`,
`Adjust`, `AddHost`, `DeleteHost`, `Close`, `Save` and then `SaveRename` or `SaveFails`, on
Windows perhaps after `SaveRemove`, which takes the file away before it renames once more).
A file has a value for each field of the panel, and the user's own text, which stands for comments
on lines of their own and for the settings the panel does not know.

The panel does not hold every value a file may have: it cuts the padding to 32, takes a palette
of the user's own, an unknown language or a profile that is gone for the first of its list, and
joins and splits the arguments of the shell. `Shown` is the value it makes of each one, and
`Filled` the panel for a configuration. Blank fields are not written (`Unwritten`). The list
of hosts is a field with a value for each host, and each of its tables has keys that the panel
does not know; `HostKeys` is what `write_ssh_hosts_back` makes of them: they go by the index of
the table, surplus tables are dropped from the tail, and a list that is written inline is begun
anew. A host is the same host whatever it is renamed to.

`adjusted`, `deleted`, `zoomed` and `unseen` are history
variables: what the user changed in the panel, whether hosts were deleted there, and whether the
font was zoomed by keys, since the panel was filled; and
whether the file changed before it was watched. `sure`, in a save, is one as well: the panel was
filled from the text the save read, and no host was deleted.

`Calendar` counts days and keeps the Gregorian date beside the count, by the rule that
says which date follows which; `days_to_ymd` is the code's arithmetic.

## What the runs check

| Run | Result |
|---|---|
| `session_any` | With failing spawns, serial panes, swaps with foreign panes and stale window ids, panes are owned once, every window has a live focus and a PTY pane, and tabs are a permutation of the panes. |
| `restart` | With failing spawns, serial panes and foreign swaps, and across saves at any time, kills and restarts in which any of the shells fail: focus is live; each window has its panes, focus and tabs in order and ids stay unique, unless a foreign swap or a refused serial pane tore a tree before the save; a restart brings back what the last save had, pane by pane; the tree has one leaf per pane until something leaves a leaf too many or too few, and a restart makes good a failed spawn; moves lose no pane. |
| `delivery` | A client that has received everything has a stale grid only for one of three recorded reasons; a connection that lags or fills its outbox catches up; every request is answered although one handler waits with the session lock held. |
| `snapshots` | Whenever the process dies the file is missing or whole; the current workspace and those of all sessions are known, also after a restart from a snapshot taken half way through a rename; a session that lives is saved in time. |
| `connection` | A connection has no forwarder but the one it can abort, none when it is over, and is served by the session it names. |
| `layout` | Every cell of a window is in exactly one tile or on a separator, PTYs have the sizes of their tiles, and floating panes those of their PTYs and room in the window, but for recorded reasons. |
| `screen` | Every row that is not dirty is mirrored; clients see whole frames; the scrollback mirror is the end of what left the screen, until a region that ends above the last row feeds it; mirror and client ring implement `History`, the ring through changes of capacity. |
| `frames` | A frame shows an old grid only of a pane that an earlier frame unmarked without drawing it, and points into an old atlas only if that was begun again in this frame or outside the pass over the panes; without a frame cap the screen is current once no message arrives, unless the last frame had no surface. |
| `atlas` | The pixels of every cached rectangle are those of its bitmap, rectangles do not touch, what a frame was told holds until it is shown unless the atlas says it was begun again, and the areas the caches account for are those of their entries. |
| `settings` | When no reload is on its way, the client runs on the file, and the settings panel differs from what it can show of the file only in what the user adjusted; a save keeps the user's own text, but for a file that does not parse or that changes under the save, and each host's own keys, but for a list that is written inline and for one from which the panel deleted; the last edit reaches the client. |

Every module has a type invariant. Those of `Session`, `Restart`, `Snapshots` and
`Connection` are in the configurations, and that of `Workspaces` is proved; `TypeOK` of the
others holds in their runs too (add it to the INVARIANTS) and is there for the reader.

Two runs show where the code departs from its own comments; `findings` in
`PROJECT.json` quotes the lines:

| Run | What happens |
|---|---|
| `blocks_unique` | Two prompts at one length of the scrollback, or any two once it is full, get blocks with one id. |
| `calendar_date` | 1972-12-31 is given as 1973-01-01, and so for a year after every leap year: exactly one day ahead, up to the end of 2069 (`DateRightOrADayAhead` as the INVARIANT of `MCCalendar.cfg` with `MaxDay = 36523` passes). |

More departures are one line away from a run: as an INVARIANT (`CapOnlyDelays`: a
PROPERTY) of the configuration named, with the constants given, the property is violated.

* `FocusedWindowLive` in `MCSession_any.cfg`: `move_pane` consumes a window with one pane
  before it looks the destination up (`session.rs:349`); if that is gone the pane is lost
  and the session has no focused window.
* `OwnedOnce` in `MCRestart.cfg`: a swap with a pane of another window
  (`ipc/window_dispatch.rs:37`) puts one id in the trees of two windows. Once that is saved and
  restored, each of the two has a pane of that id: the file is restored unchecked.
* `FocusLive` in `MCRestart.cfg` with `ForeignSwaps = FALSE`: a refused `BreakPane` of a serial pane
  (`window/mod.rs:744`) leaves the window's focus without a leaf; saved and restored, the
  window has its focus on a pane that does not exist. `RestoredOwnedOnce` and
  `RestoredWindowsGood` leave out these two cases and no other (`NotTorn`).
* `FileIsWhole` in `MCSnapshots.cfg` under `SnapshotsSpec` with two elements in `Saver`: the
  auto-save and the
  save at shutdown use one temporary file (`persist.rs:48`); a half-written snapshot is
  renamed into place.
* `ZoomFillsWindow` in `MCLayout.cfg`: a focus change or a resize in a zoomed window leaves
  the shown pane's PTY at the size of its tile (`window/mod.rs:576`).
* `StoredRectInside` in `MCLayout.cfg` with `Sizes <- TwoRoomy` and `MaxPane = 4`:
  opening a floating pane gives its window the session's size without clamping the floating
  panes it has (`window/mod.rs:359`); in a window that missed a resize they can lie outside,
  although 997-999 says that a stored rectangle is always inside.
* `CursorIsMirrored` in `MCScreen.cfg`: a burst that only moves the cursor updates neither
  `latest_grid` nor the clients (`pane.rs:896`).
* `CacheFollowsContent` in `MCFrames.cfg` with `MaxChanges = 3`: a pane that changed while
  it was hidden or scrolled back is unmarked by a frame that did not draw it, and
  drawn from its old vertices later (`render_frame.rs:651`).
* `CacheFollowsAtlas` in `MCFrames.cfg`: vertices survive a font change, growth, or an
  overflow by the tab bar, and point into an atlas that is gone (`lifecycle.rs:607`).
* `OverflowIsRedrawn` in `MCFrames.cfg`: the frame in which the atlas overflowed stays on
  screen, although the comment says a redraw is forced (`glyph_atlas.rs:426-440`).
* `CapOnlyDelays` in `MCFrames.cfg`: a redraw that comes too soon for the frame cap is
  dropped and not made up for: the last change of a burst is not shown (`render_frame.rs:214`).
* `HitIsTheGlyph` in `MCAtlas.cfg` with `Char = {a, b}` and `Row <- SameText`: rows with the
  same text in other columns share keys of the ligature cache (`grid_verts.rs:108`).
* `CancelReverts` in `MCSettings.cfg`: Escape closes the panel and leaves its adjusted fields,
  so a later save writes what was cancelled, although `mouse.rs:907-908` says that Cancel
  reverts.
* `NoGhostPane` in `MCSession_any.cfg`: `take_focused_pane` removes
  the leaf of a serial pane and then refuses (`window/mod.rs:744`), although the
  comment at 259-263 says a pane never lacks its leaf. The pane keeps tab and focus
  and is not drawn.
* `SettledIsFresh` in `MCDelivery.cfg`: the refresh of an attach
  (`session_dispatch.rs:198`) can be queued behind a newer diff of the forwarder
  that 63-70 and 160-161 start before it, and overwrites it.
* `ShownPanesHaveGrids` in `MCDelivery.cfg`: a client that attaches has no grid for
  the panes that are not focused (`session_dispatch.rs:150`) and drops their diffs,
  against `docs/PROTOCOL.md:346` and `pane.rs:489-491`.
* `SessionsInKnownWorkspaces` in `MCSnapshots.cfg` under `SnapshotsSpec` with two
  clients and `ConcurrentAdmin = TRUE`: overlapping renames leave a session in
  a workspace that does not exist; `session.rs:1157-1158` says admin operations are
  not concurrent. With `CreateWhileDelete = TRUE` instead, a session that is created
  during a deletion stays in the deleted workspace.

Others were met while modelling and have no property: `write_to_all` skips serial
panes, although its comment says every pane. `insert_pane_at` moves the focus
before it looks for the focused tab, so a joined pane goes to the end of the tabs
and not after the focused one. The `on_session_start` hook can run twice or not at
all, since the lookup that decides it and the creation are two locks
(`session_dispatch.rs:54-62`), and `on_detach` does not run when a client that has
detached disconnects (`docs/CONFIGURATION.md:713`). `scrollback_lines = 0` builds a
ring of capacity 0 whose first `push_line` divides by it; `set_capacity` clamps,
`new` does not. The client's `apply_diff` pushes the old content of every dirty row
to its scrollback, not only of rows that scrolled out (`state/pane.rs:183`).
A scroll region that starts at row 0 and ends above the last row feeds the scrollback, although
`screen.rs:692-695` says only a full-screen scroll does (`ScrollbackIsWhatLeft` says nothing
once that has happened). After a split in tiling mode the new PTY has the size of the window and
the others that of a tiling of one pane less, while `LayoutChanged` announces the tiling of all,
until the window is laid out again (`window/mod.rs:272-317`; `PtyFitsTile` leaves that time
out). A frame for which the surface has no texture uses the redraw request up and asks for no
other, so what it was to show waits for the next message or key (`render_frame.rs:246-253`;
`QuietScreenIsCurrent` leaves it out). Every mark folds the
blocks anew, uncollapsed. `jump_prev_prompt` takes the newest anchor of those
above, where its comment (`server_message.rs:449-450`) says the smallest.
A save from the settings panel within the debounce window of an external edit writes the
values from before the edit over it, which the resync of `lifecycle.rs:582-592` is to prevent.
A save also writes back, for what nobody adjusted, the value the panel made of the file's
(a padding of 40 becomes 32). The keys of a host that the panel does not know are to be "left
untouched" (`settings/ssh.rs:311-312`), but go by the table's index: after a deletion the hosts
behind it get those of their predecessors, the last ones are dropped, and a list written inline
loses all. On Windows a save whose second rename fails leaves no file (`save.rs:217-224`).
Synchronized output has no timeout: a program that never ends it is never shown.
Ligatures are drawn by `build_grid_verts` only, which is used until the first layout
arrives; `build_grid_verts_in_rect` has none, although `font.ligatures` is on by default.

## Bounds

| Run | Instance | Distinct states |
|---|---|---|
| `session_any` | 3 panes, 2 windows, reorder requests of 2 ids, every trouble at once | 96,060 |
| `restart` | 3 panes, 2 windows, one kind of trouble at a time | 218,975 |
| `delivery` | 1 client, 2 rows, 2 panes in 2 windows, 2 bursts, ring 1, outbox 1 | 489,203 |
| `snapshots` | 1 client, 3 names, 1 session, 1 saver | 608,772 |
| `connection` | 2 clients, 1 browser, 2 names, 3 sessions | 1,958,018 |
| `layout` | sizes 11x5 and 2x1, 3 panes, 2 windows, steps of 4 tenths | 263,844 |
| `screen` | 2x2 cells, 2 characters, mirror of 2 lines, capacities 1 and 2, 5 operations | 1,585,243 |
| `frames` | 2 panes, 2 cell sizes, 2 messages, 2 overflows | 1,334,800 |
| `atlas` | a texture of 3x3 that grows to 4x4, bitmaps of 1x1, 2x1 and 1x2, 3 rectangles a frame | 137,415 |
| `settings` | 4 fields (a font size, a padding the panel cuts, a font family that may be blank, lists of up to 2 hosts), 3 texts, one that does not parse and none, a channel of 1, 2 edits, 3 uses of keys and panel | 688,219 |
| `blocks_unique`, `calendar_date` | 8 marks, 5 steps; 2000 days | |

Three panes and two windows are enough for a window to lose its focus to a neighbour,
for a pane to move to a window that has one, for a tab order of three to be reordered by
a request of two ids (foreign, repeated or missing ones included) and for some but not
all windows to come back from a file. The layouts of `session_any` are cut at `MaxPane`
leaves, as a foreign swap leaves a leaf behind that nothing removes. `restart` has failed
spawns, serial panes and foreign swaps, one kind at a time and without floating panes beside
them (`FewTroubles`); a session with a torn tree is followed through saves, kills and
restarts until it is gone, and after a foreign swap no other request changes it (`SwapIsLast`).
A ring of one
message is overrun by two bursts, an outbox of one makes senders wait, two rows tell a
lost row from a lost grid, and two windows put a pane outside the focused one. Three
names are `default`, one to rename or delete and one to rename to; one session per life
of the server suffices for a save to miss it, see it half renamed or find it killed, and
a restart starts the count again. Three session numbers let a name be killed and created
again under a connection. The small size of `layout` has no cell for a second pane and
is below the minimum of a floating pane, and the larger one leaves a floating pane room
to move; clients split along one direction there, and a pane that moves to another
window splits along the other. A step of 4 tenths reaches both ends of the range of a
ratio, and what follows a split at its lower end is cut off (`NoLowSplit`), as it
mirrors the upper end. On a screen of 2x2 every cell is on two edges and a region of one
row exists; five operations fill a row, wrap, scroll and switch a buffer, and the
capacities make the ring wrap before it is enlarged. Two panes put one out of sight or
out of focus while the other is drawn; two messages change a pane while it is hidden and
show it again, and frames, skipped frames and blinks are not bounded. The area reserved
for icons is larger in `atlas`, relative to the texture, than in the program, so that
the area budget of a cache is reached before the texture is full; at the smaller size
the capacity is reached. Two edits and a save let a file change, change back, or break
and be mended within one reload, and a channel of one makes the watcher wait for the
main thread; the program's channel holds eight. Three uses of the panel open it, change it and
save; two hosts put one behind the one that is deleted, and their keys in the wrong table.
A mirror of two lines has an order, and a burst can fill it, overrun it or replace one line. 2000 days hold the first leap year and
the next. The theorems cover any number of panes, windows, clients, names, rows, columns
and lines, and need none of this.

`session_any`, `restart`, `screen`, `frames`, `settings` and the two runs with a violation do not
check for deadlock, since ids, operations, messages, edits or days run out there; the others do.

## Fairness

`FairSpec` of `Delivery` assumes that a reader that has stored a row broadcasts it and
that clients keep reading (weak fairness), and strong fairness of each forwarder and
each handler: they wait on tokio's mutex and on a bounded mpsc channel, which serve
waiters in the order they came, so a task that finds the lock free or room in the
channel again and again does get its turn. Nothing is assumed about requests or
output. A client that stops reading is not covered: a handler that waits for room in
its outbox is not in `read`, so the idle timeout does not end it and it waits until
the socket closes.

`FairSnapshotsSpec` assumes strong fairness of each saver's steps (they wait on the
same kind of mutex, while requests lock and unlock the map) and that a creation under
way is inserted or given up. `SessionsGetSaved` is about runs in which the process
eventually stops dying and saves stop failing; both may happen any number of times
before.

`FairSpec` of `Frames` assumes that winit delivers a redraw that was requested, that a
frame runs to its end (one thread draws it), and that the period of the frame cap passes.
Nothing is assumed about messages or the blinking of the cursor.

`FairSpec` of `Settings` assumes that the watcher is started, that its task and the main
thread's loop go on, and that a save ends. Edits and uses of the panel are bounded, so the
debounce window, which each signal begins anew, ends. Whether a save succeeds is left open.

## What is proved

For every value of the constants that satisfies the assumption named in the module
(`SessionAssumption`, `DeliveryAssumption`, ...). Two of these say more than a type: `0
\notin Row` in `Delivery`, where 0 stands for the absence of
a row, and in `Layout` that `Sizes` has an element with the most columns, which is the size the
session begins with.

* `SessionProofs`, about `Session`: `TypeCorrect`, `PanesOwnedOnce`, `FocusAlwaysLive`,
  `TabOrderExact`. They are conjuncts of one inductive invariant: ownership below the
  id counter is needed for a new pane not to be an old one, a PTY pane in every
  window for the `Min` of what remains to exist, and the tab order for a pane to
  be removed from it by position. The lemmas about `Window` that precede them say, one operation
  at a time, that a good window stays good and which panes it owns afterwards;
  `compute_reordered` is shown to return a permutation by numbering the ids.
  `FocusedWindowStaysLive` assumes `~StaleWindows`, and must: `FocusedWindowLive`
  fails in `MCSession_any.cfg`, where it does not hold.
  `MovesKeepPanes` needs `~StaleWindows` only: a request that moves a pane takes it out of one
  window, where it may have been the last, and puts it into a live window or into one whose
  id is above all others, so the union of the tiles is what it was.
* `SessionProofs`, about `Restart`: `RestartTypeCorrect`, `IdsUniqueAfterRestart`,
  `RestoredWindowsAreGood`, `LeavesSurviveRestart` and `LastSaveComesBack`, for every value of
  the constants: failing spawns, serial panes, foreign swaps and stale ids included; and
  `FocusSurvivesRestart` and `MovesKeepPanesAcrossRestarts`, which assume `~StaleWindows`. The
  code that restores takes the file unchecked, so the invariant (`RInv`) says what a file is
  like for each set of troubles it was written after: unless a tree was torn, its windows have
  distinct leaves, a focus among them and no leaf in common; the panes that `saved` remembers have
  leaves, and are all of them unless a spawn failed. The counters after a restart are above the
  file's ids because `Max` is.
* `SnapshotsProofs`, about `Workspaces`: `TypeCorrect`; `CurrentStaysKnown`, which needs to
  know that no
  deletion of `default` gets past its first check; `SessionsStayKnown`, assuming
  `~ConcurrentAdmin` and `~CreateWhileDelete`, neither of which can be dropped. Its
  invariant (`SerialInv`) says where the sessions are whose workspace is not known: on
  the list of the rename or deletion under way, or still to be collected by it; that a
  creation is never under way beside a deletion; and that a count of 0 is exact.
* `SnapshotsProofs`, about `Snapshots`: with one saver, `FileStaysWhole`, `SnapshotsTypeCorrect`,
  `CurrentKnownAfterRestart` and `SessionsKnownAfterRestart`. The invariant follows the
  snapshot from the locks through the temporary file to the disk; a restart re-establishes
  `SerialInv` from any file, whatever was under way when it was taken.
  One saver is needed: with two TLC finds a torn file.
* `DeliveryProofs`: `SettledScreensExplained`, `StaleIsExplained` for any number of clients,
  panes, rows and bursts and any length of ring and outbox. A grid a client holds is compared
  with the pane's by what is still to be applied to it: the outbox, what forwarder and handler
  hold in hand, and the part of the ring the forwarder has not read. The invariant
  (`ClientOK`, with `QueuesTyped` and `RingOK`) says that along this sequence no row of a pane
  outside `behind` is lost, that a reader between storing and broadcasting still owes one
  diff, and that a handler's refresh was composed from a grid that is not older than
  what precedes it.
* `ConnectionProofs`: `TypeCorrect`, `TasksHaveOwners`, `ServedByOne`. The invariant says
  at each step of an attach what the connection has looked up already, and that
  a session whose number is in the map is the only one of its name.
* `ScreenProofs`: `DirtyTrackingComplete`, `ScrollbackComplete`, `WholeFrames`, and the
  refinements `ServerImplementsHistory` and `ClientImplementsHistory`. Each parser operation is
  shown to mark the rows it changes and to record the lines it scrolls out; a switch of buffers
  marks all. At the end of a burst the mirror has exactly the newest of what it had and what was
  scrolled out, which is what `History` asks for, and the end of `gone` as long as no region
  has spilled. On the client a push into the ring keeps the newest lines in order, wrapped
  or not, so a fold of pushes adds the rows of a diff, and a change of capacity cuts.
* `ClientProofs`, about `Frames`: `TypeCorrect`, `OldGridsWereMissed`, `OldAtlasesWereLate`.
  Both properties are about what a frame draws, but follow from what is kept between frames: old
  vertices in the cache are of a pane that is marked or was missed, and vertices
  of an old atlas were built before a change outside the pass, or are dropped when
  this pass ends. Within a pass, what a pane was drawn with is what the cache holds.
* `ClientProofs`, about `Atlas`: `RectsAlwaysHold`, `FramesAreWhole`, `RectsNeverTouch`,
  `AreasAreAccounted`. Every
  rectangle, in a cache or told to the frame, lies on a shelf behind the position of the next
  glyph and inside the texture, so that a new bitmap is written over none of them; growth copies
  them, and an overflow or a replacement forgets them all and tells the frame. The sum of the
  areas of a cache is a fold: adding an entry adds its area, and dropping the last takes it
  away, which is what both ways of evicting do.
* `ClientProofs`, about `Settings`: `SettingsTypeCorrect`, `PanelFollowsFile`,
  `OwnTextLostOnlyAsKnown`. The invariant
  says, for each place a configuration can be between the file and the panel (the loader, the
  channel, the client's copy), what it can differ from the file by unless something later
  is on its way, and that a save under way writes the panel over the text it read. Nothing is
  assumed of `Shown` but that it gives a value of the field and leaves lists of hosts alone.
  That hosts keep their keys needs the first property: the panel's list begins with the hosts
  of the text that is written over, so that each table is written for the host it was of.
* `LayoutProofs`, about `Extent`: `SplitFits`, `FloatingPaneFits`, `ClampingSettles`, the
  arithmetic under `Geometry`.
* `LayoutProofs`, about `Layout`: `LayoutTypeCorrect`, `PtysFitTheirTiles`, `FloatsStayFit`,
  `TilesArePartition`, for any number of panes and windows and all sizes. The invariant
  (`LayoutInv`) says of
  each window that its ways are those of a tree (`TreeOK`: two ways part at some split, and each
  split on a way has a way on its other side), that panes of two windows are distinct and below
  the counter, and, unless `off` has a reason, that PTYs fit tiles; a floating rectangle is always
  one that was clamped to some size of the window (`Settled`), which is why clamping it again
  for a move keeps the size its PTY has. Each operation on trees is shown to keep
  `TreeOK`: this is what makes taking the sibling up in `remove`, and the changed ratio in
  `adjust_ratio_for`, agree in all ways they concern.
  For the partition, the rectangles along two ways are the same until they part and disjoint
  from there, and a cell of the window that is on no separator is followed down: at each
  split it is in one of the two parts, and `TreeOK` has a way that takes that part. The
  tiling layout numbers the panes by counting smaller ids,
  cuts the numbers into columns of nearly equal length and each length into shares; all
  three are staircases, and a number below the end of a staircase is on exactly one of its steps.

Each inductive invariant was first an INVARIANT of the run of its module.

Only model-checked, and why:

* `CatchesUp`, `RequestsAnswered`, `SessionsGetSaved`, `QuietScreenIsCurrent` and `Settles`:
  liveness under fairness is beyond the prover, as is ENABLED.
* The runs with a violation (`blocks_unique`, `calendar_date`), which have nothing to prove.

Every invariant and every action property that a passing run checks is stated by a theorem, and so
are both refinements. What a fold or a recursive function computes is shown without the
library's induction theorems, which take an operator: `Counting` in `CountingLemmas` is
induction up to a bound stated about a set (a set that has 0 and with each number the next has
all of them), and a goal about a fold becomes a set of prefix lengths.

## What is not modelled

* Login, one-time passwords, rate limits, OAuth and TLS of the web terminal: they
  protect the server; this project is about how the terminal behaves.
* Asciicast recording and log rotation: files with one writer and no other reader.
* Plugins: one mutex around a WASM runtime. Lua scripts, applied on top of every load of
  the configuration, and the workers that run them. Of what a reload changes, those with a
  history, the scrollback capacity and the font, are in `Screen`, `Blocks`, `Frames` and `Atlas`.
* File transfer, templates, SSH, i18n, `nexterm-ctl` and the text client: sequential
  I/O, wrappers and tables, one request and one reply at a time.
* What vertices look like, fonts, input translation, accessibility and what the
  settings panel looks like: functions of state that one thread owns.
* The decoding of escape sequences (a library), attributes, images, hyperlinks, tab
  stops, OSC titles and notifications: data that takes the paths that are modelled.
* Migration of older snapshot versions and file permissions.

## Where this could go

`Delivery` and
`Screen` composed would show a client's grid, not only its version, after lag and
resync. An abstract delivery specification (a client's grid is an earlier state of the
pane and does not go back) would hold away from the orders `StaleIsExplained` records;
the invariant of `DeliveryProofs` is most of what its proof needs. The recorder and the
log of a pane would be a small module of the reader thread's last two steps.
