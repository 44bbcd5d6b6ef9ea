------------------------------ MODULE Delivery ------------------------------
(***************************************************************************)
(* How the screen of a pane reaches the clients of a session: the PTY      *)
(* reader threads (pane.rs), the session's broadcast ring, the forwarder   *)
(* task and the request handler of each connection (ipc/session_dispatch.rs*)
(* and ipc/window_dispatch.rs), the connection's bounded outbox            *)
(* (ipc/handler.rs) and the grids the client keeps (state/server_message.rs*)
(* of nexterm-client-gpu).                                                 *)
(*                                                                         *)
(* The actors share no lock across these steps: a reader updates           *)
(* latest_grid and then broadcasts, a handler composes its reply under the *)
(* session lock and sends it after releasing the lock, and the forwarder   *)
(* feeds the same outbox in between.  The exception is SetBroadcast, which *)
(* keeps the lock while it waits for room in the outbox.                   *)
(*                                                                         *)
(* A grid is a version number per row.  Messages that carry neither a grid *)
(* nor a layout are left out, but for the reply to SetBroadcast, and panes *)
(* are never closed here: Session models that.                             *)
(***************************************************************************)
EXTENDS Integers, Sequences, FiniteSets, SequencesExt

CONSTANTS
  Client,      \* the connections
  Row,         \* the rows of a grid
  MaxPane,     \* bound on the panes ever created
  MaxWindow,   \* bound on the windows ever created
  MaxBurst,    \* bound on the bursts of output
  Ring,        \* capacity of the broadcast channel (2048 in the code)
  OutboxSize   \* capacity of the connection's mpsc channel (256 in the code)

NoOne == "no one"

ASSUME DeliveryAssumption ==
  /\ MaxPane \in Nat \ {0} /\ MaxWindow \in Nat \ {0} /\ MaxBurst \in Nat
  /\ Ring \in Nat \ {0} /\ OutboxSize \in Nat \ {0}
  /\ NoOne \notin Client /\ 0 \notin Row

VARIABLES
  inWindow,      \* the window of each pane; pane ids are 1 .. Len(inWindow)
  focusOf,       \* the focused pane of each window
  focusedWindow, \* the session's focused window
  grid,          \* latest_grid of each pane
  unsent,        \* the row a reader has stored and not yet broadcast, 0 if none
  burst,         \* the number of bursts so far
  ring,          \* every GridDiff ever broadcast; the channel keeps the last Ring
  next,          \* a forwarder's position in ring, 0 when not attached
  lagged,        \* has the forwarder been told that it lagged?
  hand,          \* the messages a forwarder has yet to put in the outbox
  step,          \* what the handler of a connection does next
  reply,         \* the messages a handler has yet to put in the outbox
  lock,          \* the connection that keeps the session lock, NoOne if none
  outbox,        \* the messages on their way to the client
  screen,        \* the grids the client keeps
  shown,         \* the panes of the layout the client displays
  behind         \* history: the panes of which a client may miss output

window    == <<inWindow, focusOf, focusedWindow>>
server    == <<window, grid, unsent, burst, ring>>
forwarder == <<next, lagged, hand>>
handler   == <<step, reply, lock>>
client    == <<screen, shown>>
vars      == <<server, forwarder, handler, outbox, client, behind>>

Pane     == 1 .. MaxPane
Window   == 1 .. MaxWindow
Panes    == 1 .. Len(inWindow)
Windows  == DOMAIN focusOf
Blank    == [r \in Row |-> 0]
PanesOf(w) == {p \in Panes : inWindow[p] = w}

\* The messages.
Diff(p, r, v)  == [kind |-> "diff", pane |-> p, row |-> r, val |-> v]
Refresh(p, g)  == [kind |-> "refresh", pane |-> p, grid |-> g]
Layout(ps)     == [kind |-> "layout", panes |-> ps]
BroadcastMode  == [kind |-> "mode"]

Idle == [at |-> "idle"]

\* A session with one pane, and no client attached.
Init ==
  /\ inWindow = <<1>>
  /\ focusOf = [w \in {1} |-> 1]
  /\ focusedWindow = 1
  /\ grid = <<Blank>>
  /\ unsent = <<0>>
  /\ burst = 0
  /\ ring = <<>>
  /\ next = [c \in Client |-> 0]
  /\ lagged = [c \in Client |-> FALSE]
  /\ hand = [c \in Client |-> <<>>]
  /\ step = [c \in Client |-> Idle]
  /\ reply = [c \in Client |-> <<>>]
  /\ outbox = [c \in Client |-> <<>>]
  /\ screen = [c \in Client |-> <<>>]
  /\ shown = [c \in Client |-> {}]
  /\ lock = NoOne
  /\ behind = [c \in Client |-> {}]

-----------------------------------------------------------------------------
(***************************************************************************)
(* The reader thread of a pane: a burst of output dirties a row, which is  *)
(* stored in latest_grid and then broadcast, in two steps.                 *)
(***************************************************************************)

StoreGrid(p, r) ==
  /\ unsent[p] = 0
  /\ burst < MaxBurst
  /\ burst' = burst + 1
  /\ grid' = [grid EXCEPT ![p][r] = burst + 1]
  /\ unsent' = [unsent EXCEPT ![p] = r]
  /\ UNCHANGED <<window, ring, forwarder, handler, outbox, client, behind>>

BroadcastDiff(p) ==
  /\ unsent[p] # 0
  /\ ring' = Append(ring, Diff(p, unsent[p], grid[p][unsent[p]]))
  /\ unsent' = [unsent EXCEPT ![p] = 0]
  /\ UNCHANGED <<window, grid, burst, forwarder, handler, outbox, client, behind>>

-----------------------------------------------------------------------------
(***************************************************************************)
(* The forwarder task of a connection.                                     *)
(***************************************************************************)

\* The oldest message the channel still holds.
Oldest == IF Len(ring) > Ring THEN Len(ring) - Ring + 1 ELSE 1

Receiving(c) == next[c] # 0 /\ ~ lagged[c] /\ hand[c] = <<>>

\* recv() returns the next message.
Receive(c) ==
  /\ Receiving(c)
  /\ next[c] >= Oldest /\ next[c] <= Len(ring)
  /\ hand' = [hand EXCEPT ![c] = <<ring[next[c]]>>]
  /\ next' = [next EXCEPT ![c] = @ + 1]
  /\ UNCHANGED <<server, lagged, handler, outbox, client, behind>>

\* The panes whose diffs from position i on a client will not get.
PanesFrom(i, j) == {ring[k].pane : k \in i .. j}

\* Mutant of Lag: the forwarder breaks out of its loop, as on a closed channel.
LagEnds(c) ==
  /\ Receiving(c)
  /\ next[c] < Oldest
  /\ UNCHANGED vars

\* recv() returns Lagged: the receiver moves to the oldest message kept.
Lag(c) ==
  /\ Receiving(c)
  /\ next[c] < Oldest
  /\ next' = [next EXCEPT ![c] = Oldest]
  /\ lagged' = [lagged EXCEPT ![c] = TRUE]
  /\ behind' = [behind EXCEPT ![c] = @ \cup PanesFrom(next[c], Oldest - 1)]
  /\ UNCHANGED <<server, hand, handler, outbox, client>>

\* Mutant of all_full_refreshes: only the focused pane is replayed.
focused_pane_full_refresh(w) == <<Refresh(focusOf[w], grid[focusOf[w]])>>

\* Window::all_full_refreshes.
all_full_refreshes(w) ==
  LET ps == SetToSeq(PanesOf(w))
  IN  [i \in DOMAIN ps |-> Refresh(ps[i], grid[ps[i]])]

\* The forwarder locks the session and takes the grids of the focused window.
Resync(c) ==
  /\ lagged[c] /\ lock = NoOne
  /\ lagged' = [lagged EXCEPT ![c] = FALSE]
  /\ hand' = [hand EXCEPT ![c] = all_full_refreshes(focusedWindow)]
  /\ behind' = [behind EXCEPT ![c] = @ \ PanesOf(focusedWindow)]
  /\ UNCHANGED <<server, next, handler, outbox, client>>

\* fwd_tx.send(msg) waits for room.
ForwardNext(c) ==
  /\ hand[c] # <<>>
  /\ Len(outbox[c]) < OutboxSize
  /\ outbox' = [outbox EXCEPT ![c] = Append(@, Head(hand[c]))]
  /\ hand' = [hand EXCEPT ![c] = Tail(@)]
  /\ UNCHANGED <<server, next, lagged, handler, client, behind>>

-----------------------------------------------------------------------------
(***************************************************************************)
(* The handler of a connection serves one request at a time.               *)
(***************************************************************************)

Ready(c)    == step[c] = Idle /\ reply[c] = <<>>
Attached(c) == next[c] # 0

\* A request of an attached client gets the session lock.
Request(c) == Ready(c) /\ Attached(c) /\ lock = NoOne

\* The refresh of the focused pane of w, with the grid it has now.
FocusedRefresh(w) == Refresh(focusOf[w], grid[focusOf[w]])

\* handle_attach: subscribe, then abort the old forwarder and spawn a new one.
\* What the old one had yet to deliver is lost.
Attach(c) ==
  /\ Ready(c) /\ lock = NoOne
  /\ next' = [next EXCEPT ![c] = Len(ring) + 1]
  /\ lagged' = [lagged EXCEPT ![c] = FALSE]
  /\ hand' = [hand EXCEPT ![c] = <<>>]
  /\ behind' = IF Attached(c)
               THEN [behind EXCEPT ![c] = @ \cup PanesFrom(next[c], Len(ring))
                                            \cup {m.pane : m \in Range(hand[c])}]
               ELSE behind
  /\ step' = [step EXCEPT ![c] = [at |-> "refresh"]]
  /\ UNCHANGED <<server, reply, lock, outbox, client>>

\* The refresh of the focused pane, composed under the session lock.
AttachRefresh(c) ==
  /\ step[c].at = "refresh" /\ lock = NoOne
  /\ reply' = [reply EXCEPT ![c] = <<FocusedRefresh(focusedWindow)>>]
  /\ step' = [step EXCEPT ![c] = [at |-> "layout"]]
  /\ UNCHANGED <<server, forwarder, lock, outbox, client, behind>>

\* The layout, composed when the refresh has been sent.
AttachLayout(c) ==
  /\ step[c].at = "layout" /\ reply[c] = <<>> /\ lock = NoOne
  /\ reply' = [reply EXCEPT ![c] = <<Layout(PanesOf(focusedWindow))>>]
  /\ step' = [step EXCEPT ![c] = Idle]
  /\ UNCHANGED <<server, forwarder, lock, outbox, client, behind>>

\* A new pane in window w, which gets the focus of the window and the session.
CreatePane(w) ==
  LET p == Len(inWindow) + 1
  IN  /\ p <= MaxPane
      /\ inWindow' = Append(inWindow, w)
      /\ focusOf' = [v \in Windows \cup {w} |-> IF v = w THEN p ELSE focusOf[v]]
      /\ focusedWindow' = w
      /\ grid' = Append(grid, Blank)
      /\ unsent' = Append(unsent, 0)
      /\ UNCHANGED <<burst, ring>>

\* Mutant of Split: the guard of the first lock is alive when the second is taken.
SplitKeepsGuard(c) ==
  /\ Request(c)
  /\ CreatePane(focusedWindow)
  /\ step' = [step EXCEPT ![c] = [at |-> "split", pane |-> Len(inWindow) + 1]]
  /\ lock' = c
  /\ UNCHANGED <<forwarder, reply, outbox, client, behind>>

\* handle_split_with: the pane is added under one lock ...
Split(c) ==
  /\ Request(c)
  /\ CreatePane(focusedWindow)
  /\ step' = [step EXCEPT ![c] = [at |-> "split", pane |-> Len(inWindow) + 1]]
  /\ UNCHANGED <<forwarder, reply, lock, outbox, client, behind>>

\* ... and the reply, with a blank grid for it, is composed under another.
SplitReply(c) ==
  /\ step[c].at = "split" /\ lock = NoOne
  /\ reply' = [reply EXCEPT ![c] = <<Refresh(step[c].pane, Blank),
                                     Layout(PanesOf(focusedWindow))>>]
  /\ step' = [step EXCEPT ![c] = Idle]
  /\ UNCHANGED <<server, forwarder, lock, outbox, client, behind>>

\* handle_new_window: two locks as well.
AddWindow(c) ==
  /\ Request(c)
  /\ Cardinality(Windows) < MaxWindow
  /\ CreatePane(Cardinality(Windows) + 1)
  /\ step' = [step EXCEPT ![c] = [at |-> "window"]]
  /\ UNCHANGED <<forwarder, reply, lock, outbox, client, behind>>

AddWindowReply(c) ==
  /\ step[c].at = "window" /\ lock = NoOne
  /\ reply' = [reply EXCEPT ![c] = <<FocusedRefresh(focusedWindow),
                                     Layout(PanesOf(focusedWindow))>>]
  /\ step' = [step EXCEPT ![c] = Idle]
  /\ UNCHANGED <<server, forwarder, lock, outbox, client, behind>>

\* handle_focus_window: the reply is composed under the lock that moves the focus.
FocusWindow(c, w) ==
  /\ Request(c)
  /\ w \in Windows
  /\ focusedWindow' = w
  /\ reply' = [reply EXCEPT ![c] = <<Layout(PanesOf(w)), FocusedRefresh(w)>>]
  /\ UNCHANGED <<inWindow, focusOf, grid, unsent, burst, ring, forwarder, step, lock,
                 outbox, client, behind>>

\* handle_focus_pane, handle_focus_next_pane, handle_focus_prev_pane.
FocusPane(c, p) ==
  /\ Request(c)
  /\ p \in PanesOf(focusedWindow)
  /\ focusOf' = [focusOf EXCEPT ![focusedWindow] = p]
  /\ reply' = [reply EXCEPT ![c] = <<Layout(PanesOf(focusedWindow))>>]
  /\ UNCHANGED <<inWindow, focusedWindow, grid, unsent, burst, ring, forwarder, step,
                 lock, outbox, client, behind>>

\* handle_set_broadcast: the lock is kept until the reply is in the outbox.
SetBroadcast(c) ==
  /\ Request(c)
  /\ lock' = c
  /\ reply' = [reply EXCEPT ![c] = <<BroadcastMode>>]
  /\ UNCHANGED <<server, forwarder, step, outbox, client, behind>>

\* The diffs of pane p that the forwarder is done with: sent before, or lost.
Forwarded(c, p) ==
  LET held == Cardinality({i \in DOMAIN hand[c] : hand[c][i].kind = "diff"})
  IN  {i \in 1 .. (next[c] - 1 - held) : ring[i].pane = p}

\* A refresh enters the outbox late if the client will not get a diff again
\* that the refresh does not contain.
Late(c, m) == \E i \in Forwarded(c, m.pane) : ring[i].val > m.grid[ring[i].row]

\* The lock after connection c has sent its reply.
Released(c) == IF lock = c THEN NoOne ELSE lock

\* tx.send(msg) waits for room.
SendReply(c) ==
  LET m == Head(reply[c])
  IN  /\ reply[c] # <<>>
      /\ Len(outbox[c]) < OutboxSize
      /\ outbox' = [outbox EXCEPT ![c] = Append(@, m)]
      /\ reply' = [reply EXCEPT ![c] = Tail(@)]
      /\ lock' = Released(c)
      /\ behind' = CASE m.kind # "refresh" -> behind
                     [] m.kind = "refresh" /\ Late(c, m) -> [behind EXCEPT ![c] = @ \cup {m.pane}]
                     [] OTHER -> [behind EXCEPT ![c] = @ \ {m.pane}]
      /\ UNCHANGED <<server, forwarder, step, client>>

\* The connection ends (or idles out): the forwarder is aborted.  The next
\* client to connect starts with no grids.
Disconnect(c) ==
  /\ Ready(c) /\ Attached(c)
  /\ next' = [next EXCEPT ![c] = 0]
  /\ lagged' = [lagged EXCEPT ![c] = FALSE]
  /\ hand' = [hand EXCEPT ![c] = <<>>]
  /\ outbox' = [outbox EXCEPT ![c] = <<>>]
  /\ screen' = [screen EXCEPT ![c] = <<>>]
  /\ shown' = [shown EXCEPT ![c] = {}]
  /\ behind' = [behind EXCEPT ![c] = {}]
  /\ UNCHANGED <<server, handler>>

-----------------------------------------------------------------------------
(***************************************************************************)
(* The client applies messages in order.  A diff for a pane it has no grid *)
(* for is dropped.                                                         *)
(***************************************************************************)

ApplyRefresh(c, m) ==
  /\ screen' = [screen EXCEPT ![c] =
       [p \in DOMAIN screen[c] \cup {m.pane} |-> IF p = m.pane THEN m.grid ELSE screen[c][p]]]
  /\ UNCHANGED shown

ApplyDiff(c, m) ==
  /\ screen' = IF m.pane \in DOMAIN screen[c]
               THEN [screen EXCEPT ![c][m.pane][m.row] = m.val]
               ELSE screen
  /\ UNCHANGED shown

ApplyLayout(c, m) ==
  /\ shown' = [shown EXCEPT ![c] = m.panes]
  /\ UNCHANGED screen

\* apply_server_message.
Apply(c) ==
  LET m == Head(outbox[c])
  IN  /\ outbox[c] # <<>>
      /\ outbox' = [outbox EXCEPT ![c] = Tail(@)]
      /\ \/ m.kind = "refresh" /\ ApplyRefresh(c, m)
         \/ m.kind = "diff" /\ ApplyDiff(c, m)
         \/ m.kind = "layout" /\ ApplyLayout(c, m)
         \/ m.kind = "mode" /\ UNCHANGED client
      /\ UNCHANGED <<server, forwarder, handler, behind>>

-----------------------------------------------------------------------------
Reader(p) == BroadcastDiff(p) \/ \E r \in Row : StoreGrid(p, r)

Forwarder(c) == Receive(c) \/ Lag(c) \/ Resync(c) \/ ForwardNext(c)

Handler(c) ==
  \/ AttachRefresh(c) \/ AttachLayout(c) \/ SplitReply(c) \/ AddWindowReply(c)
  \/ SendReply(c)

ClientStep(c) ==
  \/ Attach(c) \/ Split(c) \/ AddWindow(c) \/ SetBroadcast(c) \/ Disconnect(c)
  \/ \E w \in Window : FocusWindow(c, w)
  \/ \E p \in Pane : FocusPane(c, p)
  \/ Apply(c)

Next ==
  \/ \E p \in Panes : Reader(p)
  \/ \E c \in Client : Forwarder(c) \/ Handler(c) \/ ClientStep(c)

Spec == Init /\ [][Next]_vars

\* The runtime keeps scheduling the reader threads and the tasks of a
\* connection, tokio's channels and mutexes serve those who wait for them in
\* turn, and the client keeps reading its socket.  Nobody has to send requests
\* or to produce output.
Fairness ==
  /\ \A p \in Pane : WF_vars(p \in Panes /\ BroadcastDiff(p))
  /\ \A c \in Client : SF_vars(Forwarder(c)) /\ SF_vars(Handler(c)) /\ WF_vars(Apply(c))

FairSpec == Spec /\ Fairness

-----------------------------------------------------------------------------
(***************************************************************************)
(* Properties.                                                             *)
(***************************************************************************)

\* Every variable has its type, and a forwarder's position and an outbox stay
\* within the ring and the channel.
TypeOK ==
  /\ inWindow \in Seq(Window) /\ Len(inWindow) \in Pane
  /\ Windows \subseteq Window /\ focusOf \in [Windows -> Panes]
  /\ focusedWindow \in Windows
  /\ grid \in [Panes -> [Row -> 0 .. MaxBurst]]
  /\ unsent \in [Panes -> Row \cup {0}]
  /\ burst \in 0 .. MaxBurst /\ Len(ring) <= burst
  /\ lock \in Client \cup {NoOne}
  /\ \A c \in Client :
       /\ next[c] \in 0 .. (Len(ring) + 1)
       /\ Len(outbox[c]) <= OutboxSize
       /\ DOMAIN screen[c] \cup shown[c] \cup behind[c] \subseteq Panes

\* Everything on its way to an attached client has arrived.
Settled(c) ==
  /\ next[c] = Len(ring) + 1 /\ ~ lagged[c] /\ hand[c] = <<>>
  /\ step[c] = Idle /\ reply[c] = <<>> /\ outbox[c] = <<>>
  /\ \A p \in Panes : unsent[p] = 0

Stale(c) == {p \in DOMAIN screen[c] : screen[c][p] # grid[p]}

\* Whatever the ring drops and however the forwarder's diffs and resyncs mix
\* with the handler's refreshes, a settled client has a stale grid in three cases
\* only: the last refresh a handler sent for that pane entered the outbox behind
\* a newer diff, its diffs were dropped while it was outside the focused window
\* (the Lagged arm of session_dispatch.rs), or the client attached again.
StaleIsExplained ==
  \A c \in Client : Settled(c) => Stale(c) \subseteq behind[c]

CaughtUp(c) == next[c] = Len(ring) + 1 /\ ~ lagged[c] /\ hand[c] = <<>>

\* Neither a full outbox nor a lag blocks a forwarder for good: an attached
\* client catches up with the ring again and again (session_dispatch.rs, the
\* Lagged arm continues the loop after the resync).
CatchesUp == \A c \in Client : []<>(Attached(c) => CaughtUp(c))

\* Every handler finishes the request it serves, although SetBroadcast keeps the
\* session lock while it waits for room in an outbox that the forwarder fills.
RequestsAnswered == \A c \in Client : []<>Ready(c)

\* A settled client's grid of the focused pane is the pane's: subscribing before
\* composing the refresh (session_dispatch.rs, handle_attach) loses no output.
SettledIsFresh ==
  \A c \in Client : Settled(c) => focusOf[focusedWindow] \notin Stale(c)

\* A settled client has a grid for every pane of the layout it displays, as a
\* FullRefresh is "sent on attach and when a pane is created" (PROTOCOL.md).
ShownPanesHaveGrids ==
  \A c \in Client : Settled(c) => shown[c] \subseteq DOMAIN screen[c]
=============================================================================
