--------------------------- MODULE DeliveryProofs ---------------------------
(***************************************************************************)
(* Theorems about Delivery, for any number of clients, panes, windows and  *)
(* bursts and any capacity of the ring and of the outbox.  A value that a  *)
(* client shows, or will show when what is on its way has arrived, may be  *)
(* old only as long as a newer one is still coming: unsent by the reader,  *)
(* in the ring ahead of the forwarder, in the forwarder's hand or behind   *)
(* it in the outbox.  The invariant says so of every message.              *)
(***************************************************************************)
EXTENDS Delivery, FiniteSetTheorems, SequenceTheorems, TLAPS

Grid      == [Row -> 0 .. MaxBurst]
Diffs     == [kind : {"diff"}, pane : Pane, row : Row, val : 0 .. MaxBurst]
Refreshes == [kind : {"refresh"}, pane : Pane, grid : Grid]
Layouts   == [kind : {"layout"}, panes : SUBSET Pane]
Message   == Diffs \cup Refreshes \cup Layouts \cup {BroadcastMode}
Screens   == UNION {[P -> Grid] : P \in SUBSET Pane}
Steps     == {Idle, [at |-> "refresh"], [at |-> "layout"], [at |-> "window"]}
               \cup [at : {"split"}, pane : Pane]

ServerTyped ==
  /\ inWindow \in Seq(Window) /\ Len(inWindow) \in Pane
  /\ \E n \in 1 .. MaxWindow : Windows = 1 .. n
  /\ focusOf \in [Windows -> Panes] /\ focusedWindow \in Windows
  /\ grid \in [Panes -> Grid] /\ unsent \in [Panes -> Row \cup {0}]
  /\ burst \in 0 .. MaxBurst /\ ring \in Seq(Diffs)

QueuesTyped ==
  /\ lock \in Client \cup {NoOne}
  /\ next \in [Client -> Nat] /\ lagged \in [Client -> BOOLEAN]
  /\ hand \in [Client -> Seq(Diffs \cup Refreshes)]
  /\ step \in [Client -> Steps] /\ reply \in [Client -> Seq(Message)]
  /\ outbox \in [Client -> Seq(Message)]
  /\ screen \in [Client -> Screens] /\ shown \in [Client -> SUBSET Pane]
  /\ behind \in [Client -> SUBSET Pane]

\* What a message says of row r of pane p.
Touches(m, p, r) ==
  \/ m.kind = "refresh" /\ m.pane = p
  \/ m.kind = "diff" /\ m.pane = p /\ m.row = r

Says(m, r) == IF m.kind = "refresh" THEN m.grid[r] ELSE m.val

\* A value is fresh for a forwarder at position n if it is the one the row has,
\* or a newer one is coming.
Coming(n, p, r)   == unsent[p] = r \/ \E i \in n .. Len(ring) : Touches(ring[i], p, r)
Fresh(n, p, r, v) == v = grid[p][r] \/ Coming(n, p, r)

\* A diff is fresh for those who receive it, and every value a row has had since
\* the pane was created is sent sooner or later.
RingOK ==
  /\ \A p \in Panes, r \in Row : grid[p][r] <= burst
  /\ \A i \in 1 .. Len(ring) : ring[i].pane \in Panes
  /\ \A i \in 1 .. Len(ring), p \in Panes, r \in Row :
       Touches(ring[i], p, r) => Fresh(i + 1, p, r, ring[i].val)
  /\ \A p \in Panes, r \in Row :
       \/ grid[p][r] = 0 \/ unsent[p] = r
       \/ \E i \in 1 .. Len(ring) : Touches(ring[i], p, r) /\ ring[i].val = grid[p][r]

\* The forwarder holds nothing, one diff it has just received, or refreshes;
\* whatever it holds is fresh.
HandOK(c) ==
  /\ next[c] <= Len(ring) + 1
  /\ lagged[c] => hand[c] = <<>>
  /\ \/ \A i \in 1 .. Len(hand[c]) : hand[c][i].kind = "refresh"
     \/ /\ Len(hand[c]) = 1 /\ next[c] >= 2
        /\ hand[c][1] = ring[next[c] - 1]
  /\ \A i \in 1 .. Len(hand[c]) :
       LET m == hand[c][i]
       IN  /\ m.pane \in Panes
           /\ \A r \in Row : Touches(m, m.pane, r) => Fresh(next[c], m.pane, r, Says(m, r))

\* A refresh a handler has composed is not ahead of the pane.
ReplyOK(c) ==
  /\ step[c].at = "split" => step[c].pane \in Panes
  /\ \A i \in 1 .. Len(reply[c]) :
       LET m == reply[c][i]
       IN  /\ m.kind # "diff"
           /\ m.kind = "refresh" =>
                m.pane \in Panes /\ \A r \in Row : m.grid[r] <= grid[m.pane][r]

\* A message about the row comes to the client after the first i in its outbox.
InHand(c, p, r)   == \E j \in 1 .. Len(hand[c]) : Touches(hand[c][j], p, r)
Later(c, i, p, r) ==
  InHand(c, p, r) \/ \E j \in (i + 1) .. Len(outbox[c]) : Touches(outbox[c][j], p, r)

Known(c) ==
  /\ DOMAIN screen[c] \subseteq Panes
  /\ \A i \in 1 .. Len(outbox[c]) :
       outbox[c][i].kind \in {"diff", "refresh"} => outbox[c][i].pane \in Panes

\* Unless the client may miss output of the pane, what it shows, or is sent, of
\* the pane is fresh or superseded by a message behind it.
RowOK(c, p, r) ==
  /\ \A i \in 1 .. Len(outbox[c]) : Touches(outbox[c][i], p, r) =>
       Fresh(next[c], p, r, Says(outbox[c][i], r)) \/ Later(c, i, p, r)
  /\ p \in DOMAIN screen[c] => Fresh(next[c], p, r, screen[c][p][r]) \/ Later(c, 0, p, r)

OutOK(c) == Known(c) /\ \A p \in Panes, r \in Row : p \notin behind[c] => RowOK(c, p, r)

\* A client that is not attached has nothing.
DetachedOK(c) ==
  next[c] = 0 =>
    /\ hand[c] = <<>> /\ reply[c] = <<>> /\ outbox[c] = <<>>
    /\ step[c] = Idle /\ ~ lagged[c] /\ DOMAIN screen[c] = {}

ClientOK(c) == HandOK(c) /\ ReplyOK(c) /\ OutOK(c) /\ DetachedOK(c)

\* The inductive invariant.
IInv == ServerTyped /\ QueuesTyped /\ RingOK /\ \A c \in Client : ClientOK(c)

-----------------------------------------------------------------------------
(***************************************************************************)
(* Types.                                                                  *)
(***************************************************************************)

\* The panes of a session are a part of the panes there may be.
LEMMA PanesInPane ==
  ASSUME DeliveryAssumption, ServerTyped
  PROVE  /\ Len(inWindow) \in Nat /\ Panes \subseteq Pane
         /\ \A w \in Windows : focusOf[w] \in Panes
         /\ focusOf[focusedWindow] \in Panes
         /\ \A p \in Panes : grid[p] \in Grid /\ p \in Nat
<1>1. Len(inWindow) \in Nat /\ Panes \subseteq Pane
  BY DEF DeliveryAssumption, ServerTyped, Panes, Pane
<1>2. \A p \in Panes : grid[p] \in Grid /\ p \in Nat
  BY <1>1 DEF ServerTyped, Panes
<1> QED BY <1>1, <1>2 DEF ServerTyped

\* The messages are what they are called.
LEMMA MessageTypes ==
  /\ \A p \in Pane, r \in Row, v \in 0 .. MaxBurst : Diff(p, r, v) \in Diffs
  /\ \A p \in Pane, g \in Grid : Refresh(p, g) \in Refreshes
  /\ \A ps \in SUBSET Pane : Layout(ps) \in Layouts
  /\ Diffs \subseteq Message /\ Refreshes \subseteq Message /\ Layouts \subseteq Message
  /\ BroadcastMode \in Message
  /\ \A m \in Message :
       /\ m.kind = "diff" <=> m \in Diffs
       /\ m.kind = "refresh" <=> m \in Refreshes
       /\ m.kind = "layout" <=> m \in Layouts
<1>1. \A p \in Pane, r \in Row, v \in 0 .. MaxBurst : Diff(p, r, v) \in Diffs
  BY DEF Diff, Diffs
<1>2. \A p \in Pane, g \in Grid : Refresh(p, g) \in Refreshes
  BY DEF Refresh, Refreshes
<1>3. \A ps \in SUBSET Pane : Layout(ps) \in Layouts
  BY DEF Layout, Layouts
<1>4. /\ \A m \in Diffs : m.kind = "diff"
      /\ \A m \in Refreshes : m.kind = "refresh"
      /\ \A m \in Layouts : m.kind = "layout"
      /\ BroadcastMode.kind = "mode"
  BY DEF Diffs, Refreshes, Layouts, BroadcastMode
<1> QED BY <1>1, <1>2, <1>3, <1>4 DEF Message

\* The refreshes of a window are one for each of its panes.
LEMMA RefreshesOfAll ==
  ASSUME DeliveryAssumption, ServerTyped, NEW w
  PROVE  LET ms == all_full_refreshes(w)
         IN  /\ ms \in Seq(Refreshes)
             /\ \A i \in 1 .. Len(ms) :
                  /\ ms[i].kind = "refresh" /\ ms[i].pane \in PanesOf(w)
                  /\ ms[i].grid = grid[ms[i].pane]
             /\ \A p \in PanesOf(w) : \E i \in 1 .. Len(ms) : ms[i].pane = p
<1> DEFINE S  == PanesOf(w)
           n  == Cardinality(S)
           ps == SetToSeq(S)
           ms == all_full_refreshes(w)
<1>1. IsFiniteSet(S)
  <2>1. IsFiniteSet(Panes)
    BY PanesInPane, FS_Interval DEF Panes
  <2> QED BY <2>1, FS_Subset DEF PanesOf
<1>2. n \in Nat /\ \E f \in [1 .. n -> S] : IsInjective(f)
  <2>1. n \in Nat /\ ExistsBijection(1 .. n, S)
    BY <1>1, FS_CardinalityType
  <2> QED BY <2>1 DEF ExistsBijection, Bijection, Injection, IsInjective
<1>3. ps \in [1 .. n -> S] /\ IsInjective(ps)
  BY <1>2 DEF SetToSeq
<1>4. \A p \in S : \E i \in 1 .. n : ps[i] = p
  <2>1. ps \in Injection(1 .. n, S)
    BY <1>3 DEF Injection, IsInjective
  <2>2. Cardinality(1 .. n) = n
    BY <1>2, FS_Interval
  <2>3. ps \in Surjection(1 .. n, S)
    BY <2>1, <2>2, <1>1, FS_Injection
  <2> QED BY <2>3 DEF Surjection
<1> HIDE DEF n, ps
<1>5. ms = [i \in 1 .. n |-> Refresh(ps[i], grid[ps[i]])]
  BY <1>3 DEF all_full_refreshes, ps
<1> HIDE DEF ms
<1>6. \A i \in 1 .. n : ps[i] \in S /\ ps[i] \in Pane /\ grid[ps[i]] \in Grid
  BY <1>3, PanesInPane DEF PanesOf
<1>7. ms \in [1 .. n -> Refreshes]
  BY <1>5, <1>6, MessageTypes
<1>8. ms \in Seq(Refreshes) /\ Len(ms) = n
  BY <1>2, <1>7
<1>9. \A i \in 1 .. n : ms[i].kind = "refresh" /\ ms[i].pane = ps[i]
                          /\ ms[i].grid = grid[ps[i]]
  BY <1>5 DEF Refresh
<1> QED BY <1>3, <1>4, <1>6, <1>8, <1>9 DEF ms

\* Appending to a function on 1 .. n.
LEMMA AppendToFunction ==
  ASSUME NEW n \in Nat, NEW S, NEW f \in [1 .. n -> S], NEW x \in S
  PROVE  /\ Append(f, x) \in [1 .. (n + 1) -> S]
         /\ \A i \in 1 .. n : Append(f, x)[i] = f[i]
         /\ Append(f, x)[n + 1] = x
<1> DEFINE g == Append(f, x)
<1>1. f \in Seq(S) /\ Len(f) = n
  OBVIOUS
<1>2. /\ g \in Seq(S) /\ Len(g) = n + 1
      /\ \A i \in 1 .. n : g[i] = f[i]
      /\ g[n + 1] = x
  BY <1>1
<1> HIDE DEF g
<1>3. g \in [1 .. (n + 1) -> S]
  BY <1>2
<1> QED BY <1>2, <1>3 DEF g

\* A new pane leaves the others as they are.
LEMMA CreatePaneEffect ==
  ASSUME DeliveryAssumption, ServerTyped, NEW w \in Window, CreatePane(w),
         w \in Windows \/ w = Cardinality(Windows) + 1
  PROVE  /\ ServerTyped'
         /\ Panes' = Panes \cup {Len(inWindow) + 1}
         /\ Len(inWindow) + 1 \in Pane /\ Len(inWindow) + 1 \notin Panes
         /\ \A p \in Panes : grid'[p] = grid[p] /\ unsent'[p] = unsent[p]
         /\ grid'[Len(inWindow) + 1] = Blank /\ unsent'[Len(inWindow) + 1] = 0
         /\ ring' = ring /\ burst' = burst
<1> DEFINE k == Len(inWindow)
<1>1. k \in Nat /\ k + 1 \in Pane /\ Panes \subseteq Pane
  BY PanesInPane DEF CreatePane, DeliveryAssumption, Pane
<1>2. inWindow' \in Seq(Window) /\ Len(inWindow') = k + 1
  BY DEF CreatePane, ServerTyped
<1>3. Panes' = Panes \cup {k + 1} /\ k + 1 \notin Panes /\ Panes = 1 .. k /\ Panes' = 1 .. (k + 1)
  BY <1>1, <1>2 DEF Panes
<1>4. Blank \in Grid
  BY DEF Blank, Grid, DeliveryAssumption
<1>5. /\ grid' \in [Panes' -> Grid] /\ grid'[k + 1] = Blank
      /\ \A p \in Panes : grid'[p] = grid[p]
  <2>1. grid \in [1 .. k -> Grid] /\ grid' = Append(grid, Blank)
    BY <1>3 DEF CreatePane, ServerTyped
  <2>2. Append(grid, Blank) \in [1 .. (k + 1) -> Grid]
    BY <1>1, <1>4, <2>1, AppendToFunction
  <2>3. \A i \in 1 .. k : Append(grid, Blank)[i] = grid[i]
    BY <1>1, <1>4, <2>1, AppendToFunction
  <2>4. Append(grid, Blank)[k + 1] = Blank
    BY <1>1, <1>4, <2>1, AppendToFunction
  <2> QED BY <1>3, <2>1, <2>2, <2>3, <2>4, Zenon
<1>6. /\ unsent' \in [Panes' -> Row \cup {0}] /\ unsent'[k + 1] = 0
      /\ \A p \in Panes : unsent'[p] = unsent[p]
  <2>1. unsent \in [1 .. k -> Row \cup {0}] /\ unsent' = Append(unsent, 0)
    BY <1>3 DEF CreatePane, ServerTyped
  <2>2. 0 \in Row \cup {0}
    OBVIOUS
  <2>3. Append(unsent, 0) \in [1 .. (k + 1) -> Row \cup {0}]
    BY <1>1, <2>1, <2>2, AppendToFunction
  <2>4. \A i \in 1 .. k : Append(unsent, 0)[i] = unsent[i]
    BY <1>1, <2>1, <2>2, AppendToFunction
  <2>5. Append(unsent, 0)[k + 1] = 0
    BY <1>1, <2>1, <2>2, AppendToFunction
  <2> QED BY <1>3, <2>1, <2>3, <2>4, <2>5, Zenon
<1>7. \E n \in 1 .. MaxWindow : Windows' = 1 .. n
  <2>1. PICK n \in 1 .. MaxWindow : Windows = 1 .. n
    BY DEF ServerTyped
  <2>2. n \in Nat /\ Cardinality(Windows) = n
    BY <2>1, FS_Interval DEF DeliveryAssumption
  <2>3. Windows' = Windows \cup {w}
    BY DEF CreatePane, Windows
  <2>4. CASE w \in Windows
    BY <2>1, <2>3, <2>4
  <2>5. CASE w = Cardinality(Windows) + 1
    <3>1. Windows' = 1 .. (n + 1) /\ n + 1 \in 1 .. MaxWindow
      BY <2>1, <2>2, <2>3, <2>5 DEF Window, DeliveryAssumption
    <3> QED BY <3>1
  <2> QED BY <2>4, <2>5
<1>8. focusOf' \in [Windows' -> Panes'] /\ focusedWindow' \in Windows'
  BY <1>3 DEF CreatePane, Windows, ServerTyped
<1>9. ring' = ring /\ burst' = burst
  BY DEF CreatePane
<1>10. ServerTyped'
  BY <1>1, <1>2, <1>3, <1>5, <1>6, <1>7, <1>8, <1>9 DEF ServerTyped
<1> QED BY <1>1, <1>3, <1>5, <1>6, <1>9, <1>10

\* Windows are numbered from one.
LEMMA WindowsInWindow ==
  ASSUME DeliveryAssumption, ServerTyped
  PROVE  /\ Windows \subseteq Window
         /\ Cardinality(Windows) < MaxWindow => Cardinality(Windows) + 1 \in Window
<1>1. PICK n \in 1 .. MaxWindow : Windows = 1 .. n
  BY DEF ServerTyped
<1>2. n \in Nat /\ Cardinality(Windows) = n
  BY <1>1, FS_Interval DEF DeliveryAssumption
<1> QED BY <1>1, <1>2 DEF Window, DeliveryAssumption

LEMMA ServerTypedStep ==
  ASSUME DeliveryAssumption, ServerTyped, [Next]_vars
  PROVE  ServerTyped'
<1>1. CASE UNCHANGED server
  BY <1>1 DEF server, window, ServerTyped, Panes, Windows
<1>2. ASSUME NEW p \in Panes, NEW r \in Row, StoreGrid(p, r)
      PROVE  ServerTyped'
  <2>1. burst + 1 \in 0 .. MaxBurst
    BY <1>2 DEF StoreGrid, ServerTyped, DeliveryAssumption
  <2>2. grid' \in [Panes -> Grid] /\ unsent' \in [Panes -> Row \cup {0}]
    BY <1>2, <2>1 DEF StoreGrid, ServerTyped, Grid
  <2> QED BY <1>2, <2>1, <2>2 DEF StoreGrid, ServerTyped, Panes, Windows, window
<1>3. ASSUME NEW p \in Panes, BroadcastDiff(p)
      PROVE  ServerTyped'
  <2>1. unsent[p] \in Row /\ p \in Pane
    BY <1>3, PanesInPane DEF BroadcastDiff, ServerTyped
  <2>2. Diff(p, unsent[p], grid[p][unsent[p]]) \in Diffs
    BY <2>1, MessageTypes DEF ServerTyped, Grid
  <2>3. ring' \in Seq(Diffs)
    BY <1>3, <2>2 DEF BroadcastDiff, ServerTyped
  <2>4. unsent' \in [Panes -> Row \cup {0}]
    BY <1>3 DEF BroadcastDiff, ServerTyped
  <2> QED BY <1>3, <2>3, <2>4 DEF BroadcastDiff, ServerTyped, Panes, Windows, window
<1>4. ASSUME NEW c \in Client, Split(c) \/ AddWindow(c)
      PROVE  ServerTyped'
  <2>1. focusedWindow \in Windows
    BY DEF ServerTyped
  <2> QED BY <1>4, <2>1, WindowsInWindow, CreatePaneEffect DEF Split, AddWindow
<1>5. ASSUME NEW c \in Client, NEW w \in Window, FocusWindow(c, w)
      PROVE  ServerTyped'
  BY <1>5 DEF FocusWindow, ServerTyped, Panes, Windows
<1>6. ASSUME NEW c \in Client, NEW p \in Pane, FocusPane(c, p)
      PROVE  ServerTyped'
  <2>1. p \in Panes /\ focusedWindow \in Windows
    BY <1>6 DEF FocusPane, PanesOf, ServerTyped
  <2>2. focusOf' \in [Windows -> Panes] /\ Windows' = Windows
    BY <1>6, <2>1 DEF FocusPane, ServerTyped, Windows
  <2> QED BY <1>6, <2>2 DEF FocusPane, ServerTyped, Panes
<1>7. CASE Next
  <2>1. ASSUME NEW c \in Client, Forwarder(c) PROVE UNCHANGED server
    BY <2>1 DEF Forwarder, Receive, Lag, Resync, ForwardNext
  <2>2. ASSUME NEW c \in Client, Handler(c) PROVE UNCHANGED server
    BY <2>2 DEF Handler, AttachRefresh, AttachLayout, SplitReply, AddWindowReply, SendReply
  <2>3. ASSUME NEW c \in Client,
               Attach(c) \/ SetBroadcast(c) \/ Disconnect(c) \/ Apply(c)
        PROVE  UNCHANGED server
    BY <2>3 DEF Attach, SetBroadcast, Disconnect, Apply
  <2>4. ASSUME NEW c \in Client, ClientStep(c) PROVE ServerTyped'
    BY <1>1, <1>4, <1>5, <1>6, <2>3, <2>4 DEF ClientStep
  <2> QED BY <1>1, <1>2, <1>3, <1>7, <2>1, <2>2, <2>4 DEF Next, Reader
<1> QED BY <1>1, <1>7 DEF vars

\* The head and the tail of what is left to deliver.
LEMMA HeadAndTail ==
  ASSUME NEW S, NEW q \in Seq(S), q # <<>>
  PROVE  /\ Len(q) \in Nat /\ Len(q) >= 1
         /\ Head(q) \in S /\ Head(q) = q[1]
         /\ Tail(q) \in Seq(S) /\ Len(Tail(q)) = Len(q) - 1
         /\ \A i \in 1 .. (Len(q) - 1) : Tail(q)[i] = q[i + 1]
OBVIOUS

\* What a client keeps is a grid for some panes.
LEMMA ScreenTypes ==
  ASSUME NEW s \in Screens
  PROVE  /\ DOMAIN s \subseteq Pane /\ s \in [DOMAIN s -> Grid]
         /\ \A p \in DOMAIN s : s[p] \in Grid
BY DEF Screens

\* The records a step can be.
LEMMA StepTypes ==
  /\ Idle \in Steps /\ [at |-> "refresh"] \in Steps /\ [at |-> "layout"] \in Steps
  /\ [at |-> "window"] \in Steps
  /\ \A p \in Pane : [at |-> "split", pane |-> p] \in Steps
  /\ \A s \in Steps : s.at = "split" => s.pane \in Pane
BY DEF Steps, Idle

LEMMA ForwarderTyped ==
  ASSUME DeliveryAssumption, ServerTyped, QueuesTyped, NEW c \in Client, Forwarder(c)
  PROVE  QueuesTyped'
<1>1. CASE Receive(c)
  <2>1. next[c] \in 1 .. Len(ring)
    BY <1>1 DEF Receive, Receiving, QueuesTyped, ServerTyped
  <2>2. ring[next[c]] \in Diffs /\ next[c] + 1 \in Nat
    BY <2>1 DEF ServerTyped
  <2>3. hand' \in [Client -> Seq(Diffs \cup Refreshes)] /\ next' \in [Client -> Nat]
    BY <1>1, <2>2 DEF Receive, QueuesTyped
  <2> QED BY <1>1, <2>3 DEF Receive, QueuesTyped, handler, client
<1>2. CASE Lag(c)
  <2>1. Oldest \in Nat
    BY DEF Oldest, ServerTyped, DeliveryAssumption
  <2>2. \A k \in next[c] .. (Oldest - 1) : k \in 1 .. Len(ring)
    BY <1>2, <2>1 DEF Lag, Receiving, QueuesTyped, ServerTyped, Oldest, DeliveryAssumption
  <2>3. PanesFrom(next[c], Oldest - 1) \subseteq Pane
    <3>1. \A k \in next[c] .. (Oldest - 1) : ring[k] \in Diffs
      BY <2>2 DEF ServerTyped
    <3>2. \A d \in Diffs : d.pane \in Pane
      BY DEF Diffs
    <3> QED BY <3>1, <3>2, Zenon DEF PanesFrom
  <2>4. behind' \in [Client -> SUBSET Pane] /\ next' \in [Client -> Nat]
        /\ lagged' \in [Client -> BOOLEAN]
    BY <1>2, <2>1, <2>3 DEF Lag, QueuesTyped
  <2> QED BY <1>2, <2>4 DEF Lag, QueuesTyped, handler, client
<1>3. CASE Resync(c)
  <2>1. all_full_refreshes(focusedWindow) \in Seq(Diffs \cup Refreshes)
    BY RefreshesOfAll
  <2>2. /\ hand' \in [Client -> Seq(Diffs \cup Refreshes)]
        /\ lagged' \in [Client -> BOOLEAN] /\ behind' \in [Client -> SUBSET Pane]
    BY <1>3, <2>1 DEF Resync, QueuesTyped
  <2> QED BY <1>3, <2>2 DEF Resync, QueuesTyped, handler, client
<1>4. CASE ForwardNext(c)
  <2>1. /\ Head(hand[c]) \in Message /\ Tail(hand[c]) \in Seq(Diffs \cup Refreshes)
    BY <1>4, HeadAndTail, MessageTypes DEF ForwardNext, QueuesTyped
  <2>2. outbox' \in [Client -> Seq(Message)] /\ hand' \in [Client -> Seq(Diffs \cup Refreshes)]
    BY <1>4, <2>1 DEF ForwardNext, QueuesTyped
  <2> QED BY <1>4, <2>2 DEF ForwardNext, QueuesTyped, handler, client
<1> QED BY <1>1, <1>2, <1>3, <1>4 DEF Forwarder

LEMMA HandlerTyped ==
  ASSUME DeliveryAssumption, ServerTyped, QueuesTyped, NEW c \in Client, Handler(c)
  PROVE  QueuesTyped'
<1>1. /\ FocusedRefresh(focusedWindow) \in Message
      /\ \A w : Layout(PanesOf(w)) \in Message
      /\ \A p \in Pane : Refresh(p, Blank) \in Message
  <2>1. Blank \in Grid
    BY DEF Blank, Grid, DeliveryAssumption
  <2>2. \A w : PanesOf(w) \in SUBSET Pane
    BY PanesInPane DEF PanesOf
  <2> QED BY <2>1, <2>2, PanesInPane, MessageTypes DEF FocusedRefresh
<1>2. CASE AttachRefresh(c)
  BY <1>1, <1>2, StepTypes DEF AttachRefresh, QueuesTyped, forwarder, client
<1>3. CASE AttachLayout(c)
  BY <1>1, <1>3, StepTypes DEF AttachLayout, QueuesTyped, forwarder, client
<1>4. CASE SplitReply(c)
  <2>1. step[c].pane \in Pane
    BY <1>4, StepTypes DEF SplitReply, QueuesTyped
  <2>2. reply' \in [Client -> Seq(Message)]
    BY <1>1, <1>4, <2>1 DEF SplitReply, QueuesTyped
  <2> QED BY <1>4, <2>2, StepTypes DEF SplitReply, QueuesTyped, forwarder, client
<1>5. CASE AddWindowReply(c)
  BY <1>1, <1>5, StepTypes DEF AddWindowReply, QueuesTyped, forwarder, client
<1>6. CASE SendReply(c)
  <2>1. Head(reply[c]) \in Message /\ Tail(reply[c]) \in Seq(Message)
    BY <1>6, HeadAndTail DEF SendReply, QueuesTyped
  <2>2. outbox' \in [Client -> Seq(Message)] /\ reply' \in [Client -> Seq(Message)]
    BY <1>6, <2>1 DEF SendReply, QueuesTyped
  <2>3. lock' \in Client \cup {NoOne}
    BY <1>6 DEF SendReply, Released, QueuesTyped
  <2>4. Head(reply[c]).kind = "refresh" => Head(reply[c]).pane \in Pane
    BY <2>1, MessageTypes DEF Refreshes
  <2>5. behind' \in [Client -> SUBSET Pane]
    <3> DEFINE m == Head(reply[c])
    <3>1. \/ behind' = behind
          \/ m.kind = "refresh" /\ behind' = [behind EXCEPT ![c] = @ \cup {m.pane}]
          \/ m.kind = "refresh" /\ behind' = [behind EXCEPT ![c] = @ \ {m.pane}]
      BY <1>6, Zenon DEF SendReply
    <3> HIDE DEF m
    <3>2. behind \in [Client -> SUBSET Pane] /\ (m.kind = "refresh" => m.pane \in Pane)
      BY <2>4 DEF m, QueuesTyped
    <3>3. CASE behind' = [behind EXCEPT ![c] = @ \cup {m.pane}] /\ m.kind = "refresh"
      BY <3>2, <3>3
    <3>4. CASE behind' = [behind EXCEPT ![c] = @ \ {m.pane}]
      BY <3>2, <3>4
    <3> QED BY <3>1, <3>2, <3>3, <3>4
  <2> QED BY <1>6, <2>2, <2>3, <2>5 DEF SendReply, QueuesTyped, forwarder, client
<1> QED BY <1>2, <1>3, <1>4, <1>5, <1>6 DEF Handler

LEMMA ClientStepTyped ==
  ASSUME DeliveryAssumption, ServerTyped, QueuesTyped, NEW c \in Client, ClientStep(c)
  PROVE  QueuesTyped'
<1>1. /\ \A w \in Windows : FocusedRefresh(w) \in Message
      /\ \A w : Layout(PanesOf(w)) \in Message
      /\ BroadcastMode \in Message
  <2>1. \A w : PanesOf(w) \in SUBSET Pane
    BY PanesInPane DEF PanesOf
  <2> QED BY <2>1, PanesInPane, MessageTypes DEF FocusedRefresh
<1>2. /\ <<>> \in Seq(Diffs \cup Refreshes) /\ <<>> \in Seq(Message)
      /\ <<>> \in Screens /\ {} \in SUBSET Pane
  <2>1. <<>> \in [{} -> Grid]
    OBVIOUS
  <2>2. {} \in SUBSET Pane
    OBVIOUS
  <2>3. <<>> \in Screens
    BY <2>1, <2>2, Zenon DEF Screens
  <2> QED BY <2>2, <2>3
<1>3. CASE Attach(c)
  <2>1. /\ next' = [next EXCEPT ![c] = Len(ring) + 1]
        /\ lagged' = [lagged EXCEPT ![c] = FALSE] /\ hand' = [hand EXCEPT ![c] = <<>>]
        /\ step' = [step EXCEPT ![c] = [at |-> "refresh"]]
    BY <1>3 DEF Attach
  <2>2. Len(ring) + 1 \in Nat
    BY DEF ServerTyped
  <2>3. behind' \in [Client -> SUBSET Pane]
    <3> DEFINE lost == PanesFrom(next[c], Len(ring)) \cup {m.pane : m \in Range(hand[c])}
    <3>1. Attached(c) => lost \subseteq Pane
      <4>1. SUFFICES ASSUME Attached(c) PROVE lost \subseteq Pane
        OBVIOUS
      <4>2. \A k \in next[c] .. Len(ring) : ring[k] \in Diffs
        BY <4>1 DEF ServerTyped, QueuesTyped, Attached
      <4>3. \A m \in Diffs \cup Refreshes : m.pane \in Pane
        BY DEF Diffs, Refreshes
      <4>4. PanesFrom(next[c], Len(ring)) \subseteq Pane
        BY <4>2, <4>3, Zenon DEF PanesFrom
      <4>5. \A i \in DOMAIN hand[c] : hand[c][i] \in Diffs \cup Refreshes
        BY DEF QueuesTyped
      <4>6. \A m \in Range(hand[c]) : m.pane \in Pane
        BY <4>3, <4>5, Zenon DEF Range
      <4> QED BY <4>4, <4>6
    <3>2. \/ behind' = behind
          \/ Attached(c) /\ behind' = [behind EXCEPT ![c] = @ \cup lost]
      BY <1>3 DEF Attach
    <3> HIDE DEF lost
    <3>3. CASE Attached(c) /\ behind' = [behind EXCEPT ![c] = @ \cup lost]
      BY <3>1, <3>3 DEF QueuesTyped
    <3> QED BY <3>2, <3>3 DEF QueuesTyped
  <2>4. next' \in [Client -> Nat] /\ lagged' \in [Client -> BOOLEAN]
        /\ hand' \in [Client -> Seq(Diffs \cup Refreshes)] /\ step' \in [Client -> Steps]
    BY <1>2, <2>1, <2>2, StepTypes DEF QueuesTyped
  <2> QED BY <1>3, <2>3, <2>4 DEF Attach, QueuesTyped, client
<1>4. CASE Split(c)
  <2>1. Len(inWindow) + 1 \in Pane
    BY <1>4, PanesInPane DEF Split, CreatePane, Pane
  <2>2. step' \in [Client -> Steps]
    BY <1>4, <2>1, StepTypes DEF Split, QueuesTyped
  <2> QED BY <1>4, <2>2 DEF Split, QueuesTyped, forwarder, client
<1>5. CASE AddWindow(c)
  BY <1>5, StepTypes DEF AddWindow, QueuesTyped, forwarder, client
<1>6. CASE SetBroadcast(c)
  BY <1>1, <1>6 DEF SetBroadcast, QueuesTyped, forwarder, client
<1>7. CASE Disconnect(c)
  BY <1>2, <1>7 DEF Disconnect, QueuesTyped, handler
<1>8. ASSUME NEW w \in Window, FocusWindow(c, w)
      PROVE  QueuesTyped'
  <2>1. reply' \in [Client -> Seq(Message)]
    BY <1>1, <1>8 DEF FocusWindow, QueuesTyped
  <2> QED BY <1>8, <2>1 DEF FocusWindow, QueuesTyped, forwarder, client
<1>9. ASSUME NEW p \in Pane, FocusPane(c, p)
      PROVE  QueuesTyped'
  <2>1. reply' \in [Client -> Seq(Message)]
    BY <1>1, <1>9 DEF FocusPane, QueuesTyped
  <2> QED BY <1>9, <2>1 DEF FocusPane, QueuesTyped, forwarder, client
<1>10. CASE Apply(c)
  <2> DEFINE m == Head(outbox[c])
             s == screen[c]
  <2>1. m \in Message /\ Tail(outbox[c]) \in Seq(Message)
    BY <1>10, HeadAndTail DEF Apply, QueuesTyped
  <2>2. outbox' \in [Client -> Seq(Message)]
    BY <1>10, <2>1 DEF Apply, QueuesTyped
  <2>3. s \in Screens /\ DOMAIN s \subseteq Pane /\ s \in [DOMAIN s -> Grid]
    BY ScreenTypes DEF QueuesTyped
  <2>4. screen' \in [Client -> Screens] /\ shown' \in [Client -> SUBSET Pane]
    <3>1. CASE m.kind = "refresh" /\ ApplyRefresh(c, m)
      <4>1. m.pane \in Pane /\ m.grid \in Grid
        BY <2>1, <3>1, MessageTypes DEF Refreshes
      <4> HIDE DEF m, s
      <4> DEFINE t == [p \in DOMAIN s \cup {m.pane} |-> IF p = m.pane THEN m.grid ELSE s[p]]
      <4>2. t \in [DOMAIN s \cup {m.pane} -> Grid]
        BY <2>3, <4>1
      <4>3. t \in Screens
        BY <2>3, <4>1, <4>2 DEF Screens
      <4>4. screen' = [screen EXCEPT ![c] = t] /\ shown' = shown
        BY <3>1 DEF ApplyRefresh, m, s
      <4> QED BY <4>3, <4>4 DEF QueuesTyped
    <3>2. CASE m.kind = "diff" /\ ApplyDiff(c, m)
      <4>1. m.row \in Row /\ m.val \in 0 .. MaxBurst /\ m.pane \in Pane
        BY <2>1, <3>2, MessageTypes DEF Diffs
      <4>2. CASE m.pane \in DOMAIN s
        <5> HIDE DEF m, s
        <5> DEFINE t == [s EXCEPT ![m.pane][m.row] = m.val]
        <5>1. t \in [DOMAIN s -> Grid]
          BY <2>3, <4>1 DEF Grid
        <5>2. t \in Screens
          BY <2>3, <5>1 DEF Screens
        <5>3. screen' = [screen EXCEPT ![c] = t] /\ shown' = shown
          BY <3>2, <4>2 DEF ApplyDiff, m, s
        <5> QED BY <5>2, <5>3 DEF QueuesTyped
      <4>3. CASE m.pane \notin DOMAIN s
        BY <3>2, <4>3 DEF ApplyDiff, QueuesTyped
      <4> QED BY <4>2, <4>3
    <3>3. CASE m.kind = "layout" /\ ApplyLayout(c, m)
      <4>1. m.panes \in SUBSET Pane
        BY <2>1, <3>3, MessageTypes DEF Layouts
      <4> QED BY <3>3, <4>1 DEF ApplyLayout, QueuesTyped
    <3>4. CASE UNCHANGED client
      BY <3>4 DEF client, QueuesTyped
    <3> QED BY <1>10, <3>1, <3>2, <3>3, <3>4 DEF Apply
  <2> QED BY <1>10, <2>2, <2>4 DEF Apply, QueuesTyped, forwarder, handler
<1> QED BY <1>3, <1>4, <1>5, <1>6, <1>7, <1>8, <1>9, <1>10 DEF ClientStep

LEMMA QueuesTypedStep ==
  ASSUME DeliveryAssumption, ServerTyped, QueuesTyped, [Next]_vars
  PROVE  QueuesTyped'
<1>1. ASSUME NEW p \in Panes, Reader(p)
      PROVE  QueuesTyped'
  BY <1>1 DEF Reader, StoreGrid, BroadcastDiff, QueuesTyped, forwarder, handler, client
<1>2. CASE UNCHANGED vars
  BY <1>2 DEF vars, QueuesTyped, forwarder, handler, client
<1> QED BY <1>1, <1>2, ForwarderTyped, HandlerTyped, ClientStepTyped DEF Next

-----------------------------------------------------------------------------
(***************************************************************************)
(* The session: what a step may do to the grids and the ring.              *)
(***************************************************************************)

\* Panes, versions and the ring only grow, and what is fresh stays fresh.
Grows ==
  /\ Panes \subseteq Panes'
  /\ \A p \in Panes, r \in Row : grid[p][r] <= grid'[p][r]
  /\ Len(ring) <= Len(ring')
  /\ \A i \in 1 .. Len(ring) : ring'[i] = ring[i]
  /\ \A n \in 1 .. (Len(ring) + 1), p \in Panes, r \in Row, v \in 0 .. MaxBurst :
       Fresh(n, p, r, v) => Fresh(n, p, r, v)'

\* The entries of the ring.
LEMMA RingEntries ==
  ASSUME ServerTyped, RingOK
  PROVE  /\ Len(ring) \in Nat
         /\ \A i \in 1 .. Len(ring) :
              /\ ring[i] \in Diffs /\ ring[i].kind = "diff"
              /\ ring[i].pane \in Panes /\ ring[i].row \in Row
              /\ ring[i].val \in 0 .. MaxBurst
<1>1. Len(ring) \in Nat /\ \A i \in 1 .. Len(ring) : ring[i] \in Diffs
  BY DEF ServerTyped
<1>2. \A d \in Diffs : d.kind = "diff" /\ d.row \in Row /\ d.val \in 0 .. MaxBurst
  BY DEF Diffs
<1> QED BY <1>1, <1>2 DEF RingOK

LEMMA StoreGridRing ==
  ASSUME DeliveryAssumption, ServerTyped, RingOK,
         NEW p \in Panes, NEW r \in Row, StoreGrid(p, r)
  PROVE  RingOK' /\ Grows
<1>1. /\ Panes' = Panes /\ ring' = ring /\ burst' = burst + 1 /\ unsent[p] = 0
      /\ \A q \in Panes, s \in Row :
           grid'[q][s] = IF q = p /\ s = r THEN burst + 1 ELSE grid[q][s]
      /\ \A q \in Panes : unsent'[q] = IF q = p THEN r ELSE unsent[q]
  BY DEF StoreGrid, window, Panes, ServerTyped, Grid
<1>2. \A q \in Panes, s \in Row : grid[q][s] \in Nat /\ grid[q][s] <= burst /\ s # 0
  BY DEF ServerTyped, RingOK, Grid, DeliveryAssumption
<1>3. burst \in Nat /\ Len(ring) \in Nat
  BY DEF ServerTyped, DeliveryAssumption
<1>4. \A q \in Panes, s \in Row : unsent[q] = s => unsent'[q] = s
  BY <1>1, <1>2
<1>5. \A q \in Panes, s \in Row : grid'[q][s] = grid[q][s] \/ unsent'[q] = s
  BY <1>1
<1>6. \A q \in Panes, s \in Row : grid[q][s] <= grid'[q][s] /\ grid'[q][s] <= burst'
  BY <1>1, <1>2, <1>3
<1>7. \A n, v : \A q \in Panes, s \in Row : Fresh(n, q, s, v) => Fresh(n, q, s, v)'
  BY <1>1, <1>4, <1>5 DEF Fresh, Coming
<1>8. \A q \in Panes, s \in Row :
        \/ grid'[q][s] = 0 \/ unsent'[q] = s
        \/ \E i \in 1 .. Len(ring) : Touches(ring'[i], q, s) /\ ring'[i].val = grid'[q][s]
  BY <1>1, <1>4, <1>5 DEF RingOK
<1>9. RingOK'
  BY <1>1, <1>6, <1>7, <1>8 DEF RingOK, Fresh, Coming
<1>10. Grows
  BY <1>1, <1>3, <1>6, <1>7 DEF Grows, Fresh, Coming
<1> QED BY <1>9, <1>10

LEMMA BroadcastDiffRing ==
  ASSUME DeliveryAssumption, ServerTyped, RingOK, NEW p \in Panes, BroadcastDiff(p)
  PROVE  RingOK' /\ Grows
<1> DEFINE k == Len(ring)
           r == unsent[p]
<1>1. r \in Row /\ k \in Nat
  BY DEF BroadcastDiff, ServerTyped
<1>2. Diff(p, r, grid[p][r]) \in Diffs
  BY <1>1, PanesInPane, MessageTypes DEF ServerTyped, Grid
<1>3. /\ Panes' = Panes /\ grid' = grid /\ burst' = burst
      /\ \A q \in Panes : unsent'[q] = IF q = p THEN 0 ELSE unsent[q]
  BY DEF BroadcastDiff, window, Panes, ServerTyped
<1>4. /\ Len(ring') = k + 1
      /\ \A i \in 1 .. k : ring'[i] = ring[i]
      /\ ring'[k + 1] = Diff(p, r, grid[p][r])
  BY <1>2 DEF BroadcastDiff, ServerTyped
<1> HIDE DEF k
<1>5. /\ ring'[k + 1].pane = p /\ ring'[k + 1].row = r /\ ring'[k + 1].val = grid[p][r]
      /\ Touches(ring'[k + 1], p, r)
      /\ \A q, s : Touches(ring'[k + 1], q, s) => q = p /\ s = r
  BY <1>4 DEF Touches, Diff
<1>6. \A q, s : \A i \in 1 .. k : Touches(ring'[i], q, s) <=> Touches(ring[i], q, s)
  BY <1>4
<1>7. ASSUME NEW q \in Panes, NEW s \in Row, unsent[q] = s
      PROVE  (q = p /\ s = r) \/ unsent'[q] = s
  BY <1>3, <1>7
<1> HIDE DEF r
<1>8. \A q \in Panes, s \in Row : grid[q][s] \in Nat
  BY DEF ServerTyped, Grid
<1>9. ASSUME NEW n \in 1 .. (k + 1), NEW q \in Panes, NEW s \in Row, Coming(n, q, s)
      PROVE  Coming(n, q, s)'
  <2>1. CASE unsent[q] = s
    <3>1. k + 1 \in n .. (k + 1)
      BY <1>1
    <3> QED BY <1>4, <1>5, <1>7, <2>1, <3>1 DEF Coming
  <2>2. CASE \E i \in n .. k : Touches(ring[i], q, s)
    <3>1. PICK i \in n .. k : Touches(ring[i], q, s)
      BY <2>2
    <3>2. i \in n .. (k + 1) /\ i \in 1 .. k
      BY <1>1
    <3> QED BY <1>4, <1>6, <3>1, <3>2 DEF Coming
  <2> QED BY <1>9, <2>1, <2>2 DEF Coming, k
<1>10. \A n \in 1 .. (k + 1), q \in Panes, s \in Row, v \in 0 .. MaxBurst :
         Fresh(n, q, s, v) => Fresh(n, q, s, v)'
  BY <1>3, <1>9 DEF Fresh
<1>11. Grows
  <2>1. Len(ring) <= Len(ring') /\ \A q \in Panes, s \in Row : grid[q][s] <= grid'[q][s]
    BY <1>1, <1>3, <1>4, <1>8 DEF k
  <2> QED BY <1>3, <1>4, <1>10, <2>1 DEF Grows, k
<1>12. RingOK'
  <2>1. \A q \in Panes', s \in Row : grid'[q][s] <= burst'
    BY <1>3 DEF RingOK
  <2>2. \A i \in 1 .. (k + 1) : ring'[i].pane \in Panes'
    BY <1>1, <1>3, <1>4, <1>5 DEF RingOK, k
  <2>3. ASSUME NEW i \in 1 .. (k + 1), NEW q \in Panes, NEW s \in Row, Touches(ring'[i], q, s)
        PROVE  Fresh(i + 1, q, s, ring[i].val)' 
    <3>1. CASE i = k + 1
      BY <1>3, <1>5, <2>3, <3>1 DEF Fresh
    <3>2. CASE i \in 1 .. k
      <4>1. Touches(ring[i], q, s) /\ ring[i].val \in 0 .. MaxBurst /\ ring'[i] = ring[i]
        BY <1>4, <1>6, <2>3, <3>2, RingEntries DEF k
      <4>2. Fresh(i + 1, q, s, ring[i].val) /\ i + 1 \in 1 .. (k + 1)
        BY <1>1, <3>2, <4>1 DEF RingOK, k
      <4> QED BY <1>10, <4>1, <4>2 DEF Fresh, Coming
    <3> QED BY <1>1, <3>1, <3>2
  <2>4. ASSUME NEW q \in Panes, NEW s \in Row
        PROVE  \/ grid[q][s] = 0 \/ unsent'[q] = s
               \/ \E i \in 1 .. (k + 1) : Touches(ring'[i], q, s) /\ ring'[i].val = grid[q][s]
    <3>1. CASE \E i \in 1 .. k : Touches(ring[i], q, s) /\ ring[i].val = grid[q][s]
      BY <1>1, <1>4, <1>6, <3>1
    <3>2. CASE unsent[q] = s
      BY <1>1, <1>5, <1>7, <3>2
    <3> QED BY <3>1, <3>2 DEF RingOK, k
  <2> QED BY <1>3, <1>4, <2>1, <2>2, <2>3, <2>4 DEF RingOK
<1> QED BY <1>11, <1>12

LEMMA CreatePaneRing ==
  ASSUME DeliveryAssumption, ServerTyped, RingOK, NEW w \in Window, CreatePane(w),
         w \in Windows \/ w = Cardinality(Windows) + 1
  PROVE  RingOK' /\ Grows
<1> DEFINE new == Len(inWindow) + 1
<1>1. /\ Panes' = Panes \cup {new} /\ new \notin Panes
      /\ \A p \in Panes : grid'[p] = grid[p] /\ unsent'[p] = unsent[p]
      /\ grid'[new] = Blank
      /\ ring' = ring /\ burst' = burst
  BY CreatePaneEffect
<1>2. burst \in Nat /\ \A p \in Panes, r \in Row : grid[p][r] \in Nat
  BY DEF ServerTyped, Grid, DeliveryAssumption
<1>3. \A r \in Row : grid'[new][r] = 0
  BY <1>1 DEF Blank
<1> HIDE DEF new
<1>4. \A r : \A i \in 1 .. Len(ring) : ~ Touches(ring'[i], new, r)
  BY <1>1, RingEntries DEF Touches
<1>5. \A p \in Panes' : p \in Panes \/ p = new
  BY <1>1
<1>6. \A n, v : \A p \in Panes, r \in Row : Fresh(n, p, r, v) => Fresh(n, p, r, v)'
  BY <1>1 DEF Fresh, Coming
<1>7. Grows
  BY <1>1, <1>2, <1>6, RingEntries DEF Grows, Fresh, Coming
<1>8. RingOK'
  <2>1. \A p \in Panes', r \in Row : grid'[p][r] <= burst'
    BY <1>1, <1>2, <1>3, <1>5 DEF RingOK
  <2>2. ASSUME NEW i \in 1 .. Len(ring), NEW p \in Panes', NEW r \in Row,
               Touches(ring[i], p, r)
        PROVE  Fresh(i + 1, p, r, ring[i].val)'
    <3>1. p \in Panes
      BY <2>2, RingEntries DEF Touches
    <3>2. Fresh(i + 1, p, r, ring[i].val)
      BY <2>2, <3>1 DEF RingOK
    <3> QED BY <1>1, <3>1, <3>2 DEF Fresh, Coming
  <2>3. \A p \in Panes', r \in Row :
          \/ grid'[p][r] = 0 \/ unsent'[p] = r
          \/ \E i \in 1 .. Len(ring') : Touches(ring'[i], p, r) /\ ring'[i].val = grid'[p][r]
    BY <1>1, <1>3, <1>5 DEF RingOK
  <2> QED BY <1>1, <2>1, <2>2, <2>3 DEF RingOK, Fresh, Coming
<1> QED BY <1>7, <1>8

\* Steps that leave the grids, the readers and the ring alone.
LEMMA SameRing ==
  ASSUME ServerTyped, RingOK, UNCHANGED <<inWindow, grid, unsent, burst, ring>>
  PROVE  RingOK' /\ Grows
<1>1. \A p \in Panes, r \in Row : grid[p][r] \in Nat
  BY DEF ServerTyped, Grid
<1>2. Panes' = Panes
  BY DEF Panes
<1>3. RingOK'
  BY <1>2 DEF RingOK, Fresh, Coming
<1>4. Grows
  BY <1>1, <1>2, RingEntries DEF Grows, Fresh, Coming
<1> QED BY <1>3, <1>4

LEMMA RingStep ==
  ASSUME DeliveryAssumption, ServerTyped, RingOK, [Next]_vars
  PROVE  RingOK' /\ Grows
<1>1. CASE UNCHANGED server
  BY <1>1, SameRing DEF server, window
<1>2. ASSUME NEW p \in Panes, Reader(p)
      PROVE  RingOK' /\ Grows
  BY <1>2, StoreGridRing, BroadcastDiffRing DEF Reader
<1>3. ASSUME NEW c \in Client, Split(c) \/ AddWindow(c)
      PROVE  RingOK' /\ Grows
  <2>1. focusedWindow \in Windows
    BY DEF ServerTyped
  <2> QED BY <1>3, <2>1, WindowsInWindow, CreatePaneRing DEF Split, AddWindow
<1>4. ASSUME NEW c \in Client, NEW w \in Window, FocusWindow(c, w)
      PROVE  RingOK' /\ Grows
  BY <1>4, SameRing DEF FocusWindow
<1>5. ASSUME NEW c \in Client, NEW p \in Pane, FocusPane(c, p)
      PROVE  RingOK' /\ Grows
  BY <1>5, SameRing DEF FocusPane
<1>6. ASSUME NEW c \in Client, Forwarder(c) \/ Handler(c)
      PROVE  UNCHANGED server
  BY <1>6, Zenon DEF Forwarder, Receive, Lag, Resync, ForwardNext,
     Handler, AttachRefresh, AttachLayout, SplitReply, AddWindowReply, SendReply
<1>7. ASSUME NEW c \in Client, Attach(c) \/ SetBroadcast(c) \/ Disconnect(c) \/ Apply(c)
      PROVE  UNCHANGED server
  BY <1>7 DEF Attach, SetBroadcast, Disconnect, Apply
<1>8. ASSUME NEW c \in Client, ClientStep(c)
      PROVE  RingOK' /\ Grows
  BY <1>1, <1>3, <1>4, <1>5, <1>7, <1>8 DEF ClientStep
<1> QED BY <1>1, <1>2, <1>6, <1>8 DEF Next, vars

-----------------------------------------------------------------------------
(***************************************************************************)
(* The clients.                                                            *)
(***************************************************************************)

\* The messages a client is sent.
LEMMA QueueEntries ==
  ASSUME QueuesTyped, NEW c \in Client
  PROVE  /\ next[c] \in Nat /\ lagged[c] \in BOOLEAN
         /\ hand[c] \in Seq(Diffs \cup Refreshes) /\ Len(hand[c]) \in Nat
         /\ outbox[c] \in Seq(Message) /\ Len(outbox[c]) \in Nat
         /\ reply[c] \in Seq(Message) /\ Len(reply[c]) \in Nat
         /\ \A i \in 1 .. Len(hand[c]) : hand[c][i] \in Diffs \cup Refreshes
         /\ \A i \in 1 .. Len(outbox[c]) : outbox[c][i] \in Message
         /\ \A i \in 1 .. Len(reply[c]) : reply[c][i] \in Message
         /\ screen[c] \in Screens /\ behind[c] \in SUBSET Pane
BY DEF QueuesTyped

\* A message says a version of the rows it touches.
LEMMA SaysVersion ==
  ASSUME NEW m \in Message, NEW p, NEW r \in Row, Touches(m, p, r)
  PROVE  /\ Says(m, r) \in 0 .. MaxBurst /\ m.pane = p
         /\ m \in Diffs \cup Refreshes /\ m.kind \in {"diff", "refresh"}
<1>1. CASE m.kind = "refresh"
  BY <1>1, MessageTypes DEF Touches, Says, Refreshes, Grid
<1>2. CASE m.kind = "diff"
  BY <1>2, MessageTypes DEF Touches, Says, Diffs
<1> QED BY <1>1, <1>2 DEF Touches

\* What is fresh for a client stays fresh while its forwarder does not move.
LEMMA FreshKept ==
  ASSUME Grows, NEW n \in Nat, n >= 1, n <= Len(ring) + 1, Len(ring) \in Nat,
         NEW p \in Panes, NEW r \in Row, NEW v \in 0 .. MaxBurst, Fresh(n, p, r, v)
  PROVE  Fresh(n, p, r, v)'
<1>1. n \in 1 .. (Len(ring) + 1)
  OBVIOUS
<1> QED BY <1>1 DEF Grows, Fresh, Coming

LEMMA HandKept ==
  ASSUME ServerTyped, ServerTyped', QueuesTyped, RingOK, Grows, NEW c \in Client,
         HandOK(c), DetachedOK(c),
         next'[c] = next[c], lagged'[c] = lagged[c], hand'[c] = hand[c]
  PROVE  HandOK(c)'
<1>1. /\ next[c] \in Nat /\ next[c] <= Len(ring) + 1 /\ next[c] <= Len(ring') + 1
      /\ Len(ring) \in Nat
  BY RingEntries, QueueEntries DEF HandOK, Grows, ServerTyped
<1>2. next[c] >= 2 => ring'[next[c] - 1] = ring[next[c] - 1]
  BY <1>1 DEF Grows
<1>3. ASSUME NEW i \in 1 .. Len(hand[c]), NEW r \in Row,
             Touches(hand[c][i], hand[c][i].pane, r)
      PROVE  Fresh(next[c], hand[c][i].pane, r, Says(hand[c][i], r))'
  <2> DEFINE m == hand[c][i]
  <2>1. next[c] \in Nat /\ next[c] >= 1
    BY QueueEntries DEF DetachedOK
  <2>2. m \in Message /\ m.pane \in Panes /\ Fresh(next[c], m.pane, r, Says(m, r))
    BY <1>3, QueueEntries DEF HandOK, Message
  <2>3. Says(m, r) \in 0 .. MaxBurst
    BY <1>3, <2>2, SaysVersion
  <2> DEFINE q == m.pane
             v == Says(m, r)
  <2> HIDE DEF q, v
  <2>4. Fresh(next[c], q, r, v)'
    BY <1>1, <2>1, <2>2, <2>3, FreshKept DEF q, v
  <2> QED BY <2>4 DEF q, v, Fresh, Coming
<1>4. \A i \in 1 .. Len(hand[c]) : hand[c][i].pane \in Panes'
  BY DEF HandOK, Grows
<1> QED BY <1>1, <1>2, <1>3, <1>4 DEF HandOK, Fresh, Coming

LEMMA ReplyKept ==
  ASSUME ServerTyped, ServerTyped', QueuesTyped, Grows, NEW c \in Client, ReplyOK(c),
         step'[c] = step[c], reply'[c] = reply[c]
  PROVE  ReplyOK(c)'
<1>1. ASSUME NEW i \in 1 .. Len(reply[c]), reply[c][i].kind = "refresh"
      PROVE  /\ reply[c][i].pane \in Panes'
             /\ \A r \in Row : reply[c][i].grid[r] <= grid'[reply[c][i].pane][r]
  <2> DEFINE m == reply[c][i]
  <2>1. m \in Refreshes
    BY <1>1, QueueEntries, MessageTypes
  <2>2. m.pane \in Panes /\ \A r \in Row : m.grid[r] <= grid[m.pane][r]
    BY <1>1 DEF ReplyOK
  <2>3. \A r \in Row : m.grid[r] \in Nat
    BY <2>1 DEF Refreshes, Grid
  <2>4. m.pane \in Panes' /\ \A r \in Row : grid[m.pane][r] <= grid'[m.pane][r]
    BY <2>2 DEF Grows
  <2>5. \A r \in Row : grid[m.pane][r] \in Nat /\ grid'[m.pane][r] \in Nat
    BY <2>2, <2>4 DEF ServerTyped, Grid
  <2> QED BY <2>2, <2>3, <2>4, <2>5
<1> QED BY <1>1 DEF ReplyOK, Grows

\* A client whose queues and screen do not change, and who may miss no less.
LEMMA OutKept ==
  ASSUME ServerTyped, ServerTyped', QueuesTyped, RingOK, Grows, NEW c \in Client,
         HandOK(c), OutOK(c), DetachedOK(c),
         next'[c] = next[c], hand'[c] = hand[c], outbox'[c] = outbox[c],
         screen'[c] = screen[c], behind[c] \subseteq behind'[c]
  PROVE  OutOK(c)'
<1>1. next[c] \in Nat /\ next[c] <= Len(ring) + 1 /\ Len(ring) \in Nat
  BY RingEntries, QueueEntries DEF HandOK
<1>2. Known(c)'
  BY DEF OutOK, Known, Grows
<1>3. ASSUME NEW p \in Panes', NEW r \in Row, p \notin behind'[c]
      PROVE  RowOK(c, p, r)'
  <2>1. \A i : Later(c, i, p, r)' <=> Later(c, i, p, r)
    BY DEF Later, InHand
  <2>2. ASSUME NEW i \in 1 .. Len(outbox[c]), Touches(outbox[c][i], p, r)
        PROVE  Fresh(next[c], p, r, Says(outbox[c][i], r))' \/ Later(c, i, p, r)
    <3> DEFINE m == outbox[c][i]
    <3>1. m \in Message /\ Says(m, r) \in 0 .. MaxBurst /\ m.pane = p
          /\ m.kind \in {"diff", "refresh"}
      BY <2>2, QueueEntries, SaysVersion
    <3>2. p \in Panes
      BY <3>1 DEF OutOK, Known
    <3>3. Fresh(next[c], p, r, Says(m, r)) \/ Later(c, i, p, r)
      BY <1>3, <2>2, <3>2 DEF OutOK, RowOK
    <3>4. next[c] >= 1
      BY <1>1 DEF DetachedOK
    <3> DEFINE v == Says(m, r)
    <3> HIDE DEF v
    <3>5. Fresh(next[c], p, r, v) => Fresh(next[c], p, r, v)'
      BY <1>1, <3>1, <3>2, <3>4, FreshKept DEF v
    <3> QED BY <3>3, <3>5 DEF v, Fresh, Coming
  <2>3. ASSUME p \in DOMAIN screen[c]
        PROVE  Fresh(next[c], p, r, screen[c][p][r])' \/ Later(c, 0, p, r)
    <3>1. p \in Panes /\ next[c] >= 1
      BY <1>1, <2>3 DEF OutOK, Known, DetachedOK
    <3>2. screen[c][p][r] \in 0 .. MaxBurst
      BY <2>3, QueueEntries, ScreenTypes DEF Grid
    <3>3. Fresh(next[c], p, r, screen[c][p][r]) \/ Later(c, 0, p, r)
      BY <1>3, <2>3, <3>1 DEF OutOK, RowOK
    <3> DEFINE v == screen[c][p][r]
    <3> HIDE DEF v
    <3>4. Fresh(next[c], p, r, v) => Fresh(next[c], p, r, v)'
      BY <1>1, <3>1, <3>2, FreshKept DEF v
    <3> QED BY <3>3, <3>4 DEF v, Fresh, Coming
  <2> QED BY <2>1, <2>2, <2>3 DEF RowOK, Fresh, Coming, Later, InHand
<1> QED BY <1>2, <1>3 DEF OutOK

Same(c) ==
  /\ next'[c] = next[c] /\ lagged'[c] = lagged[c] /\ hand'[c] = hand[c]
  /\ step'[c] = step[c] /\ reply'[c] = reply[c] /\ outbox'[c] = outbox[c]
  /\ screen'[c] = screen[c] /\ behind'[c] = behind[c]

\* A client is right after every step of others.
LEMMA ClientKept ==
  ASSUME ServerTyped, ServerTyped', QueuesTyped, RingOK, Grows,
         NEW c \in Client, ClientOK(c), Same(c)
  PROVE  ClientOK(c)'
<1>1. HandOK(c)'
  BY HandKept DEF ClientOK, Same
<1>2. ReplyOK(c)'
  BY ReplyKept DEF ClientOK, Same
<1>3. OutOK(c)'
  BY OutKept DEF ClientOK, Same
<1>4. DetachedOK(c)'
  BY DEF ClientOK, DetachedOK, Same
<1> QED BY <1>1, <1>2, <1>3, <1>4 DEF ClientOK

-----------------------------------------------------------------------------
(***************************************************************************)
(* The steps of a handler: what it composes is never ahead of the panes.   *)
(***************************************************************************)

\* A step that changes what a client's handler is about and nothing else of it.
LEMMA HandlerStep ==
  ASSUME ServerTyped, ServerTyped', QueuesTyped, RingOK, Grows,
         NEW c \in Client, ClientOK(c), next[c] # 0, ReplyOK(c)',
         next'[c] = next[c], lagged'[c] = lagged[c], hand'[c] = hand[c],
         outbox'[c] = outbox[c], screen'[c] = screen[c], behind'[c] = behind[c]
  PROVE  ClientOK(c)'
<1>1. HandOK(c)'
  BY HandKept DEF ClientOK
<1>2. OutOK(c)'
  BY OutKept DEF ClientOK
<1>3. DetachedOK(c)'
  BY DEF DetachedOK
<1> QED BY <1>1, <1>2, <1>3 DEF ClientOK

\* A message that is not ahead of the pane it is about.
NotAhead(m) ==
  /\ m.kind # "diff"
  /\ m.kind = "refresh" => m.pane \in Panes /\ \A r \in Row : m.grid[r] <= grid[m.pane][r]

LEMMA ComposedNotAhead ==
  ASSUME DeliveryAssumption, ServerTyped
  PROVE  /\ \A w \in Windows : NotAhead(FocusedRefresh(w))
         /\ \A ps : NotAhead(Layout(ps))
         /\ NotAhead(BroadcastMode)
         /\ \A p \in Panes : NotAhead(Refresh(p, Blank))
<1>1. \A p \in Panes, r \in Row : grid[p][r] \in Nat
  BY DEF ServerTyped, Grid
<1>2. \A w \in Windows : NotAhead(FocusedRefresh(w))
  BY <1>1, PanesInPane DEF NotAhead, FocusedRefresh, Refresh
<1>3. \A p \in Panes : NotAhead(Refresh(p, Blank))
  BY <1>1 DEF NotAhead, Refresh, Blank
<1> QED BY <1>2, <1>3 DEF NotAhead, Layout, BroadcastMode

\* What a handler composes while the grids stay as they are.
LEMMA ReplyComposed ==
  ASSUME DeliveryAssumption, ServerTyped, ServerTyped', QueuesTyped, RingOK, Grows,
         NEW c \in Client, ClientOK(c), next[c] # 0,
         next' = next, lagged' = lagged, hand' = hand, outbox' = outbox,
         screen' = screen, behind' = behind, inWindow' = inWindow, grid' = grid,
         \A i \in 1 .. Len(reply'[c]) : NotAhead(reply'[c][i]),
         step'[c].at # "split"
  PROVE  ClientOK(c)'
<1>1. ReplyOK(c)'
  BY DEF ReplyOK, NotAhead, Panes
<1> QED BY <1>1, HandlerStep

LEMMA ComposeStep ==
  ASSUME DeliveryAssumption, ServerTyped, ServerTyped', QueuesTyped, RingOK, Grows,
         NEW c \in Client, ClientOK(c),
         \/ AttachRefresh(c) \/ AttachLayout(c) \/ SplitReply(c) \/ AddWindowReply(c)
         \/ SetBroadcast(c)
         \/ \E w \in Window : FocusWindow(c, w)
         \/ \E p \in Pane : FocusPane(c, p)
  PROVE  ClientOK(c)'
<1> USE ComposedNotAhead
<1>1. step[c].at \in {"refresh", "layout", "split", "window"} => next[c] # 0
  BY DEF ClientOK, DetachedOK, Idle
<1>2. reply \in [Client -> Seq(Message)] /\ step \in [Client -> Steps]
      /\ focusedWindow \in Windows
  BY DEF QueuesTyped, ServerTyped
<1>3. Idle.at = "idle"
  BY DEF Idle
<1>4. CASE AttachRefresh(c)
  <2>1. reply'[c] = <<FocusedRefresh(focusedWindow)>> /\ step'[c] = [at |-> "layout"]
    BY <1>2, <1>4 DEF AttachRefresh
  <2> QED BY <1>1, <1>2, <1>4, <2>1, ReplyComposed
          DEF AttachRefresh, server, window, forwarder, client
<1>5. CASE AttachLayout(c)
  <2>1. reply'[c] = <<Layout(PanesOf(focusedWindow))>> /\ step'[c] = Idle
    BY <1>2, <1>5 DEF AttachLayout
  <2> QED BY <1>1, <1>3, <1>5, <2>1, ReplyComposed
          DEF AttachLayout, server, window, forwarder, client
<1>6. CASE SplitReply(c)
  <2>1. /\ reply'[c] = <<Refresh(step[c].pane, Blank), Layout(PanesOf(focusedWindow))>>
        /\ step'[c] = Idle /\ step[c].pane \in Panes
    BY <1>2, <1>6 DEF SplitReply, ClientOK, ReplyOK
  <2>2. \A i \in 1 .. Len(reply'[c]) : NotAhead(reply'[c][i])
    BY <2>1
  <2> QED BY <1>1, <1>3, <1>6, <2>1, <2>2, ReplyComposed
          DEF SplitReply, server, window, forwarder, client
<1>7. CASE AddWindowReply(c)
  <2>1. /\ reply'[c] = <<FocusedRefresh(focusedWindow), Layout(PanesOf(focusedWindow))>>
        /\ step'[c] = Idle
    BY <1>2, <1>7 DEF AddWindowReply
  <2>2. \A i \in 1 .. Len(reply'[c]) : NotAhead(reply'[c][i])
    BY <1>2, <2>1
  <2> QED BY <1>1, <1>3, <1>7, <2>1, <2>2, ReplyComposed
          DEF AddWindowReply, server, window, forwarder, client
<1>8. CASE SetBroadcast(c)
  <2>1. reply'[c] = <<BroadcastMode>> /\ step'[c] = Idle /\ next[c] # 0
    BY <1>2, <1>8 DEF SetBroadcast, Request, Ready, Attached
  <2> QED BY <1>3, <1>8, <2>1, ReplyComposed
          DEF SetBroadcast, server, window, forwarder, client
<1>9. ASSUME NEW w \in Window, FocusWindow(c, w)
      PROVE  ClientOK(c)'
  <2>1. reply'[c] = <<Layout(PanesOf(w)), FocusedRefresh(w)>> /\ step'[c] = Idle
        /\ next[c] # 0 /\ w \in Windows
    BY <1>2, <1>9 DEF FocusWindow, Request, Ready, Attached
  <2>2. \A i \in 1 .. Len(reply'[c]) : NotAhead(reply'[c][i])
    BY <2>1
  <2>3. /\ next' = next /\ lagged' = lagged /\ hand' = hand /\ outbox' = outbox
        /\ screen' = screen /\ behind' = behind /\ inWindow' = inWindow /\ grid' = grid
    BY <1>9 DEF FocusWindow, forwarder, client
  <2> QED BY <1>3, <2>1, <2>2, <2>3, ReplyComposed
<1>10. ASSUME NEW p \in Pane, FocusPane(c, p)
       PROVE  ClientOK(c)'
  <2>1. reply'[c] = <<Layout(PanesOf(focusedWindow))>> /\ step'[c] = Idle /\ next[c] # 0
    BY <1>2, <1>10 DEF FocusPane, Request, Ready, Attached
  <2>2. \A i \in 1 .. Len(reply'[c]) : NotAhead(reply'[c][i])
    BY <2>1
  <2>3. /\ next' = next /\ lagged' = lagged /\ hand' = hand /\ outbox' = outbox
        /\ screen' = screen /\ behind' = behind /\ inWindow' = inWindow /\ grid' = grid
    BY <1>10 DEF FocusPane, forwarder, client
  <2> QED BY <1>3, <2>1, <2>2, <2>3, ReplyComposed
<1> QED BY <1>4, <1>5, <1>6, <1>7, <1>8, <1>9, <1>10

\* A new pane: the handler that has made one answers later.
LEMMA CreateStep ==
  ASSUME DeliveryAssumption, ServerTyped, ServerTyped', QueuesTyped, RingOK, Grows,
         NEW c \in Client, ClientOK(c), Split(c) \/ AddWindow(c)
  PROVE  ClientOK(c)'
<1>1. /\ next' = next /\ lagged' = lagged /\ hand' = hand /\ outbox' = outbox
      /\ screen' = screen /\ behind' = behind /\ reply' = reply
      /\ reply[c] = <<>> /\ next[c] # 0
  BY DEF Split, AddWindow, Request, Ready, Attached, forwarder, client
<1>2. CASE Split(c)
  <2>1. Len(inWindow) + 1 \in Panes'
    <3>1. focusedWindow \in Windows
      BY DEF ServerTyped
    <3> QED BY <1>2, <3>1, WindowsInWindow, CreatePaneEffect DEF Split
  <2>2. step'[c] = [at |-> "split", pane |-> Len(inWindow) + 1]
    BY <1>2 DEF Split, QueuesTyped
  <2>3. ReplyOK(c)'
    BY <1>1, <2>1, <2>2 DEF ReplyOK
  <2> QED BY <1>1, <2>3, HandlerStep
<1>3. CASE AddWindow(c)
  <2>1. step'[c] = [at |-> "window"]
    BY <1>3 DEF AddWindow, QueuesTyped
  <2>2. ReplyOK(c)'
    BY <1>1, <2>1 DEF ReplyOK
  <2> QED BY <1>1, <2>2, HandlerStep
<1> QED BY <1>2, <1>3

-----------------------------------------------------------------------------
(***************************************************************************)
(* The steps of a forwarder.                                               *)
(***************************************************************************)

\* A row is right as long as what was coming is coming still or at hand.
LEMMA RowMoves ==
  ASSUME NEW c \in Client, NEW p, NEW r, RowOK(c, p, r),
         grid' = grid, outbox'[c] = outbox[c], screen'[c] = screen[c],
         InHand(c, p, r) => InHand(c, p, r)',
         Coming(next[c], p, r) => Coming(next[c], p, r)' \/ InHand(c, p, r)'
  PROVE  RowOK(c, p, r)'
BY DEF RowOK, Fresh, Later

\* Receiving a diff takes it from what is coming to what is at hand.
LEMMA ReceiveStep ==
  ASSUME ServerTyped, ServerTyped', QueuesTyped, RingOK, Grows,
         NEW c \in Client, ClientOK(c), Receive(c)
  PROVE  ClientOK(c)'
<1> DEFINE n == next[c]
           d == ring[n]
<1>1. n \in 1 .. Len(ring) /\ hand[c] = <<>> /\ ~ lagged[c] /\ Len(ring) \in Nat
  BY RingEntries, QueueEntries DEF Receive, Receiving
<1>2. /\ ring' = ring /\ grid' = grid /\ unsent' = unsent /\ Panes' = Panes
      /\ hand'[c] = <<d>> /\ next'[c] = n + 1 /\ lagged' = lagged
      /\ step' = step /\ reply' = reply /\ outbox' = outbox /\ screen' = screen
      /\ behind' = behind
  BY DEF Receive, server, window, handler, client, Panes, QueuesTyped
<1>3. d.kind = "diff" /\ d.pane \in Panes /\ d.row \in Row /\ d.val \in 0 .. MaxBurst
  BY <1>1, RingEntries
<1> HIDE DEF n, d
<1>4. Touches(d, d.pane, d.row) /\ \A r \in Row : Touches(d, d.pane, r) => r = d.row
      /\ Says(d, d.row) = d.val
  BY <1>3 DEF Touches, Says
<1>5. HandOK(c)'
  <2>1. Fresh(n + 1, d.pane, d.row, d.val)
    BY <1>1, <1>3, <1>4 DEF RingOK, n, d
  <2>2. \A r \in Row : Touches(d, d.pane, r) => Fresh(n + 1, d.pane, r, Says(d, r))
    BY <1>4, <2>1
  <2>3. n + 1 <= Len(ring) + 1 /\ n + 1 >= 2 /\ (n + 1) - 1 = n
    BY <1>1
  <2> QED BY <1>1, <1>2, <1>3, <2>2, <2>3 DEF HandOK, Fresh, Coming, d
<1>6. OutOK(c)'
  <2>1. Known(c)'
    BY <1>2 DEF ClientOK, OutOK, Known
  <2>2. ASSUME NEW p \in Panes, NEW r \in Row, p \notin behind[c]
        PROVE  RowOK(c, p, r)'
    <3>1. RowOK(c, p, r)
      BY <2>2 DEF ClientOK, OutOK
    <3>2. ~ InHand(c, p, r)
      BY <1>1 DEF InHand
    <3>3. Touches(d, p, r) => InHand(c, p, r)'
      BY <1>2 DEF InHand
    <3>4. Coming(next[c], p, r) => Coming(next[c], p, r)' \/ Touches(d, p, r)
      BY <1>1, <1>2 DEF Coming, d, n
    <3> QED BY <1>2, <3>1, <3>2, <3>3, <3>4, RowMoves
  <2> QED BY <1>2, <2>1, <2>2 DEF OutOK
<1>7. ReplyOK(c)'
  BY <1>2, ReplyKept DEF ClientOK
<1>8. DetachedOK(c)'
  BY <1>1, <1>2 DEF DetachedOK
<1> QED BY <1>5, <1>6, <1>7, <1>8 DEF ClientOK

\* A lag loses diffs of the panes that the client may miss from then on.
LEMMA LagStep ==
  ASSUME DeliveryAssumption, ServerTyped, ServerTyped', QueuesTyped, RingOK, Grows,
         NEW c \in Client, ClientOK(c), Lag(c)
  PROVE  ClientOK(c)'
<1> DEFINE n == next[c]
<1>1. n \in Nat /\ n >= 1 /\ hand[c] = <<>> /\ Len(ring) \in Nat
      /\ Oldest \in Nat /\ n < Oldest /\ Oldest <= Len(ring) + 1
  BY RingEntries, QueueEntries DEF Lag, Receiving, Oldest, DeliveryAssumption
<1>2. /\ ring' = ring /\ grid' = grid /\ unsent' = unsent /\ Panes' = Panes
      /\ hand' = hand /\ next'[c] = Oldest
      /\ step' = step /\ reply' = reply /\ outbox' = outbox /\ screen' = screen
      /\ behind'[c] = behind[c] \cup PanesFrom(n, Oldest - 1)
  BY DEF Lag, server, window, handler, client, Panes, QueuesTyped
<1> HIDE DEF n
<1>3. HandOK(c)'
  BY <1>1, <1>2 DEF HandOK
<1>4. OutOK(c)'
  <2>1. Known(c)'
    BY <1>2 DEF ClientOK, OutOK, Known
  <2>2. ASSUME NEW p \in Panes, NEW r \in Row, p \notin behind'[c]
        PROVE  RowOK(c, p, r)'
    <3>1. RowOK(c, p, r)
      BY <1>2, <2>2 DEF ClientOK, OutOK
    <3>2. ASSUME NEW i \in n .. Len(ring), Touches(ring[i], p, r)
          PROVE  i \in Oldest .. Len(ring)
      <4>1. ring[i].pane = p
        BY <3>2 DEF Touches
      <4>2. i \notin n .. (Oldest - 1)
        BY <1>2, <2>2, <4>1 DEF PanesFrom
      <4> QED BY <1>1, <4>2
    <3>3. Coming(next[c], p, r) => Coming(next[c], p, r)'
      BY <1>2, <3>2 DEF Coming, n
    <3>4. InHand(c, p, r) => InHand(c, p, r)'
      BY <1>2 DEF InHand
    <3> QED BY <1>2, <3>1, <3>3, <3>4, RowMoves
  <2> QED BY <1>2, <2>1, <2>2 DEF OutOK
<1>5. ReplyOK(c)'
  BY <1>2, ReplyKept DEF ClientOK
<1>6. DetachedOK(c)'
  BY <1>1, <1>2 DEF DetachedOK
<1> QED BY <1>3, <1>4, <1>5, <1>6 DEF ClientOK

\* A resync puts refreshes at hand that are the panes' own grids.
LEMMA ResyncStep ==
  ASSUME DeliveryAssumption, ServerTyped, ServerTyped', QueuesTyped, RingOK, Grows,
         NEW c \in Client, ClientOK(c), Resync(c)
  PROVE  ClientOK(c)'
<1> DEFINE ms == all_full_refreshes(focusedWindow)
           ps == PanesOf(focusedWindow)
<1>1. /\ Len(ms) \in Nat
      /\ \A i \in 1 .. Len(ms) :
           ms[i].kind = "refresh" /\ ms[i].pane \in ps /\ ms[i].grid = grid[ms[i].pane]
      /\ \A p \in ps : \E i \in 1 .. Len(ms) : ms[i].pane = p
  BY RefreshesOfAll
<1>2. lagged[c] /\ hand[c] = <<>> /\ ps \subseteq Panes
  BY DEF Resync, ClientOK, HandOK, PanesOf
<1>3. next[c] # 0 => next'[c] # 0
  BY DEF Resync
<1>4. /\ ring' = ring /\ grid' = grid /\ unsent' = unsent /\ Panes' = Panes
      /\ hand'[c] = ms /\ next' = next /\ lagged'[c] = FALSE
      /\ step' = step /\ reply' = reply /\ outbox' = outbox /\ screen' = screen
      /\ behind'[c] = behind[c] \ ps
  BY DEF Resync, server, window, handler, client, Panes, QueuesTyped
<1>5. next[c] # 0
  BY <1>2 DEF ClientOK, DetachedOK
<1> HIDE DEF ms, ps
<1>6. \A i \in 1 .. Len(ms), r \in Row : Says(ms[i], r) = grid[ms[i].pane][r]
  BY <1>1 DEF Says
<1>7. HandOK(c)'
  BY <1>1, <1>2, <1>4, <1>6 DEF ClientOK, HandOK, Fresh
<1>8. OutOK(c)'
  <2>1. Known(c)'
    BY <1>4 DEF ClientOK, OutOK, Known
  <2>2. ASSUME NEW p \in Panes, NEW r \in Row, p \in ps
        PROVE  InHand(c, p, r)'
    BY <1>1, <1>4, <2>2 DEF InHand, Touches
  <2>3. ASSUME NEW p \in Panes, NEW r \in Row, p \notin behind'[c]
        PROVE  RowOK(c, p, r)'
    <3>1. CASE p \in ps
      BY <2>2, <3>1 DEF RowOK, Later
    <3>2. CASE p \notin ps
      <4>1. RowOK(c, p, r) /\ ~ InHand(c, p, r)
        BY <1>2, <1>4, <2>3, <3>2 DEF ClientOK, OutOK, InHand
      <4>2. Coming(next[c], p, r) => Coming(next[c], p, r)'
        BY <1>4 DEF Coming
      <4> QED BY <1>4, <4>1, <4>2, RowMoves
    <3> QED BY <3>1, <3>2
  <2> QED BY <1>4, <2>1, <2>3 DEF OutOK
<1>9. ReplyOK(c)'
  BY <1>4, ReplyKept DEF ClientOK
<1>10. DetachedOK(c)'
  BY <1>4, <1>5 DEF DetachedOK
<1> QED BY <1>7, <1>8, <1>9, <1>10 DEF ClientOK

-----------------------------------------------------------------------------
(***************************************************************************)
(* The outbox: a message enters it behind those it supersedes.             *)
(***************************************************************************)

LEMMA RowAppend ==
  ASSUME QueuesTyped, NEW c \in Client, NEW p, NEW r, NEW m \in Message,
         grid' = grid, screen'[c] = screen[c], outbox'[c] = Append(outbox[c], m),
         RowOK(c, p, r) \/ Touches(m, p, r),
         Coming(next[c], p, r) => Coming(next[c], p, r)',
         InHand(c, p, r) => InHand(c, p, r)' \/ Touches(m, p, r),
         Touches(m, p, r) => Fresh(next[c], p, r, Says(m, r)) \/ InHand(c, p, r)'
  PROVE  RowOK(c, p, r)'
<1> DEFINE L == Len(outbox[c])
<1>1. /\ L \in Nat /\ Len(outbox'[c]) = L + 1
      /\ \A i \in 1 .. L : outbox'[c][i] = outbox[c][i]
      /\ outbox'[c][L + 1] = m
  BY QueueEntries
<1> HIDE DEF L
<1>2. ASSUME NEW i \in 0 .. L, Later(c, i, p, r) \/ Touches(m, p, r)
      PROVE  Later(c, i, p, r)'
  <2>1. CASE Touches(m, p, r)
    <3>1. L + 1 \in (i + 1) .. (L + 1)
      BY <1>1
    <3> QED BY <1>1, <2>1, <3>1 DEF Later
  <2>2. CASE InHand(c, p, r) /\ ~ Touches(m, p, r)
    BY <2>2 DEF Later
  <2>3. CASE \E j \in (i + 1) .. L : Touches(outbox[c][j], p, r)
    <3>1. PICK j \in (i + 1) .. L : Touches(outbox[c][j], p, r)
      BY <2>3
    <3>2. j \in (i + 1) .. (L + 1) /\ j \in 1 .. L
      BY <1>1
    <3> QED BY <1>1, <3>1, <3>2 DEF Later
  <2> QED BY <1>2, <2>1, <2>2, <2>3 DEF Later, L
<1>3. \A v : Fresh(next[c], p, r, v) => v = grid'[p][r] \/ Coming(next[c], p, r)'
  BY DEF Fresh
<1>4. ASSUME NEW i \in 1 .. (L + 1), Touches(outbox'[c][i], p, r)
      PROVE  (Fresh(next[c], p, r, Says(outbox[c][i], r)) \/ Later(c, i, p, r))'
  <2>1. CASE i = L + 1
    BY <1>1, <1>3, <1>4, <2>1 DEF Fresh, Later
  <2>2. CASE i \in 1 .. L
    <3>1. CASE Touches(m, p, r)
      BY <1>1, <1>2, <2>2, <3>1
    <3>2. CASE ~ Touches(m, p, r)
      BY <1>1, <1>2, <1>3, <1>4, <2>2, <3>2 DEF RowOK, L, Fresh
    <3> QED BY <3>1, <3>2
  <2> QED BY <1>1, <2>1, <2>2
<1>5. ASSUME p \in DOMAIN screen[c]
      PROVE  (Fresh(next[c], p, r, screen[c][p][r]) \/ Later(c, 0, p, r))'
  <2>1. CASE Touches(m, p, r)
    BY <1>1, <1>2, <2>1
  <2>2. CASE ~ Touches(m, p, r)
    BY <1>1, <1>2, <1>3, <1>5, <2>2 DEF RowOK, Fresh
  <2> QED BY <2>1, <2>2
<1> QED BY <1>1, <1>4, <1>5 DEF RowOK

LEMMA KnownAppend ==
  ASSUME QueuesTyped, NEW c \in Client, Known(c), NEW m \in Message, Panes' = Panes,
         screen'[c] = screen[c], outbox'[c] = Append(outbox[c], m),
         m.kind \in {"diff", "refresh"} => m.pane \in Panes
  PROVE  Known(c)'
<1>1. /\ Len(outbox[c]) \in Nat /\ Len(outbox'[c]) = Len(outbox[c]) + 1
      /\ \A i \in 1 .. Len(outbox[c]) : outbox'[c][i] = outbox[c][i]
      /\ outbox'[c][Len(outbox[c]) + 1] = m
  BY QueueEntries
<1>2. ASSUME NEW i \in 1 .. Len(outbox'[c]), outbox'[c][i].kind \in {"diff", "refresh"}
      PROVE  outbox'[c][i].pane \in Panes
  <2>1. CASE i = Len(outbox[c]) + 1
    BY <1>1, <1>2, <2>1
  <2>2. CASE i \in 1 .. Len(outbox[c])
    BY <1>1, <1>2, <2>2 DEF Known
  <2> QED BY <1>1, <2>1, <2>2
<1> QED BY <1>2 DEF Known

\* What a forwarder holds is in the outbox, or still at hand.
LEMMA ForwardNextStep ==
  ASSUME ServerTyped, ServerTyped', QueuesTyped, RingOK, Grows,
         NEW c \in Client, ClientOK(c), ForwardNext(c)
  PROVE  ClientOK(c)'
<1> DEFINE h == hand[c]
           m == Head(h)
<1>1. /\ h # <<>> /\ Len(h) \in Nat /\ Len(h) >= 1 /\ m = h[1]
      /\ m \in Diffs \cup Refreshes
      /\ Len(Tail(h)) = Len(h) - 1 /\ \A i \in 1 .. (Len(h) - 1) : Tail(h)[i] = h[i + 1]
  BY QueueEntries, HeadAndTail DEF ForwardNext
<1>2. /\ ring' = ring /\ grid' = grid /\ unsent' = unsent /\ Panes' = Panes
      /\ hand'[c] = Tail(h) /\ next' = next /\ lagged' = lagged
      /\ step' = step /\ reply' = reply /\ outbox'[c] = Append(outbox[c], m)
      /\ screen' = screen /\ behind' = behind
  BY DEF ForwardNext, server, window, handler, client, Panes, QueuesTyped
<1>3. next[c] # 0 /\ ~ lagged[c]
  BY <1>1 DEF ClientOK, DetachedOK, HandOK
<1>4. m \in Message /\ m.pane \in Panes
      /\ \A r \in Row : Touches(m, m.pane, r) => Fresh(next[c], m.pane, r, Says(m, r))
  <2>1. 1 \in 1 .. Len(h)
    BY <1>1
  <2> QED BY <1>1, <2>1 DEF ClientOK, HandOK, Message
<1>5. /\ Len(hand'[c]) = Len(h) - 1
      /\ \A i \in 1 .. (Len(h) - 1) : hand'[c][i] = h[i + 1] /\ i + 1 \in 1 .. Len(h)
  BY <1>1, <1>2
<1>6. HandOK(c)'
  <2>1. \A i \in 1 .. Len(hand'[c]) : hand'[c][i].kind = "refresh"
    <3>1. CASE \A i \in 1 .. Len(h) : h[i].kind = "refresh"
      BY <1>5, <3>1
    <3>2. CASE Len(h) = 1
      BY <1>5, <3>2
    <3> QED BY <3>1, <3>2 DEF ClientOK, HandOK
  <2>2. ASSUME NEW i \in 1 .. Len(hand'[c])
        PROVE  /\ hand'[c][i].pane \in Panes
               /\ \A r \in Row : Touches(hand'[c][i], hand'[c][i].pane, r) =>
                    Fresh(next[c], hand'[c][i].pane, r, Says(hand'[c][i], r))
    BY <1>5 DEF ClientOK, HandOK
  <2> QED BY <1>2, <1>3, <2>1, <2>2 DEF ClientOK, HandOK, Fresh, Coming
<1>7. OutOK(c)'
  <2>1. Known(c)'
    <3> HIDE DEF m
    <3> QED BY <1>2, <1>4, KnownAppend DEF ClientOK, OutOK
  <2>2. ASSUME NEW p \in Panes, NEW r \in Row, p \notin behind[c]
        PROVE  RowOK(c, p, r)'
    <3>1. RowOK(c, p, r)
      BY <2>2 DEF ClientOK, OutOK
    <3>2. ASSUME InHand(c, p, r), ~ Touches(m, p, r)
          PROVE  InHand(c, p, r)'
      <4>1. PICK j \in 1 .. Len(h) : Touches(h[j], p, r)
        BY <3>2 DEF InHand
      <4>2. j # 1
        BY <1>1, <3>2, <4>1
      <4>3. j - 1 \in 1 .. (Len(h) - 1) /\ (j - 1) + 1 = j
        BY <1>1, <4>2
      <4>4. hand'[c][j - 1] = h[j] /\ j - 1 \in 1 .. Len(hand'[c])
        BY <1>5, <4>3
      <4> QED BY <4>1, <4>4 DEF InHand
    <3>3. Touches(m, p, r) => Fresh(next[c], p, r, Says(m, r))
      BY <1>4 DEF Touches
    <3>4. Coming(next[c], p, r) => Coming(next[c], p, r)'
      BY <1>2 DEF Coming
    <3> HIDE DEF m
    <3> QED BY <1>2, <1>4, <3>1, <3>2, <3>3, <3>4, RowAppend
  <2> QED BY <1>2, <2>1, <2>2 DEF OutOK
<1>8. ReplyOK(c)'
  BY <1>2, ReplyKept DEF ClientOK
<1>9. DetachedOK(c)'
  BY <1>2, <1>3 DEF DetachedOK
<1> QED BY <1>6, <1>7, <1>8, <1>9 DEF ClientOK

\* What the forwarder is done with is all it has received, but for the diff it
\* may hold.
LEMMA ForwardedBeforeHand ==
  ASSUME ServerTyped, QueuesTyped, RingOK, NEW c \in Client, HandOK(c),
         NEW i \in 1 .. Len(ring), i < next[c], NEW r, Touches(ring[i], ring[i].pane, r)
  PROVE  i \in Forwarded(c, ring[i].pane) \/ InHand(c, ring[i].pane, r)
<1> DEFINE S    == {j \in DOMAIN hand[c] : hand[c][j].kind = "diff"}
           held == Cardinality(S)
<1>1. /\ next[c] \in Nat /\ next[c] <= Len(ring) + 1 /\ Len(ring) \in Nat
      /\ DOMAIN hand[c] = 1 .. Len(hand[c]) /\ Len(hand[c]) \in Nat
  BY RingEntries, QueueEntries DEF HandOK
<1>2. CASE \A j \in 1 .. Len(hand[c]) : hand[c][j].kind = "refresh"
  <2>1. S = {}
    BY <1>1, <1>2
  <2>2. held = 0
    BY <2>1, FS_EmptySet
  <2>3. i \in 1 .. (next[c] - 1 - held)
    BY <1>1, <2>2
  <2> QED BY <2>3 DEF Forwarded
<1>3. CASE Len(hand[c]) = 1 /\ next[c] >= 2 /\ hand[c][1] = ring[next[c] - 1]
  <2>1. next[c] - 1 \in 1 .. Len(ring)
    BY <1>1, <1>3
  <2>2. S = {1}
    BY <1>1, <1>3, <2>1, RingEntries
  <2>3. held = 1
    BY <2>2, FS_Singleton
  <2>4. CASE i = next[c] - 1
    BY <1>3, <2>4 DEF InHand
  <2>5. CASE i # next[c] - 1
    <3>1. i \in 1 .. (next[c] - 1 - held)
      BY <1>1, <2>3, <2>5
    <3> QED BY <3>1 DEF Forwarded
  <2> QED BY <2>4, <2>5
<1> QED BY <1>2, <1>3 DEF HandOK

\* A refresh that is not late carries what the row has, or a newer diff follows.
LEMMA NotLateIsFresh ==
  ASSUME ServerTyped, QueuesTyped, RingOK, NEW c \in Client, HandOK(c),
         NEW m \in Refreshes, NotAhead(m), ~ Late(c, m), NEW r \in Row
  PROVE  Fresh(next[c], m.pane, r, m.grid[r]) \/ InHand(c, m.pane, r)
<1> DEFINE p == m.pane
<1>1. /\ p \in Panes /\ m.grid[r] \in Nat /\ grid[p][r] \in Nat /\ m.grid[r] <= grid[p][r]
  BY MessageTypes DEF NotAhead, Refreshes, Grid, ServerTyped
<1>2. CASE m.grid[r] = grid[p][r]
  BY <1>2 DEF Fresh
<1>3. CASE m.grid[r] < grid[p][r]
  <2>1. CASE unsent[p] = r
    BY <2>1 DEF Fresh, Coming
  <2>2. CASE unsent[p] # r
    <3>1. PICK i \in 1 .. Len(ring) : Touches(ring[i], p, r) /\ ring[i].val = grid[p][r]
      BY <1>1, <1>3, <2>2 DEF RingOK
    <3>2. ring[i].pane = p /\ ring[i].row = r /\ Len(ring) \in Nat
      BY <3>1, RingEntries DEF Touches
    <3>3. CASE i >= next[c]
      <4>1. i \in next[c] .. Len(ring)
        BY <3>2, <3>3, QueueEntries
      <4> QED BY <3>1, <4>1 DEF Fresh, Coming
    <3>4. CASE i < next[c]
      <4>1. i \in Forwarded(c, p) \/ InHand(c, p, r)
        BY <3>1, <3>2, <3>4, ForwardedBeforeHand
      <4>2. i \notin Forwarded(c, p)
        BY <1>1, <1>3, <3>1, <3>2 DEF Late
      <4> QED BY <4>1, <4>2
    <3> QED BY <3>3, <3>4, QueueEntries
  <2> QED BY <2>1, <2>2
<1> QED BY <1>1, <1>2, <1>3

\* A refresh enters the outbox late, or leaves the client with nothing to miss.
LEMMA SendReplyStep ==
  ASSUME ServerTyped, ServerTyped', QueuesTyped, RingOK, Grows,
         NEW c \in Client, ClientOK(c), SendReply(c)
  PROVE  ClientOK(c)'
<1> DEFINE m == Head(reply[c])
<1>1. /\ reply[c] # <<>> /\ Len(reply[c]) \in Nat /\ Len(reply[c]) >= 1
      /\ m = reply[c][1] /\ m \in Message
      /\ Len(Tail(reply[c])) = Len(reply[c]) - 1
      /\ \A i \in 1 .. (Len(reply[c]) - 1) : Tail(reply[c])[i] = reply[c][i + 1]
  BY QueueEntries, HeadAndTail DEF SendReply
<1>2. /\ ring' = ring /\ grid' = grid /\ unsent' = unsent /\ Panes' = Panes
      /\ hand' = hand /\ next' = next /\ lagged' = lagged /\ step' = step
      /\ reply'[c] = Tail(reply[c]) /\ outbox'[c] = Append(outbox[c], m)
      /\ screen' = screen
  BY DEF SendReply, server, window, forwarder, client, Panes, QueuesTyped
<1>3. \/ m.kind # "refresh" /\ behind' = behind
      \/ m.kind = "refresh" /\ Late(c, m) /\ behind' = [behind EXCEPT ![c] = @ \cup {m.pane}]
      \/ m.kind = "refresh" /\ ~ Late(c, m) /\ behind' = [behind EXCEPT ![c] = @ \ {m.pane}]
  BY Zenon DEF SendReply
<1>4. next[c] # 0 /\ HandOK(c)
  BY <1>1 DEF ClientOK, DetachedOK
<1>5. NotAhead(m)
  <2>1. 1 \in 1 .. Len(reply[c])
    BY <1>1
  <2> QED BY <1>1, <2>1 DEF ClientOK, ReplyOK, NotAhead
<1> HIDE DEF m
<1>6. ReplyOK(c)'
  <2>1. \A i \in 1 .. (Len(reply[c]) - 1) :
          reply'[c][i] = reply[c][i + 1] /\ i + 1 \in 1 .. Len(reply[c])
    BY <1>1, <1>2
  <2>2. Len(reply'[c]) = Len(reply[c]) - 1
    BY <1>1, <1>2
  <2> QED BY <1>2, <2>1, <2>2 DEF ClientOK, ReplyOK
<1>7. OutOK(c)'
  <2>1. Known(c)'
    BY <1>1, <1>2, <1>5, KnownAppend DEF ClientOK, OutOK, NotAhead
  <2>2. ASSUME NEW p \in Panes, NEW r \in Row, p \notin behind'[c]
        PROVE  RowOK(c, p, r)'
    <3>1. /\ Coming(next[c], p, r) => Coming(next[c], p, r)'
          /\ InHand(c, p, r) => InHand(c, p, r)'
      BY <1>2 DEF Coming, InHand
    <3>2. CASE Touches(m, p, r)
      <4>1. m.kind = "refresh" /\ m.pane = p /\ m \in Refreshes
        BY <1>1, <1>5, <3>2, MessageTypes DEF Touches, NotAhead
      <4>2. ~ Late(c, m)
        BY <1>3, <2>2, <4>1 DEF QueuesTyped
      <4>3. Fresh(next[c], p, r, Says(m, r)) \/ InHand(c, p, r)
        BY <1>4, <1>5, <4>1, <4>2, NotLateIsFresh DEF Says
      <4> QED BY <1>1, <1>2, <3>1, <3>2, <4>3, RowAppend
    <3>3. CASE ~ Touches(m, p, r)
      <4>1. p \notin behind[c]
        BY <1>3, <2>2, <3>3 DEF Touches, QueuesTyped
      <4>2. RowOK(c, p, r)
        BY <4>1 DEF ClientOK, OutOK
      <4> QED BY <1>1, <1>2, <3>1, <3>3, <4>2, RowAppend
    <3> QED BY <3>2, <3>3
  <2> QED BY <1>2, <2>1, <2>2 DEF OutOK
<1>8. HandOK(c)'
  BY <1>2, HandKept DEF ClientOK
<1>9. DetachedOK(c)'
  BY <1>2, <1>4 DEF DetachedOK
<1> QED BY <1>6, <1>7, <1>8, <1>9 DEF ClientOK

-----------------------------------------------------------------------------
(***************************************************************************)
(* The client, and what comes and goes with its attachment.                *)
(***************************************************************************)

\* A message writes what it says on the screen, and nothing else.
LEMMA ApplyEffect ==
  ASSUME QueuesTyped, NEW c \in Client, Apply(c), NEW p \in DOMAIN screen'[c]
  PROVE  LET m == Head(outbox[c])
         IN  /\ p \in DOMAIN screen[c] \/ (m.kind = "refresh" /\ p = m.pane)
             /\ \A r \in Row :
                  /\ Touches(m, p, r) => screen'[c][p][r] = Says(m, r)
                  /\ ~ Touches(m, p, r) =>
                       p \in DOMAIN screen[c] /\ screen'[c][p][r] = screen[c][p][r]
<1> DEFINE s == screen[c]
           m == Head(outbox[c])
<1>1. m \in Message /\ s \in [DOMAIN s -> Grid]
  BY HeadAndTail, QueueEntries, ScreenTypes DEF Apply
<1>2. \/ m.kind = "refresh" /\ ApplyRefresh(c, m)
      \/ m.kind = "diff" /\ ApplyDiff(c, m)
      \/ m.kind \in {"layout", "mode"} /\ screen' = screen
  BY DEF Apply, ApplyLayout, client
<1> HIDE DEF m
<1> SUFFICES /\ p \in DOMAIN s \/ (m.kind = "refresh" /\ p = m.pane)
             /\ \A r \in Row :
                  /\ Touches(m, p, r) => screen'[c][p][r] = Says(m, r)
                  /\ ~ Touches(m, p, r) => p \in DOMAIN s /\ screen'[c][p][r] = s[p][r]
  BY DEF m
<1>3. CASE m.kind = "refresh" /\ ApplyRefresh(c, m)
  <2>1. screen'[c] = [q \in DOMAIN s \cup {m.pane} |-> IF q = m.pane THEN m.grid ELSE s[q]]
    BY <1>3 DEF ApplyRefresh, QueuesTyped
  <2>2. p \in DOMAIN s \cup {m.pane} /\ screen'[c][p] = IF p = m.pane THEN m.grid ELSE s[p]
    BY <2>1
  <2> QED BY <1>3, <2>2 DEF Says, Touches
<1>4. CASE m.kind = "diff" /\ ApplyDiff(c, m)
  <2>1. m.row \in Row
    BY <1>1, <1>4, MessageTypes DEF Diffs
  <2>2. CASE m.pane \in DOMAIN s
    <3>1. screen'[c] = [s EXCEPT ![m.pane][m.row] = m.val]
      BY <1>4, <2>2 DEF ApplyDiff, QueuesTyped
    <3>2. p \in DOMAIN s
      BY <3>1
    <3>3. \A r \in Row :
            screen'[c][p][r] = IF p = m.pane /\ r = m.row THEN m.val ELSE s[p][r]
      BY <1>1, <2>1, <3>1, <3>2 DEF Grid
    <3> QED BY <1>4, <3>2, <3>3 DEF Says, Touches
  <2>3. CASE m.pane \notin DOMAIN s
    <3>1. screen' = screen
      BY <1>4, <2>3 DEF ApplyDiff
    <3> QED BY <1>4, <2>3, <3>1 DEF Touches
  <2> QED BY <2>2, <2>3
<1>5. CASE m.kind \in {"layout", "mode"} /\ screen' = screen
  BY <1>5 DEF Touches
<1> QED BY <1>2, <1>3, <1>4, <1>5

LEMMA ApplyStep ==
  ASSUME ServerTyped, ServerTyped', QueuesTyped, RingOK, Grows,
         NEW c \in Client, ClientOK(c), Apply(c)
  PROVE  ClientOK(c)'
<1> DEFINE m == Head(outbox[c])
           L == Len(outbox[c])
<1>1. /\ L \in Nat /\ L >= 1 /\ m = outbox[c][1] /\ m \in Message
      /\ Len(Tail(outbox[c])) = L - 1
      /\ \A i \in 1 .. (L - 1) : Tail(outbox[c])[i] = outbox[c][i + 1]
  BY QueueEntries, HeadAndTail DEF Apply
<1>2. /\ ring' = ring /\ grid' = grid /\ unsent' = unsent /\ Panes' = Panes
      /\ hand' = hand /\ next' = next /\ lagged' = lagged /\ step' = step
      /\ reply' = reply /\ behind' = behind /\ outbox'[c] = Tail(outbox[c])
      /\ outbox[c] # <<>>
  BY DEF Apply, server, window, forwarder, handler, Panes, QueuesTyped
<1>3. /\ \A p \in DOMAIN screen'[c] : p \in DOMAIN screen[c] \/ (m.kind = "refresh" /\ p = m.pane)
      /\ \A p \in DOMAIN screen'[c], r \in Row :
           /\ Touches(m, p, r) => screen'[c][p][r] = Says(m, r)
           /\ ~ Touches(m, p, r) =>
                p \in DOMAIN screen[c] /\ screen'[c][p][r] = screen[c][p][r]
  BY ApplyEffect
<1> HIDE DEF m, L
<1>4. /\ Len(outbox'[c]) = L - 1
      /\ \A i \in 1 .. (L - 1) : outbox'[c][i] = outbox[c][i + 1] /\ i + 1 \in 1 .. L
  BY <1>1, <1>2
<1>5. OutOK(c)'
  <2>1. Known(c)'
    <3>1. 1 \in 1 .. L
      BY <1>1
    <3>2. m.kind = "refresh" => m.pane \in Panes
      BY <1>1, <3>1 DEF ClientOK, OutOK, Known, L
    <3>3. DOMAIN screen'[c] \subseteq Panes
      BY <1>3, <3>2 DEF ClientOK, OutOK, Known
    <3> QED BY <1>2, <1>4, <3>3 DEF ClientOK, OutOK, Known, L
  <2>2. ASSUME NEW p \in Panes, NEW r \in Row, p \notin behind[c]
        PROVE  RowOK(c, p, r)'
    <3>1. RowOK(c, p, r)
      BY <2>2 DEF ClientOK, OutOK
    <3>2. ASSUME NEW i \in 0 .. (L - 1), Later(c, i + 1, p, r)
          PROVE  Later(c, i, p, r)'
      <4>1. CASE InHand(c, p, r)
        BY <1>2, <4>1 DEF Later, InHand
      <4>2. CASE \E j \in ((i + 1) + 1) .. L : Touches(outbox[c][j], p, r)
        <5>1. PICK j \in ((i + 1) + 1) .. L : Touches(outbox[c][j], p, r)
          BY <4>2
        <5>2. j - 1 \in (i + 1) .. (L - 1) /\ j - 1 \in 1 .. (L - 1) /\ (j - 1) + 1 = j
          BY <1>1
        <5>3. outbox'[c][j - 1] = outbox[c][j]
          BY <1>4, <5>2
        <5> QED BY <1>4, <5>1, <5>2, <5>3 DEF Later
      <4> QED BY <3>2, <4>1, <4>2 DEF Later, L
    <3>3. \A v : Fresh(next[c], p, r, v) => v = grid'[p][r] \/ Coming(next[c], p, r)'
      BY <1>2 DEF Fresh, Coming
    <3>4. ASSUME NEW i \in 1 .. (L - 1), Touches(outbox'[c][i], p, r)
          PROVE  (Fresh(next[c], p, r, Says(outbox[c][i], r)) \/ Later(c, i, p, r))'
      <4>1. i \in 0 .. (L - 1) /\ i + 1 \in 1 .. L /\ outbox'[c][i] = outbox[c][i + 1]
        BY <1>4
      <4>2. Fresh(next[c], p, r, Says(outbox[c][i + 1], r)) \/ Later(c, i + 1, p, r)
        BY <3>1, <3>4, <4>1 DEF RowOK, L
      <4> QED BY <3>2, <3>3, <4>1, <4>2 DEF Fresh
    <3>5. ASSUME p \in DOMAIN screen'[c]
          PROVE  (Fresh(next[c], p, r, screen[c][p][r]) \/ Later(c, 0, p, r))'
      <4>1. 0 \in 0 .. (L - 1) /\ 0 + 1 = 1 /\ 1 \in 1 .. L
        BY <1>1
      <4>2. CASE Touches(m, p, r)
        <5>1. screen'[c][p][r] = Says(m, r)
          BY <1>3, <3>5, <4>2
        <5>2. Fresh(next[c], p, r, Says(m, r)) \/ Later(c, 1, p, r)
          BY <1>1, <3>1, <4>1, <4>2 DEF RowOK, L
        <5> QED BY <3>2, <3>3, <4>1, <5>1, <5>2 DEF Fresh
      <4>3. CASE ~ Touches(m, p, r)
        <5>1. p \in DOMAIN screen[c] /\ screen'[c][p][r] = screen[c][p][r]
          BY <1>3, <3>5, <4>3
        <5>2. Fresh(next[c], p, r, screen[c][p][r]) \/ Later(c, 0, p, r)
          BY <3>1, <5>1 DEF RowOK
        <5>3. Later(c, 0, p, r) => Later(c, 1, p, r)
          <6>1. \A j \in (0 + 1) .. L : j = 1 \/ j \in (1 + 1) .. L
            BY <1>1
          <6> QED BY <1>1, <4>3, <6>1 DEF Later, L
        <5> QED BY <3>2, <3>3, <4>1, <5>1, <5>2, <5>3 DEF Fresh
      <4> QED BY <4>2, <4>3
    <3> QED BY <1>4, <3>4, <3>5 DEF RowOK
  <2> QED BY <1>2, <2>1, <2>2 DEF OutOK
<1>6. next[c] # 0
  BY <1>2 DEF ClientOK, DetachedOK
<1>7. HandOK(c)'
  BY <1>2, HandKept DEF ClientOK
<1>8. ReplyOK(c)'
  BY <1>2, ReplyKept DEF ClientOK
<1>9. DetachedOK(c)'
  BY <1>2, <1>6 DEF DetachedOK
<1> QED BY <1>5, <1>7, <1>8, <1>9 DEF ClientOK

\* Attaching loses what the old forwarder had yet to deliver: the client may miss
\* output of those panes.
LEMMA AttachStep ==
  ASSUME ServerTyped, ServerTyped', QueuesTyped, RingOK, Grows,
         NEW c \in Client, ClientOK(c), Attach(c)
  PROVE  ClientOK(c)'
<1> DEFINE n == next[c]
<1>1. /\ ring' = ring /\ grid' = grid /\ unsent' = unsent /\ Panes' = Panes
      /\ hand'[c] = <<>> /\ next'[c] = Len(ring) + 1 /\ lagged'[c] = FALSE
      /\ step'[c] = [at |-> "refresh"] /\ reply' = reply /\ reply[c] = <<>>
      /\ outbox' = outbox /\ screen' = screen
  BY DEF Attach, Ready, server, window, client, Panes, QueuesTyped
<1>2. n # 0 => behind'[c] = behind[c] \cup PanesFrom(n, Len(ring))
                              \cup {m.pane : m \in Range(hand[c])}
  BY DEF Attach, Attached, QueuesTyped
<1>3. Len(ring) \in Nat
  BY RingEntries
<1>4. HandOK(c)' /\ DetachedOK(c)' /\ ReplyOK(c)'
  BY <1>1, <1>3 DEF HandOK, DetachedOK, ReplyOK
<1>5. OutOK(c)'
  <2>1. Known(c)'
    BY <1>1 DEF ClientOK, OutOK, Known
  <2>2. CASE n = 0
    <3>1. outbox'[c] = <<>> /\ DOMAIN screen'[c] = {}
      BY <1>1, <2>2 DEF ClientOK, DetachedOK
    <3> QED BY <2>1, <3>1 DEF OutOK, RowOK
  <2>3. ASSUME n # 0, NEW p \in Panes, NEW r \in Row, p \notin behind'[c]
        PROVE  RowOK(c, p, r)'
    <3>1. RowOK(c, p, r)
      BY <1>2, <2>3 DEF ClientOK, OutOK
    <3>2. ~ InHand(c, p, r)
      <4>1. SUFFICES ASSUME NEW j \in 1 .. Len(hand[c]), Touches(hand[c][j], p, r) PROVE FALSE
        BY DEF InHand
      <4>2. hand[c][j].pane = p
        BY <4>1 DEF Touches
      <4>3. j \in DOMAIN hand[c]
        BY QueueEntries
      <4>4. p \in {m.pane : m \in Range(hand[c])}
        BY <4>2, <4>3 DEF Range
      <4> QED BY <1>2, <2>3, <4>4
    <3>3. Coming(n, p, r) => unsent[p] = r
      <4>1. ASSUME NEW i \in n .. Len(ring), Touches(ring[i], p, r) PROVE FALSE
        <5>1. p \in PanesFrom(n, Len(ring))
          BY <4>1 DEF Touches, PanesFrom
        <5> QED BY <1>2, <2>3, <5>1
      <4> QED BY <4>1 DEF Coming
    <3>4. Coming(next[c], p, r) => Coming(next[c], p, r)'
      BY <1>1, <3>3 DEF Coming
    <3> QED BY <1>1, <3>1, <3>2, <3>4, RowMoves
  <2> QED BY <1>1, <2>1, <2>2, <2>3 DEF OutOK
<1> QED BY <1>4, <1>5 DEF ClientOK

LEMMA DisconnectStep ==
  ASSUME QueuesTyped, NEW c \in Client, Disconnect(c), ServerTyped
  PROVE  ClientOK(c)'
<1>1. /\ hand'[c] = <<>> /\ next'[c] = 0 /\ lagged'[c] = FALSE /\ outbox'[c] = <<>>
      /\ screen'[c] = <<>> /\ step'[c] = Idle /\ reply'[c] = <<>>
      /\ ring' = ring
  BY DEF Disconnect, Ready, handler, server, QueuesTyped
<1>2. DOMAIN screen'[c] = {} /\ Len(ring) \in Nat
  BY <1>1 DEF ServerTyped
<1>3. HandOK(c)' /\ DetachedOK(c)' /\ ReplyOK(c)'
  BY <1>1, <1>2 DEF HandOK, DetachedOK, ReplyOK, Idle
<1>4. OutOK(c)'
  BY <1>1, <1>2 DEF OutOK, Known, RowOK
<1> QED BY <1>3, <1>4 DEF ClientOK

-----------------------------------------------------------------------------
(***************************************************************************)
(* The theorems.                                                           *)
(***************************************************************************)

\* A step of one connection leaves the variables of the others alone.
LEMMA OnlyOneClient ==
  ASSUME QueuesTyped, NEW d \in Client, Forwarder(d) \/ Handler(d) \/ ClientStep(d),
         NEW c \in Client, c # d
  PROVE  Same(c)
<1> USE DEF QueuesTyped, forwarder, handler, client
<1>1. CASE Forwarder(d)
  BY <1>1 DEF Forwarder, Receive, Lag, Resync, ForwardNext, Same
<1>2. CASE AttachRefresh(d) \/ AttachLayout(d) \/ SplitReply(d) \/ AddWindowReply(d)
  BY <1>2 DEF AttachRefresh, AttachLayout, SplitReply, AddWindowReply, Same
<1>3. CASE SendReply(d)
  <2> DEFINE m == Head(reply[d])
  <2>1. \/ behind' = behind
        \/ behind' = [behind EXCEPT ![d] = @ \cup {m.pane}]
        \/ behind' = [behind EXCEPT ![d] = @ \ {m.pane}]
    BY <1>3, Zenon DEF SendReply
  <2>2. behind'[c] = behind[c]
    BY <2>1
  <2>3. outbox'[c] = outbox[c] /\ reply'[c] = reply[c] /\ forwarder' = forwarder
        /\ step' = step /\ screen' = screen
    BY <1>3 DEF SendReply
  <2> QED BY <2>2, <2>3 DEF Same
<1>4. CASE Attach(d) \/ Disconnect(d)
  BY <1>4 DEF Attach, Disconnect, Same
<1>5. CASE Split(d) \/ AddWindow(d) \/ SetBroadcast(d)
  BY <1>5 DEF Split, AddWindow, SetBroadcast, Same
<1>6. CASE (\E w \in Window : FocusWindow(d, w)) \/ (\E p \in Pane : FocusPane(d, p))
  BY <1>6 DEF FocusWindow, FocusPane, Same
<1>7. CASE Apply(d)
  BY <1>7 DEF Apply, ApplyRefresh, ApplyDiff, ApplyLayout, Same
<1> QED BY <1>1, <1>2, <1>3, <1>4, <1>5, <1>6, <1>7 DEF Handler, ClientStep

LEMMA InitIInv == DeliveryAssumption /\ Init => IInv
<1> SUFFICES ASSUME DeliveryAssumption, Init PROVE IInv
  OBVIOUS
<1> USE DEF Init
<1>1. Panes = {1} /\ Windows = 1 .. 1 /\ Len(inWindow) = 1 /\ Len(ring) = 0
  BY DEF Panes, Windows
<1>2. Blank \in Grid /\ 1 \in Pane /\ 1 \in Window
  BY DEF Blank, Grid, Pane, Window, DeliveryAssumption
<1>3. ServerTyped
  <2>1. inWindow \in Seq(Window) /\ ring \in Seq(Diffs)
    BY <1>2
  <2>2. 1 \in 1 .. MaxWindow /\ burst \in 0 .. MaxBurst
    BY DEF DeliveryAssumption
  <2>3. focusOf \in [Windows -> Panes] /\ focusedWindow \in Windows
    BY <1>1
  <2>4. grid \in [Panes -> Grid] /\ unsent \in [Panes -> Row \cup {0}]
    BY <1>1, <1>2
  <2> QED BY <1>1, <1>2, <2>1, <2>2, <2>3, <2>4 DEF ServerTyped
<1>4. QueuesTyped
  <2>1. <<>> \in [{} -> Grid] /\ {} \in SUBSET Pane
    OBVIOUS
  <2>2. <<>> \in Screens
    BY <2>1, Zenon DEF Screens
  <2>3. /\ <<>> \in Seq(Diffs \cup Refreshes) /\ <<>> \in Seq(Message)
    OBVIOUS
  <2> QED BY <2>1, <2>2, <2>3, StepTypes DEF QueuesTyped
<1>5. RingOK
  <2>1. \A p \in Panes, r \in Row : grid[p][r] = 0
    BY <1>1 DEF Blank
  <2> QED BY <1>1, <2>1 DEF RingOK
<1>6. ASSUME NEW c \in Client
      PROVE  ClientOK(c)
  <2>1. /\ next[c] = 0 /\ lagged[c] = FALSE /\ hand[c] = <<>> /\ step[c] = Idle
        /\ reply[c] = <<>> /\ outbox[c] = <<>> /\ screen[c] = <<>>
    OBVIOUS
  <2>2. DOMAIN screen[c] = {} /\ Idle.at = "idle"
    BY <2>1 DEF Idle
  <2>3. HandOK(c) /\ ReplyOK(c) /\ DetachedOK(c)
    BY <1>1, <2>1, <2>2 DEF HandOK, ReplyOK, DetachedOK
  <2>4. OutOK(c)
    BY <2>1, <2>2 DEF OutOK, Known, RowOK
  <2> QED BY <2>3, <2>4 DEF ClientOK
<1> QED BY <1>3, <1>4, <1>5, <1>6 DEF IInv

LEMMA StepIInv == DeliveryAssumption /\ IInv /\ [Next]_vars => IInv'
<1> SUFFICES ASSUME DeliveryAssumption, IInv, [Next]_vars PROVE IInv'
  OBVIOUS
<1>1. ServerTyped /\ QueuesTyped /\ RingOK /\ \A c \in Client : ClientOK(c)
  BY DEF IInv
<1>2. ServerTyped' /\ QueuesTyped' /\ RingOK' /\ Grows
  BY <1>1, ServerTypedStep, QueuesTypedStep, RingStep
<1>3. ASSUME NEW c \in Client
      PROVE  ClientOK(c)'
  <2>1. CASE Same(c)
    BY <1>1, <1>2, <2>1, ClientKept
  <2>2. CASE Forwarder(c)
    BY <1>1, <1>2, <2>2, ReceiveStep, LagStep, ResyncStep, ForwardNextStep DEF Forwarder
  <2>3. CASE Handler(c)
    BY <1>1, <1>2, <2>3, ComposeStep, SendReplyStep DEF Handler
  <2>4. CASE ClientStep(c)
    BY <1>1, <1>2, <2>4, ComposeStep, CreateStep, AttachStep, DisconnectStep, ApplyStep
       DEF ClientStep
  <2>5. CASE UNCHANGED vars
    BY <2>1, <2>5 DEF vars, Same, forwarder, handler, client
  <2>6. CASE \E p \in Panes : Reader(p)
    BY <2>1, <2>6 DEF Reader, StoreGrid, BroadcastDiff, Same, forwarder, handler, client
  <2>7. CASE \E d \in Client : d # c /\ (Forwarder(d) \/ Handler(d) \/ ClientStep(d))
    BY <1>1, <2>1, <2>7, OnlyOneClient
  <2> QED BY <2>2, <2>3, <2>4, <2>5, <2>6, <2>7 DEF Next
<1> QED BY <1>2, <1>3 DEF IInv

\* The invariant explains what a settled client shows.
LEMMA IInvExplains == DeliveryAssumption /\ IInv => StaleIsExplained
<1> SUFFICES ASSUME DeliveryAssumption, IInv, NEW c \in Client, Settled(c),
                    NEW p \in Stale(c), p \notin behind[c]
             PROVE  FALSE
  BY DEF StaleIsExplained
<1>1. ServerTyped /\ QueuesTyped /\ ClientOK(c)
  BY DEF IInv
<1>2. p \in DOMAIN screen[c] /\ screen[c][p] # grid[p] /\ p \in Panes
  BY <1>1 DEF Stale, ClientOK, OutOK, Known
<1>3. screen[c][p] \in Grid /\ grid[p] \in Grid
  BY <1>1, <1>2, QueueEntries, ScreenTypes DEF ServerTyped
<1>4. ASSUME NEW r \in Row
      PROVE  screen[c][p][r] = grid[p][r]
  <2>1. Fresh(next[c], p, r, screen[c][p][r]) \/ Later(c, 0, p, r)
    BY <1>1, <1>2 DEF ClientOK, OutOK, RowOK
  <2>2. ~ Later(c, 0, p, r)
    BY DEF Later, InHand, Settled
  <2>3. ~ Coming(next[c], p, r)
    <3>1. unsent[p] # r
      BY <1>2 DEF Settled, DeliveryAssumption
    <3>2. next[c] .. Len(ring) = {}
      BY <1>1, QueueEntries DEF Settled, ServerTyped
    <3> QED BY <3>1, <3>2 DEF Coming
  <2> QED BY <2>1, <2>2, <2>3 DEF Fresh
<1>5. screen[c][p] = grid[p]
  BY <1>3, <1>4 DEF Grid
<1> QED BY <1>2, <1>5

\* A reader stores before it broadcasts, a handler composes under the lock and sends
\* after it, a forwarder lags and resynchronises: whatever the order, a settled
\* client's stale grid is one of a pane it may miss output of (pane.rs,
\* ipc/session_dispatch.rs, ipc/window_dispatch.rs).
THEOREM SettledScreensExplained ==
  ASSUME DeliveryAssumption
  PROVE  Spec => []StaleIsExplained
<1>1. Init => IInv
  BY InitIInv
<1>2. IInv /\ [Next]_vars => IInv'
  BY StepIInv
<1>3. IInv => StaleIsExplained
  BY IInvExplains
<1> QED BY <1>1, <1>2, <1>3, PTL DEF Spec

=============================================================================
