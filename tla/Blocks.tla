------------------------------- MODULE Blocks --------------------------------
(***************************************************************************)
(* The command blocks of one pane of the graphical client: the OSC 133     *)
(* marks the server reports, each placed at the length the scrollback has  *)
(* when it arrives (state/server_message.rs), the blocks folded out of     *)
(* them (command_blocks.rs), the prompt anchors, and what the user does    *)
(* with the blocks: select, collapse, name and jump (state/blocks.rs).     *)
(*                                                                         *)
(* A block's id is its prompt's row (make_block_id adds the pane).  Lines  *)
(* of the scrollback are counted, not kept: Screen has the ring.  Exit     *)
(* codes and the texts of names are left out.                              *)
(***************************************************************************)
EXTENDS Integers, Sequences, FiniteSets, SequencesExt

CONSTANTS
  Capacities,  \* the values of scrollback_lines
  MaxMarks,    \* MAX_SEMANTIC_MARKS (8192 in the code)
  MaxAnchors,  \* MAX_PROMPT_ANCHORS (1024 in the code)
  MaxSteps     \* bound on the messages from the server

VARIABLES
  capacity,   \* of the scrollback
  len,        \* the rows in it
  marks,      \* the marks accumulated, oldest first
  blocks,     \* the blocks folded out of them
  anchors,    \* the rows of prompts, for jumping between them
  offset,     \* scroll_offset, 0 on the live screen
  selected,   \* the selected block's id, in a set of at most one
  named,      \* the ids the user gave a name
  steps       \* the number of messages so far

pane == <<len, marks, blocks, anchors, offset>>
vars == <<capacity, pane, selected, named, steps>>

Kinds == {"A", "B", "C", "D"}
Open == -1   \* the end row of a block whose command still runs
Lesser(m, n) == IF m <= n THEN m ELSE n

Init ==
  /\ capacity \in Capacities
  /\ len = 0
  /\ marks = <<>>
  /\ blocks = <<>>
  /\ anchors = <<>>
  /\ offset = 0
  /\ selected = {}
  /\ named = {}
  /\ steps = 0

-----------------------------------------------------------------------------
(***************************************************************************)
(* Folding marks into blocks.                                              *)
(***************************************************************************)

NewBlock(row) ==
  [id |-> row, command |-> row, output |-> row, end |-> Open, collapsed |-> FALSE]

\* The blocks closed so far, and the one in progress, a sequence of at most one.
Folded(acc, m) ==
  LET done == acc.done
      current == acc.current
  IN CASE m.kind = "A" -> [done |-> done \o current, current |-> <<NewBlock(m.row)>>]
       [] current = <<>> -> acc
       [] m.kind = "B" -> [acc EXCEPT !.current[1].command = m.row, !.current[1].output = m.row]
       [] m.kind = "C" -> [acc EXCEPT !.current[1].output = m.row]
       [] m.kind = "D" -> [done |-> Append(done, [current[1] EXCEPT !.end = m.row]),
                           current |-> <<>>]

extract_command_blocks(ms) ==
  LET all == FoldLeft(Folded, [done |-> <<>>, current |-> <<>>], ms)
  IN all.done \o all.current

Ids(bs) == {bs[i].id : i \in DOMAIN bs}

\* find, position: the first block with an id.
IndexOf(bs, id) ==
  CHOOSE i \in DOMAIN bs : bs[i].id = id /\ \A j \in 1 .. i - 1 : bs[j].id # id

-----------------------------------------------------------------------------
(***************************************************************************)
(* Messages from the server.                                               *)
(***************************************************************************)

\* A diff pushes one row per dirty row, and shows the live screen again.
GridDiff(rows) ==
  /\ steps < MaxSteps
  /\ steps' = steps + 1
  /\ len' = Lesser(len + rows, capacity)
  /\ offset' = 0
  /\ UNCHANGED <<capacity, marks, blocks, anchors, selected, named>>

\* The oldest quarter is shed when there are too many marks.
Shed(ms) ==
  IF Len(ms) > MaxMarks THEN SubSeq(ms, MaxMarks \div 4 + 1, Len(ms)) ELSE ms

WithAnchor(as, row) ==
  LET more == IF as # <<>> /\ Last(as) = row THEN as ELSE Append(as, row)
  IN IF Len(more) > MaxAnchors THEN Tail(more) ELSE more

\* The blocks are folded anew, so all of them are expanded, and a selection
\* that is gone is dropped (prune_block_selection).
Mark(kind) ==
  /\ steps < MaxSteps
  /\ steps' = steps + 1
  /\ anchors' = IF kind = "A" THEN WithAnchor(anchors, len) ELSE anchors
  /\ marks' = Shed(Append(marks, [row |-> len, kind |-> kind]))
  /\ blocks' = extract_command_blocks(marks')
  /\ selected' = selected \cap Ids(blocks')
  /\ UNCHANGED <<capacity, len, offset, named>>

\* The configuration is reloaded: the newest rows are kept, the marks stay.
Reload(n) ==
  /\ n # capacity
  /\ capacity' = n
  /\ len' = Lesser(len, n)
  /\ UNCHANGED <<marks, blocks, anchors, offset, selected, named, steps>>

-----------------------------------------------------------------------------
(***************************************************************************)
(* The user.                                                               *)
(***************************************************************************)

SelectNextBlock ==
  /\ IF selected = {} THEN blocks # <<>> /\ selected' = {Head(blocks).id}
     ELSE \E id \in selected \cap Ids(blocks) :
            /\ IndexOf(blocks, id) < Len(blocks)
            /\ selected' = {blocks[IndexOf(blocks, id) + 1].id}
  /\ UNCHANGED <<capacity, pane, named, steps>>

SelectPrevBlock ==
  /\ IF selected = {} THEN blocks # <<>> /\ selected' = {Last(blocks).id}
     ELSE \E id \in selected \cap Ids(blocks) :
            /\ IndexOf(blocks, id) > 1
            /\ selected' = {blocks[IndexOf(blocks, id) - 1].id}
  /\ UNCHANGED <<capacity, pane, named, steps>>

\* Only a finished block can be collapsed.
ToggleCollapse(id) ==
  /\ id \in Ids(blocks)
  /\ blocks[IndexOf(blocks, id)].end # Open
  /\ blocks' = [blocks EXCEPT ![IndexOf(blocks, id)].collapsed = ~ @]
  /\ UNCHANGED <<capacity, len, marks, anchors, offset, selected, named, steps>>

\* The name modal is committed with a text, or with none.
SetName(id) ==
  /\ id \in Ids(blocks)
  /\ named' = named \cup {id}
  /\ UNCHANGED <<capacity, pane, selected, steps>>

RemoveName(id) ==
  /\ id \in named
  /\ named' = named \ {id}
  /\ UNCHANGED <<capacity, pane, selected, steps>>

JumpToBlock(id) ==
  /\ id \in Ids(blocks)
  /\ offset' = IF id >= len THEN 0 ELSE id
  /\ selected' = {id}
  /\ UNCHANGED <<capacity, len, marks, blocks, anchors, named, steps>>

\* The last anchor, of those a jump may go to.
Newest(ok) == Last(SelectSeq(anchors, LAMBDA row : row \in ok))
Among(rows) == {anchors[i] : i \in DOMAIN anchors} \cap rows

JumpPrevPrompt ==
  /\ Among(offset + 1 .. len - 1) # {}
  /\ offset' = Newest(offset + 1 .. len - 1)
  /\ UNCHANGED <<capacity, len, marks, blocks, anchors, selected, named, steps>>

JumpNextPrompt ==
  /\ offset > 0 /\ anchors # <<>>
  /\ offset' = IF Among(0 .. offset - 1) = {} THEN 0 ELSE Newest(0 .. offset - 1)
  /\ UNCHANGED <<capacity, len, marks, blocks, anchors, selected, named, steps>>

-----------------------------------------------------------------------------

Next ==
  \/ \E rows \in 1 .. 2 : GridDiff(rows)
  \/ \E kind \in Kinds : Mark(kind)
  \/ \E n \in Capacities : Reload(n)
  \/ SelectNextBlock \/ SelectPrevBlock
  \/ \E id \in Ids(blocks) : ToggleCollapse(id) \/ SetName(id) \/ JumpToBlock(id)
  \/ \E id \in named : RemoveName(id)
  \/ JumpPrevPrompt \/ JumpNextPrompt

Spec == Init /\ [][Next]_vars

-----------------------------------------------------------------------------

\* Two blocks have different ids: "The pair is unique within a session until the
\* absolute index wraps past u32::MAX" (command_blocks.rs:65).  A row is counted
\* in a scrollback that stops growing at its capacity, where every later prompt
\* gets the same id, and so the same selection, collapse and name.
BlockIdsUnique ==
  \A i, j \in DOMAIN blocks : i # j => blocks[i].id # blocks[j].id
=============================================================================
