---------------------------- MODULE ClientProofs -----------------------------
(***************************************************************************)
(* Theorems about the graphical client: its frames (Frames), the atlas its *)
(* glyphs are drawn from (Atlas), and its configuration (Settings).  The   *)
(* three share no state here; each part begins with what it shows.         *)
(***************************************************************************)
EXTENDS Frames, Atlas, Settings, CountingLemmas, FiniteSetTheorems, SequenceTheorems, TLAPS

-----------------------------------------------------------------------------
(***************************************************************************)
(* Theorems about Frames, for every set of panes and cell sizes and any    *)
(* number of messages and overflows: the state keeps its type, a frame     *)
(* shows an old grid only of a pane that an earlier frame unmarked without *)
(* drawing it, and points into an atlas that was started over only in the  *)
(* ways OldAtlasOnlyIfLate names.                                          *)
(*                                                                         *)
(* Both are about what a frame draws, and follow from what is kept between *)
(* frames: vertices in the cache that show an old grid are of a pane that  *)
(* is marked or was missed, and those of an old atlas were built before it *)
(* changed outside the pane pass, or are dropped when this pass ends       *)
(* (CacheOK).  Unmarking every pane at the end of a pass keeps that for    *)
(* the panes the pass drew only because what it drew is what the cache     *)
(* holds (PassOK).                                                         *)
(***************************************************************************)

\* What the cache holds is current, or known not to be.
CacheOK ==
  \A p \in DOMAIN pane_cache :
    /\ \/ pane_cache[p].verts.grid = grid[p]
       \/ p \in content_dirty
       \/ p \in missed
    /\ \/ pane_cache[p].verts.gen = atlas.gen
       \/ p \in late
       \/ pc = "panes" /\ atlas.cleared_this_frame

\* A marked pane that this pass has drawn is current in the cache.
PassOK ==
  pc = "panes" => \A p \in DOMAIN drawn \cap DOMAIN pane_cache :
    pane_cache[p].verts.grid = grid[p] \/ p \in missed

-----------------------------------------------------------------------------
(***************************************************************************)
(* Maps.                                                                   *)
(***************************************************************************)

\* Inserted adds one key and leaves the values of the others.
LEMMA InsertedIs ==
  ASSUME NEW map, NEW p, NEW x
  PROVE  /\ DOMAIN Inserted(map, p, x) = DOMAIN map \cup {p}
         /\ Inserted(map, p, x)[p] = x
         /\ \A q \in DOMAIN map : q # p => Inserted(map, p, x)[q] = map[q]
BY DEF Inserted

\* The values of a map are within a set if each of them is.
LEMMA RangeIn == ASSUME NEW map, NEW S
                 PROVE  Range(map) \subseteq S <=> \A q \in DOMAIN map : map[q] \in S
BY DEF Range

LEMMA InsertedRange ==
  ASSUME NEW map, NEW p, NEW S, NEW x \in S, Range(map) \subseteq S
  PROVE  Range(Inserted(map, p, x)) \subseteq S
<1>1. \A q \in DOMAIN map : map[q] \in S
  BY RangeIn
<1>2. \A q \in DOMAIN Inserted(map, p, x) : Inserted(map, p, x)[q] \in S
  BY <1>1 DEF Inserted
<1> QED BY <1>2, RangeIn

\* The empty map.
LEMMA NoEntries == ASSUME NEW S PROVE DOMAIN << >> = {} /\ Range(<< >>) \subseteq S
<1>1. DOMAIN << >> = {}
  OBVIOUS
<1> QED BY <1>1, RangeIn

-----------------------------------------------------------------------------
(***************************************************************************)
(* Type correctness.                                                       *)
(***************************************************************************)

\* A drawing may start the atlas over, and only that changes it.
LEMMA Overflow ==
  ASSUME FramesAssumption, TypeOK, MayOverflow
  PROVE  /\ atlas' \in [gen : Nat, cleared_this_frame : BOOLEAN, needs_grow : BOOLEAN]
         /\ resets' \in 0 .. MaxResets
         /\ atlas' = atlas \/ atlas'.cleared_this_frame
         /\ atlas'.gen = atlas.gen \/ atlas'.cleared_this_frame
<1>1. CASE UNCHANGED <<atlas, resets>>
  BY <1>1 DEF TypeOK
<1>2. ASSUME NEW grow \in BOOLEAN,
             resets < MaxResets, resets' = resets + 1,
             atlas' = [gen |-> atlas.gen + 1, cleared_this_frame |-> TRUE,
                       needs_grow |-> atlas.needs_grow \/ grow]
      PROVE  /\ atlas' \in [gen : Nat, cleared_this_frame : BOOLEAN, needs_grow : BOOLEAN]
             /\ resets' \in 0 .. MaxResets
             /\ atlas'.cleared_this_frame
  <2> DEFINE asked == atlas.needs_grow \/ grow
  <2>1. atlas' = [gen |-> atlas.gen + 1, cleared_this_frame |-> TRUE, needs_grow |-> asked]
    BY <1>2
  <2>2. asked \in BOOLEAN
    OBVIOUS
  <2>3. atlas.gen + 1 \in Nat
    BY DEF TypeOK
  <2>4. resets' \in 0 .. MaxResets
    BY <1>2 DEF TypeOK, FramesAssumption
  <2> HIDE DEF asked
  <2> QED BY <2>1, <2>2, <2>3, <2>4
<1> QED BY <1>1, <1>2 DEF MayOverflow

LEMMA InitType == ASSUME FramesAssumption, Init PROVE TypeOK
<1>1. /\ DOMAIN pane_cache \subseteq Pane /\ Range(pane_cache) \subseteq Entries
      /\ DOMAIN drawn \subseteq Pane /\ Range(drawn) \subseteq Verts
      /\ late \subseteq DOMAIN pane_cache
  BY NoEntries DEF Init
<1>2. /\ content_dirty \subseteq Pane /\ scrolled \subseteq Pane /\ missed \subseteq Pane
      /\ pane_layouts \subseteq Pane /\ todo \subseteq Pane /\ focused \in pane_layouts
  BY DEF Init
<1>3. grid \in [Pane -> Nat]
  BY DEF Init
<1>4. atlas \in [gen : Nat, cleared_this_frame : BOOLEAN, needs_grow : BOOLEAN]
  BY DEF Init
<1>5. /\ visible \in BOOLEAN /\ cell \in Cells
      /\ fps_limited \in BOOLEAN /\ redraw \in BOOLEAN /\ recent \in BOOLEAN
      /\ garbled \in BOOLEAN /\ lost \in BOOLEAN
      /\ pc \in {"idle", "panes", "chrome", "present"}
      /\ changes \in 0 .. MaxChanges /\ resets \in 0 .. MaxResets
  <2>1. visible \in BOOLEAN /\ cell \in Cells /\ fps_limited \in BOOLEAN
    BY DEF Init
  <2>2. redraw \in BOOLEAN /\ recent \in BOOLEAN /\ garbled \in BOOLEAN /\ lost \in BOOLEAN
    BY DEF Init
  <2>3. pc \in {"idle", "panes", "chrome", "present"}
    BY DEF Init
  <2>4. changes \in 0 .. MaxChanges /\ resets \in 0 .. MaxResets
    BY DEF Init, FramesAssumption
  <2> QED BY <2>1, <2>2, <2>3, <2>4
<1> QED BY <1>1, <1>2, <1>3, <1>4, <1>5 DEF TypeOK

\* Every step preserves the type of the state.
LEMMA StepType == ASSUME FramesAssumption, TypeOK, [Next]_vars PROVE TypeOK'
<1> USE DEF state, frame, ghost
<1>1. ASSUME NEW p \in Pane, GridDiff(p) \/ Refreshed(p) PROVE TypeOK'
  <2>1. grid' \in [Pane -> Nat]
    BY <1>1 DEF GridDiff, Refreshed, TypeOK
  <2>2. content_dirty' \subseteq Pane /\ scrolled' \subseteq Pane
    BY <1>1 DEF GridDiff, Refreshed, TypeOK
  <2>3. changes' \in 0 .. MaxChanges /\ redraw' \in BOOLEAN
    <3>1. Change
      BY <1>1 DEF GridDiff, Refreshed
    <3> QED BY <3>1 DEF Change, TypeOK, FramesAssumption
  <2>4. UNCHANGED <<pane_layouts, focused, visible, cell, atlas, pane_cache, late, pc,
                    fps_limited, recent, todo, drawn, garbled, missed, lost, resets>>
    BY <1>1 DEF GridDiff, Refreshed, Change, Idle
  <2> QED BY <2>1, <2>2, <2>3, <2>4 DEF TypeOK
<1>2. ASSUME NEW shown \in SUBSET Pane, NEW f \in shown, LayoutChanged(shown, f) PROVE TypeOK'
  <2>1. changes' \in 0 .. MaxChanges /\ redraw' \in BOOLEAN
    BY <1>2 DEF LayoutChanged, Change, TypeOK, FramesAssumption
  <2>2. /\ focused' \in pane_layouts' /\ pane_layouts' \subseteq Pane
        /\ UNCHANGED <<grid, content_dirty, scrolled, visible, cell, atlas, pane_cache, late, pc,
                       fps_limited, recent, todo, drawn, garbled, missed, lost, resets>>
    BY <1>2 DEF LayoutChanged, Change, Idle
  <2> QED BY <2>1, <2>2 DEF TypeOK
<1>3. CASE Scroll
  <2>1. changes' \in 0 .. MaxChanges /\ redraw' \in BOOLEAN
    BY <1>3 DEF Scroll, Change, TypeOK, FramesAssumption
  <2>2. scrolled' \subseteq Pane
    BY <1>3 DEF Scroll, TypeOK
  <2>3. UNCHANGED <<grid, content_dirty, pane_layouts, focused, visible, cell, atlas, pane_cache,
                    late, pc, fps_limited, recent, todo, drawn, garbled, missed, lost, resets>>
    BY <1>3 DEF Scroll, Change, Idle
  <2> QED BY <2>1, <2>2, <2>3 DEF TypeOK
<1>4. ASSUME NEW c \in Cells, FontChanged(c) PROVE TypeOK'
  <2>1. changes' \in 0 .. MaxChanges /\ redraw' \in BOOLEAN
    BY <1>4 DEF FontChanged, Change, TypeOK, FramesAssumption
  <2>2. atlas' \in [gen : Nat, cleared_this_frame : BOOLEAN, needs_grow : BOOLEAN]
    BY <1>4 DEF FontChanged, TypeOK
  <2>3. cell' \in Cells /\ late' \subseteq DOMAIN pane_cache'
    BY <1>4 DEF FontChanged, TypeOK
  <2>4. UNCHANGED <<grid, content_dirty, pane_layouts, focused, scrolled, visible, pane_cache, pc,
                    fps_limited, recent, todo, drawn, garbled, missed, lost, resets>>
    BY <1>4 DEF FontChanged, Change, Idle
  <2> QED BY <2>1, <2>2, <2>3, <2>4 DEF TypeOK
<1>5. CASE Blink
  BY <1>5 DEF Blink, Idle, TypeOK
<1>6. CASE FramePeriodPasses \/ SkipFrame
  BY <1>6 DEF FramePeriodPasses, SkipFrame, TypeOK
<1>12. CASE LostFrame
  <2>1. /\ atlas' \in [gen : Nat, cleared_this_frame : BOOLEAN, needs_grow : BOOLEAN]
        /\ redraw' \in BOOLEAN /\ recent' \in BOOLEAN /\ lost' \in BOOLEAN
    BY <1>12 DEF LostFrame, Begin, TypeOK
  <2>2. UNCHANGED <<grid, content_dirty, pane_layouts, focused, scrolled, visible, cell,
                    fps_limited, pane_cache, pc, todo, drawn, garbled, missed, late, changes,
                    resets>>
    BY <1>12 DEF LostFrame
  <2> QED BY <2>1, <2>2 DEF TypeOK
<1>7. CASE StartFrame
  <2>1. atlas' \in [gen : Nat, cleared_this_frame : BOOLEAN, needs_grow : BOOLEAN]
    BY <1>7 DEF StartFrame, Begin, TypeOK
  <2>2. DOMAIN drawn' \subseteq Pane /\ Range(drawn') \subseteq Verts
    BY <1>7, NoEntries DEF StartFrame
  <2>3. /\ redraw' \in BOOLEAN /\ recent' \in BOOLEAN /\ lost' \in BOOLEAN
        /\ pc' \in {"idle", "panes", "chrome", "present"}
        /\ todo' \subseteq Pane
    BY <1>7 DEF StartFrame, Begin, TypeOK
  <2>4. UNCHANGED <<grid, content_dirty, pane_layouts, focused, scrolled, visible, cell,
                    fps_limited, pane_cache, garbled, missed, late, changes, resets>>
    BY <1>7 DEF StartFrame
  <2> QED BY <2>1, <2>2, <2>3, <2>4 DEF TypeOK
<1>8. ASSUME NEW p \in Pane, DrawPane(p) PROVE TypeOK'
  <2>1. MayOverflow /\ TakePane(p)
    BY <1>8 DEF DrawPane, DrawHistory, DrawCached, DrawAnew
  <2>2. /\ atlas' \in [gen : Nat, cleared_this_frame : BOOLEAN, needs_grow : BOOLEAN]
        /\ resets' \in 0 .. MaxResets
    BY <2>1, Overflow
  <2>3. /\ todo' \subseteq Pane
        /\ UNCHANGED <<grid, content_dirty, pane_layouts, focused, scrolled, visible, cell,
                       fps_limited, redraw, recent, pc, garbled, lost, changes>>
    BY <2>1 DEF TakePane, TypeOK
  <2>4. CASE DrawHistory(p)
    BY <2>2, <2>3, <2>4 DEF DrawHistory, TypeOK
  <2>5. CASE DrawCached(p)
    <3>1. p \in DOMAIN pane_cache /\ drawn' = Inserted(drawn, p, pane_cache[p].verts)
      BY <2>5 DEF DrawCached, cache_valid
    <3>2. pane_cache[p].verts \in Verts
      BY <3>1, RangeIn DEF TypeOK, Entries
    <3>3. DOMAIN drawn' \subseteq Pane /\ Range(drawn') \subseteq Verts
      <4>1. DOMAIN drawn \subseteq Pane /\ Range(drawn) \subseteq Verts
        BY DEF TypeOK
      <4>2. DOMAIN drawn' = DOMAIN drawn \cup {p}
        BY <3>1, InsertedIs
      <4>3. Range(drawn') \subseteq Verts
        BY <3>1, <3>2, <4>1, InsertedRange
      <4> QED BY <4>1, <4>2, <4>3
    <3>4. UNCHANGED <<pane_cache, missed, late>>
      BY <2>5 DEF DrawCached
    <3> QED BY <2>2, <2>3, <3>3, <3>4 DEF TypeOK
  <2>6. CASE DrawAnew(p)
    <3> DEFINE verts == [grid |-> grid[p], gen |-> atlas.gen]
               entry == [verts |-> verts, key |-> Key(p)]
    <3>1. drawn' = Inserted(drawn, p, verts) /\ pane_cache' = Inserted(pane_cache, p, entry)
      BY <2>6 DEF DrawAnew
    <3>2. verts \in Verts /\ Key(p) \in Keys
      BY DEF TypeOK, Verts, Key, Keys
    <3>3. entry \in Entries
      BY <3>2 DEF Entries
    <3> HIDE DEF verts, entry
    <3>4. DOMAIN drawn' \subseteq Pane /\ Range(drawn') \subseteq Verts
      <4>1. DOMAIN drawn \subseteq Pane /\ Range(drawn) \subseteq Verts
        BY DEF TypeOK
      <4>2. DOMAIN drawn' = DOMAIN drawn \cup {p}
        BY <3>1, InsertedIs
      <4>3. Range(drawn') \subseteq Verts
        BY <3>1, <3>2, <4>1, InsertedRange
      <4> QED BY <4>1, <4>2, <4>3
    <3>5. /\ DOMAIN pane_cache' = DOMAIN pane_cache \cup {p}
          /\ Range(pane_cache') \subseteq Entries
      <4>1. Range(pane_cache) \subseteq Entries
        BY DEF TypeOK
      <4>2. DOMAIN pane_cache' = DOMAIN pane_cache \cup {p}
        BY <3>1, InsertedIs
      <4>3. Range(pane_cache') \subseteq Entries
        BY <3>1, <3>3, <4>1, InsertedRange
      <4> QED BY <4>2, <4>3
    <3>6. /\ DOMAIN pane_cache' \subseteq Pane
          /\ missed' \subseteq Pane /\ late' \subseteq DOMAIN pane_cache'
      BY <2>6, <3>5 DEF DrawAnew, TypeOK
    <3> QED BY <2>2, <2>3, <3>4, <3>5, <3>6 DEF TypeOK
  <2> QED BY <1>8, <2>4, <2>5, <2>6 DEF DrawPane
<1>9. CASE EndPanes
  <2>1. /\ DOMAIN pane_cache' \subseteq Pane /\ Range(pane_cache') \subseteq Entries
        /\ late' \subseteq DOMAIN pane_cache'
    BY <1>9, NoEntries DEF EndPanes, TypeOK
  <2>2. content_dirty' \subseteq Pane /\ missed' \subseteq Pane
    BY <1>9 DEF EndPanes, TypeOK
  <2>3. /\ pc' \in {"idle", "panes", "chrome", "present"}
        /\ UNCHANGED <<grid, pane_layouts, focused, scrolled, visible, cell, fps_limited, atlas,
                       redraw, recent, todo, drawn, garbled, lost, changes, resets>>
    BY <1>9 DEF EndPanes
  <2> QED BY <2>1, <2>2, <2>3 DEF TypeOK
<1>10. CASE DrawChrome
  <2>1. MayOverflow
    BY <1>10 DEF DrawChrome
  <2>2. /\ atlas' \in [gen : Nat, cleared_this_frame : BOOLEAN, needs_grow : BOOLEAN]
        /\ resets' \in 0 .. MaxResets
    BY <2>1, Overflow
  <2>3. late' \subseteq DOMAIN pane_cache'
    BY <1>10 DEF DrawChrome, TypeOK
  <2>4. /\ pc' \in {"idle", "panes", "chrome", "present"}
        /\ UNCHANGED <<state, pane_cache, redraw, recent, todo, drawn, garbled, missed, lost,
                       changes>>
    BY <1>10 DEF DrawChrome
  <2> QED BY <2>2, <2>3, <2>4 DEF TypeOK
<1>11. CASE Present
  <2>1. atlas' \in [gen : Nat, cleared_this_frame : BOOLEAN, needs_grow : BOOLEAN]
    <3>1. CASE atlas.needs_grow
      <4>1. atlas' = [gen |-> atlas.gen + 1, cleared_this_frame |-> TRUE, needs_grow |-> FALSE]
        BY <1>11, <3>1 DEF Present
      <4>2. atlas.gen + 1 \in Nat
        BY DEF TypeOK
      <4> QED BY <4>1, <4>2
    <3>2. CASE ~atlas.needs_grow
      BY <1>11, <3>2 DEF Present, TypeOK
    <3> QED BY <3>1, <3>2
  <2>2. late' \subseteq DOMAIN pane_cache'
    BY <1>11 DEF Present, TypeOK
  <2>3. /\ garbled' \in BOOLEAN
        /\ pc' \in {"idle", "panes", "chrome", "present"}
        /\ UNCHANGED <<state, pane_cache, redraw, recent, todo, drawn, missed, lost, changes,
                       resets>>
    BY <1>11 DEF Present
  <2> QED BY <2>1, <2>2, <2>3 DEF TypeOK
<1>13. CASE UNCHANGED vars
  BY <1>13 DEF vars, TypeOK
<1> QED
  BY <1>1, <1>2, <1>3, <1>4, <1>5, <1>6, <1>7, <1>8, <1>9, <1>10, <1>11, <1>12, <1>13 DEF Next

-----------------------------------------------------------------------------
(***************************************************************************)
(* Between frames.                                                         *)
(***************************************************************************)

Inv == CacheOK /\ PassOK /\ OldGridOnlyIfMissed /\ OldAtlasOnlyIfLate

\* Steps that leave what the invariant reads.
LEMMA Undisturbed ==
  ASSUME Inv, UNCHANGED <<grid, content_dirty, missed, pane_cache, atlas, late, pc, drawn>>
  PROVE  Inv'
BY DEF Inv, CacheOK, PassOK, OldGridOnlyIfMissed, OldAtlasOnlyIfLate, InFrame

\* While no frame is drawn, only the cache counts.
LEMMA Outside == ASSUME pc' = "idle", CacheOK' PROVE Inv'
BY DEF Inv, PassOK, OldGridOnlyIfMissed, OldAtlasOnlyIfLate, InFrame

\* A grid that changes is marked.
LEMMA ContentStep ==
  ASSUME TypeOK, Inv, NEW p \in Pane, GridDiff(p) \/ Refreshed(p)
  PROVE  Inv'
<1>1. /\ grid' = [grid EXCEPT ![p] = @ + 1] /\ grid \in [Pane -> Nat]
      /\ content_dirty' = content_dirty \cup {p}
      /\ pc = "idle" /\ pc' = "idle" /\ DOMAIN pane_cache \subseteq Pane
      /\ UNCHANGED <<missed, pane_cache, atlas, late>>
  BY DEF GridDiff, Refreshed, Change, Idle, frame, TypeOK
<1>2. CacheOK'
  BY <1>1 DEF CacheOK, Inv
<1> QED BY <1>1, <1>2, Outside

\* A font that changes makes every cached vertex late.
LEMMA FontStep ==
  ASSUME TypeOK, Inv, NEW c \in Cells, FontChanged(c)
  PROVE  Inv'
<1>1. /\ late' = late \cup DOMAIN pane_cache /\ pc' = "idle"
      /\ UNCHANGED <<grid, content_dirty, missed, pane_cache>>
  BY DEF FontChanged, Change, Idle, frame
<1>2. CacheOK'
  BY <1>1 DEF CacheOK, Inv
<1> QED BY <1>1, <1>2, Outside

-----------------------------------------------------------------------------
(***************************************************************************)
(* In a frame.                                                             *)
(***************************************************************************)

LEMMA StartStep == ASSUME TypeOK, Inv, StartFrame PROVE Inv'
<1>1. /\ pc = "idle" /\ pc' = "panes" /\ DOMAIN drawn' = {}
      /\ UNCHANGED <<grid, content_dirty, missed, pane_cache, late>>
  BY NoEntries DEF StartFrame, Begin, state
<1>2. atlas'.gen = atlas.gen
  BY DEF StartFrame, Begin, TypeOK
<1>3. CacheOK'
  BY <1>1, <1>2 DEF CacheOK, Inv
<1>4. PassOK' /\ OldGridOnlyIfMissed' /\ OldAtlasOnlyIfLate'
  BY <1>1 DEF PassOK, OldGridOnlyIfMissed, OldAtlasOnlyIfLate
<1> QED BY <1>3, <1>4 DEF Inv

\* A frame that finds no surface leaves the cache and what was drawn alone.
LEMMA LostStep == ASSUME TypeOK, Inv, LostFrame PROVE Inv'
<1>1. /\ pc = "idle" /\ pc' = "idle"
      /\ UNCHANGED <<grid, content_dirty, missed, pane_cache, late>>
  BY DEF LostFrame, Begin, state, frame
<1>2. atlas'.gen = atlas.gen
  BY DEF LostFrame, Begin, TypeOK
<1>3. CacheOK'
  BY <1>1, <1>2 DEF CacheOK, Inv
<1> QED BY <1>1, <1>3, Outside

\* Drawing the scrollback may start the atlas over.
LEMMA HistoryStep ==
  ASSUME FramesAssumption, TypeOK, Inv, NEW p \in Pane, DrawHistory(p)
  PROVE  Inv'
<1>1. /\ pc = "panes" /\ pc' = "panes"
      /\ UNCHANGED <<grid, content_dirty, missed, pane_cache, late, drawn>>
  BY DEF DrawHistory, TakePane, state
<1>2. atlas' = atlas \/ atlas'.cleared_this_frame
  BY Overflow DEF DrawHistory
<1>3. CacheOK'
  BY <1>1, <1>2 DEF CacheOK, Inv
<1>4. PassOK' /\ OldGridOnlyIfMissed'
  BY <1>1 DEF PassOK, OldGridOnlyIfMissed, InFrame, Inv
<1>5. OldAtlasOnlyIfLate'
  BY <1>1, <1>2 DEF OldAtlasOnlyIfLate, InFrame, Inv
<1> QED BY <1>3, <1>4, <1>5 DEF Inv

\* What is taken from the cache shows the grid of an unmarked pane, and points
\* into an atlas that was not started over in this frame.
LEMMA CachedStep ==
  ASSUME FramesAssumption, TypeOK, Inv, NEW p \in Pane, DrawCached(p)
  PROVE  Inv'
<1>1. /\ pc = "panes" /\ pc' = "panes"
      /\ UNCHANGED <<grid, content_dirty, missed, pane_cache, late>>
  BY DEF DrawCached, TakePane, state
<1>2. /\ drawn' = Inserted(drawn, p, pane_cache[p].verts)
      /\ p \in DOMAIN pane_cache /\ p \notin content_dirty /\ ~atlas.cleared_this_frame
  BY DEF DrawCached, cache_valid
<1>3. atlas' = atlas \/ atlas'.cleared_this_frame
  BY Overflow DEF DrawCached
<1>4. /\ pane_cache[p].verts.grid = grid[p] \/ p \in missed
      /\ pane_cache[p].verts.gen = atlas.gen \/ p \in late
  BY <1>2 DEF CacheOK, Inv
<1>5. /\ DOMAIN drawn' = DOMAIN drawn \cup {p}
      /\ drawn'[p] = pane_cache[p].verts
      /\ \A q \in DOMAIN drawn : q # p => drawn'[q] = drawn[q]
  BY <1>2 DEF Inserted
<1>6. CacheOK'
  BY <1>1, <1>3 DEF CacheOK, Inv
<1>7. PassOK'
  BY <1>1, <1>4, <1>5 DEF PassOK, Inv
<1>8. OldGridOnlyIfMissed'
  BY <1>1, <1>4, <1>5 DEF OldGridOnlyIfMissed, InFrame, Inv
<1>9. OldAtlasOnlyIfLate'
  BY <1>1, <1>3, <1>4, <1>5 DEF OldAtlasOnlyIfLate, InFrame, Inv
<1> QED BY <1>6, <1>7, <1>8, <1>9 DEF Inv

\* What is built anew shows the grid of now, and points into the atlas of now
\* unless that is started over on the way.
LEMMA AnewStep ==
  ASSUME FramesAssumption, TypeOK, Inv, NEW p \in Pane, DrawAnew(p)
  PROVE  Inv'
<1> DEFINE verts == [grid |-> grid[p], gen |-> atlas.gen]
           entry == [verts |-> verts, key |-> Key(p)]
<1>1. /\ pc = "panes" /\ pc' = "panes"
      /\ UNCHANGED <<grid, content_dirty>>
      /\ missed' = missed \ {p} /\ late' = late \ {p}
  BY DEF DrawAnew, TakePane, state
<1>2. drawn' = Inserted(drawn, p, verts) /\ pane_cache' = Inserted(pane_cache, p, entry)
  BY DEF DrawAnew
<1>3. atlas' = atlas \/ atlas'.cleared_this_frame
  BY Overflow DEF DrawAnew
<1>4. verts.grid = grid[p] /\ verts.gen = atlas.gen /\ entry.verts = verts
  OBVIOUS
<1> HIDE DEF verts, entry
<1>5. /\ DOMAIN drawn' = DOMAIN drawn \cup {p}
      /\ drawn'[p] = verts
      /\ \A q \in DOMAIN drawn : q # p => drawn'[q] = drawn[q]
  BY <1>2 DEF Inserted
<1>6. /\ DOMAIN pane_cache' = DOMAIN pane_cache \cup {p}
      /\ pane_cache'[p].verts = verts
      /\ \A q \in DOMAIN pane_cache : q # p => pane_cache'[q] = pane_cache[q]
  BY <1>2, <1>4 DEF Inserted
<1>7. CacheOK'
  BY <1>1, <1>3, <1>4, <1>6 DEF CacheOK, Inv
<1>8. PassOK'
  BY <1>1, <1>4, <1>5, <1>6 DEF PassOK, Inv
<1>9. OldGridOnlyIfMissed'
  BY <1>1, <1>4, <1>5 DEF OldGridOnlyIfMissed, InFrame, Inv
<1>10. OldAtlasOnlyIfLate'
  BY <1>1, <1>3, <1>4, <1>5 DEF OldAtlasOnlyIfLate, InFrame, Inv
<1> QED BY <1>7, <1>8, <1>9, <1>10 DEF Inv

\* The end of the pass unmarks the panes it drew, which the cache has as they
\* are, and the others, which are missed.
LEMMA EndStep == ASSUME TypeOK, Inv, EndPanes PROVE Inv'
<1>1. /\ pc = "panes" /\ pc' = "chrome"
      /\ content_dirty' = {} /\ missed' = missed \cup (content_dirty \ DOMAIN drawn)
      /\ UNCHANGED <<grid, atlas, drawn>>
  BY DEF EndPanes
<1>2. CacheOK' /\ OldAtlasOnlyIfLate'
  <2>1. CASE atlas.cleared_this_frame
    <3>1. DOMAIN pane_cache' = {}
      BY <2>1, NoEntries DEF EndPanes
    <3> QED BY <1>1, <2>1, <3>1 DEF CacheOK, OldAtlasOnlyIfLate
  <2>2. CASE ~atlas.cleared_this_frame
    <3>1. UNCHANGED <<pane_cache, late>>
      BY <2>2 DEF EndPanes
    <3>2. ASSUME NEW p \in DOMAIN pane_cache
          PROVE  pane_cache[p].verts.grid = grid[p] \/ p \in missed'
      <4>1. CASE p \in DOMAIN drawn
        BY <1>1, <4>1 DEF PassOK, Inv
      <4>2. CASE p \notin DOMAIN drawn
        BY <1>1, <4>2 DEF CacheOK, Inv
      <4> QED BY <4>1, <4>2
    <3>3. \A p \in DOMAIN pane_cache : pane_cache[p].verts.gen = atlas.gen \/ p \in late
      BY <2>2 DEF CacheOK, Inv
    <3>4. CacheOK'
      BY <1>1, <3>1, <3>2, <3>3 DEF CacheOK
    <3>5. OldAtlasOnlyIfLate'
      BY <1>1, <3>1 DEF OldAtlasOnlyIfLate, InFrame, Inv
    <3> QED BY <3>4, <3>5
  <2> QED BY <2>1, <2>2
<1>3. OldGridOnlyIfMissed'
  BY <1>1 DEF OldGridOnlyIfMissed, InFrame, Inv
<1>4. PassOK'
  BY <1>1 DEF PassOK
<1> QED BY <1>2, <1>3, <1>4 DEF Inv

\* Outside the pane pass the cache outlives an overflow, and is late.
LEMMA ChromeStep == ASSUME FramesAssumption, TypeOK, Inv, DrawChrome PROVE Inv'
<1>1. /\ pc = "chrome" /\ pc' = "present"
      /\ UNCHANGED <<grid, content_dirty, missed, pane_cache, drawn>>
  BY DEF DrawChrome, state
<1>2. atlas' = atlas \/ atlas'.cleared_this_frame
  BY Overflow DEF DrawChrome
<1>3. late \subseteq DOMAIN pane_cache
  BY DEF TypeOK
<1>4. /\ late \subseteq late'
      /\ atlas'.gen # atlas.gen => DOMAIN pane_cache \subseteq late'
  BY DEF DrawChrome
<1>5. CacheOK'
  BY <1>1, <1>4 DEF CacheOK, Inv
<1>6. OldGridOnlyIfMissed'
  BY <1>1 DEF OldGridOnlyIfMissed, InFrame, Inv
<1>7. OldAtlasOnlyIfLate'
  BY <1>1, <1>2, <1>4 DEF OldAtlasOnlyIfLate, InFrame, Inv
<1>8. PassOK'
  BY <1>1 DEF PassOK
<1> QED BY <1>5, <1>6, <1>7, <1>8 DEF Inv

LEMMA PresentStep == ASSUME TypeOK, Inv, Present PROVE Inv'
<1>1. /\ pc = "present" /\ pc' = "idle"
      /\ UNCHANGED <<grid, content_dirty, missed, pane_cache>>
  BY DEF Present, state
<1>2. late' = late \cup DOMAIN pane_cache \/ UNCHANGED <<atlas, late>>
  BY DEF Present
<1>3. CacheOK'
  BY <1>1, <1>2 DEF CacheOK, Inv
<1> QED BY <1>1, <1>3, Outside

-----------------------------------------------------------------------------
(***************************************************************************)
(* The theorems.                                                           *)
(***************************************************************************)

LEMMA InitInv == ASSUME Init PROVE Inv
<1>1. DOMAIN pane_cache = {} /\ pc = "idle"
  BY NoEntries DEF Init
<1> QED BY <1>1 DEF Inv, CacheOK, PassOK, OldGridOnlyIfMissed, OldAtlasOnlyIfLate, InFrame

LEMMA StepInv == ASSUME FramesAssumption, TypeOK, Inv, [Next]_vars PROVE Inv'
<1>1. ASSUME NEW p \in Pane, GridDiff(p) \/ Refreshed(p) PROVE Inv'
  BY <1>1, ContentStep
<1>2. ASSUME NEW c \in Cells, FontChanged(c) PROVE Inv'
  BY <1>2, FontStep
<1>3. CASE \/ (\E shown \in SUBSET Pane : \E f \in shown : LayoutChanged(shown, f))
           \/ Scroll \/ Blink \/ FramePeriodPasses \/ SkipFrame \/ UNCHANGED vars
  <2>1. UNCHANGED <<grid, content_dirty, missed, pane_cache, atlas, late, pc, drawn>>
    BY <1>3 DEF LayoutChanged, Scroll, Blink, FramePeriodPasses, SkipFrame, Change, Idle, vars,
                state, frame, ghost
  <2> QED BY <2>1, Undisturbed
<1>4. CASE StartFrame
  BY <1>4, StartStep
<1>9. CASE LostFrame
  BY <1>9, LostStep
<1>5. ASSUME NEW p \in Pane, DrawPane(p) PROVE Inv'
  BY <1>5, HistoryStep, CachedStep, AnewStep DEF DrawPane
<1>6. CASE EndPanes
  BY <1>6, EndStep
<1>7. CASE DrawChrome
  BY <1>7, ChromeStep
<1>8. CASE Present
  BY <1>8, PresentStep
<1> QED BY <1>1, <1>2, <1>3, <1>4, <1>5, <1>6, <1>7, <1>8, <1>9 DEF Next

LEMMA Always == ASSUME FramesAssumption PROVE Spec => [](TypeOK /\ Inv)
<1>1. Init => TypeOK /\ Inv
  BY InitType, InitInv
<1>2. TypeOK /\ Inv /\ [Next]_vars => (TypeOK /\ Inv)'
  BY StepType, StepInv
<1> QED BY <1>1, <1>2, PTL DEF Spec

\* The state has its type.
THEOREM TypeCorrect == Spec => []TypeOK
BY FramesAssumption, Always, PTL

\* A frame shows an old grid of a pane only if an earlier frame unmarked the
\* pane without drawing its grid.
THEOREM OldGridsWereMissed == Spec => []OldGridOnlyIfMissed
<1>1. TypeOK /\ Inv => OldGridOnlyIfMissed
  BY DEF Inv
<1> QED BY FramesAssumption, <1>1, Always, PTL

\* A frame points into an atlas that was started over only if that happened in
\* this frame, or outside the pane pass since the vertices were built.
THEOREM OldAtlasesWereLate == Spec => []OldAtlasOnlyIfLate
<1>1. TypeOK /\ Inv => OldAtlasOnlyIfLate
  BY DEF Inv
<1> QED BY FramesAssumption, <1>1, Always, PTL

-----------------------------------------------------------------------------
(***************************************************************************)
(* Theorems about Atlas, for every set of glyphs and rows, every size of   *)
(* bitmap that fits the first texture, every size of texture and every     *)
(* budget: what a cache says is where it says (RectsHoldTheirGlyphs), what *)
(* a frame was told still is (FrameIsWholeUnlessCleared), no two entries   *)
(* touch (RectsKeepApart), and the sums of areas the budgets are about are *)
(* those of the entries (AreaAccounted).                                   *)
(*                                                                         *)
(* The first three rest on where the cursor is.  Whatever was handed out   *)
(* lies above its row, or in it, left of it and no taller than it says     *)
(* (Behind), and what is placed at the cursor next lies neither above nor  *)
(* left of that.  For them the caches only reorder and drop, and add what  *)
(* is new.  The fourth is about how many entries are kept: the area of a   *)
(* sequence, a fold, is that of its two halves, and an eviction takes from *)
(* the sum what it takes from the sequence.                                *)
(***************************************************************************)

Rects   == [x : Nat, y : Nat, w : Nat \ {0}, h : Nat \ {0}]
Cursors == [x : Nat, y : Nat, row_height : Nat]

\* The rectangle is in the part of the texture the cursor has passed.
Behind(r, c) ==
  \/ r.y + r.h < c.y
  \/ /\ r.y = c.y
     /\ r.x + r.w < c.x
     /\ r.h <= c.row_height

Inside(r, sz) == r.x + r.w <= sz /\ r.y + r.h <= sz

Apart(r, s) ==
  \/ r.x + r.w < s.x \/ s.x + s.w < r.x
  \/ r.y + r.h < s.y \/ s.y + s.h < r.y

Shows(px, r, bitmap) == \A p \in Pixels(r) : px[p] = bitmap

TextureOK ==
  /\ size \in Nat /\ SizeInit <= size
  /\ DOMAIN pixels = (0 .. size - 1) \X (0 .. size - 1)
  /\ cursor \in Cursors

\* A rectangle that was handed out, and what it was handed out for.
Stands(px, sz, c, r, bitmap) ==
  r \in Rects /\ Inside(r, sz) /\ Behind(r, c) /\ Shows(px, r, bitmap)

CachesOK == cache \in [Kinds -> Seq(CacheEntries)]

EntriesOK == \A e \in CacheEntries : Stands(pixels, size, cursor, e.rect, e.bitmap)

UsedOK == cleared_this_frame \/ \A u \in used : Stands(pixels, size, cursor, u.rect, u.bitmap)

PlacedOK == TextureOK /\ CachesOK /\ EntriesOK /\ UsedOK /\ RectsKeepApart

-----------------------------------------------------------------------------
(***************************************************************************)
(* Where rectangles are.                                                   *)
(***************************************************************************)

\* The pixels of a rectangle, by their coordinates.
LEMMA PixelsAre ==
  ASSUME NEW r \in Rects, NEW p
  PROVE  p \in Pixels(r) <=>
           \E x \in r.x .. r.x + r.w - 1, y \in r.y .. r.y + r.h - 1 : p = <<x, y>>
BY DEF Pixels

\* Rectangles that keep apart share no pixel.
LEMMA ApartShareNone ==
  ASSUME NEW r \in Rects, NEW s \in Rects, Apart(r, s)
  PROVE  \A p \in Pixels(r) : p \notin Pixels(s)
<1> SUFFICES ASSUME NEW p \in Pixels(r), p \in Pixels(s)
             PROVE  FALSE
  OBVIOUS
<1>1. PICK x \in r.x .. r.x + r.w - 1, y \in r.y .. r.y + r.h - 1 : p = <<x, y>>
  BY PixelsAre
<1>2. PICK u \in s.x .. s.x + s.w - 1, v \in s.y .. s.y + s.h - 1 : p = <<u, v>>
  BY PixelsAre
<1>3. x = u /\ y = v
  BY <1>1, <1>2
<1>4. /\ r.x \in Nat /\ r.y \in Nat /\ r.w \in Nat /\ r.h \in Nat
      /\ s.x \in Nat /\ s.y \in Nat /\ s.w \in Nat /\ s.h \in Nat
  BY DEF Rects
<1> QED BY <1>1, <1>2, <1>3, <1>4 DEF Apart

\* A rectangle within the texture has pixels of the texture.
LEMMA InsidePixels ==
  ASSUME NEW r \in Rects, NEW sz \in Nat, Inside(r, sz)
  PROVE  Pixels(r) \subseteq (0 .. sz - 1) \X (0 .. sz - 1)
<1> SUFFICES ASSUME NEW p \in Pixels(r)
             PROVE  p \in (0 .. sz - 1) \X (0 .. sz - 1)
  OBVIOUS
<1>1. PICK x \in r.x .. r.x + r.w - 1, y \in r.y .. r.y + r.h - 1 : p = <<x, y>>
  BY PixelsAre
<1>2. /\ r.x \in Nat /\ r.y \in Nat /\ r.w \in Nat /\ r.h \in Nat
      /\ r.x + r.w <= sz /\ r.y + r.h <= sz
  BY DEF Rects, Inside
<1>3. x \in 0 .. sz - 1 /\ y \in 0 .. sz - 1
  BY <1>1, <1>2
<1> QED BY <1>1, <1>3

\* A row that is begun leaves behind what the cursor has passed, and has room
\* for a bitmap that fits the texture.
LEMMA NextRowIs ==
  ASSUME NEW c \in Cursors, NEW w \in Nat \ {0}, size \in Nat, w <= size
  PROVE  /\ NextRow(c, w) \in Cursors
         /\ NextRow(c, w).x + w <= size
         /\ \A r \in Rects : Behind(r, c) => Behind(r, NextRow(c, w))
<1>1. c.x \in Nat /\ c.y \in Nat /\ c.row_height \in Nat
  BY DEF Cursors
<1>2. CASE c.x + w > size
  <2>1. NextRow(c, w) = [x |-> 0, y |-> c.y + c.row_height + 1, row_height |-> 0]
    BY <1>2 DEF NextRow
  <2>2. ASSUME NEW r \in Rects, Behind(r, c)
        PROVE  r.y + r.h < c.y + c.row_height + 1
    <3>1. r.x \in Nat /\ r.y \in Nat /\ r.w \in Nat /\ r.h \in Nat
      BY DEF Rects
    <3> QED BY <1>1, <2>2, <3>1 DEF Behind
  <2> QED BY <1>1, <2>1, <2>2 DEF Cursors, Behind
<1>3. CASE ~(c.x + w > size)
  <2>1. NextRow(c, w) = c
    BY <1>3 DEF NextRow
  <2> QED BY <1>1, <1>3, <2>1
<1> QED BY <1>2, <1>3

\* The rectangle at the cursor, and the cursor after it.
At(c, w, h)   == [x |-> c.x, y |-> c.y, w |-> w, h |-> h]
Past(c, w, h) == [x |-> c.x + w + 1, y |-> c.y, row_height |-> Max({c.row_height, h})]

\* What is placed at the cursor keeps apart from what the cursor has passed, and
\* the cursor passes it too.
LEMMA Placed ==
  ASSUME NEW c \in Cursors, NEW w \in Nat \ {0}, NEW h \in Nat \ {0}
  PROVE  /\ At(c, w, h) \in Rects
         /\ Past(c, w, h) \in Cursors
         /\ Behind(At(c, w, h), Past(c, w, h))
         /\ \A r \in Rects : Behind(r, c) =>
              Behind(r, Past(c, w, h)) /\ Apart(r, At(c, w, h))
<1> DEFINE tall == Max({c.row_height, h})
<1>1. c.x \in Nat /\ c.y \in Nat /\ c.row_height \in Nat
  BY DEF Cursors
<1>2. tall \in Nat /\ c.row_height <= tall /\ h <= tall
  BY <1>1, OfTwo
<1>3. Past(c, w, h) = [x |-> c.x + w + 1, y |-> c.y, row_height |-> tall]
  BY DEF Past
<1> HIDE DEF tall
<1>4. At(c, w, h) \in Rects
  BY <1>1 DEF At, Rects
<1>5. Past(c, w, h) \in Cursors
  BY <1>1, <1>2, <1>3 DEF Cursors
<1>6. Behind(At(c, w, h), Past(c, w, h))
  BY <1>1, <1>2, <1>3 DEF At, Behind
<1>7. ASSUME NEW r \in Rects, Behind(r, c)
      PROVE  Behind(r, Past(c, w, h)) /\ Apart(r, At(c, w, h))
  <2>1. r.x \in Nat /\ r.y \in Nat /\ r.w \in Nat /\ r.h \in Nat
    BY DEF Rects
  <2>2. CASE r.y + r.h < c.y
    BY <1>1, <1>3, <2>1, <2>2 DEF Behind, Apart, At
  <2>3. CASE r.y = c.y /\ r.x + r.w < c.x /\ r.h <= c.row_height
    <3>1. r.x + r.w < c.x + w + 1 /\ r.h <= tall
      BY <1>1, <1>2, <2>1, <2>3
    <3> QED BY <1>3, <2>3, <3>1 DEF Behind, Apart, At
  <2> QED BY <1>7, <2>2, <2>3 DEF Behind
<1> QED BY <1>4, <1>5, <1>6, <1>7

-----------------------------------------------------------------------------
(***************************************************************************)
(* The caches.                                                             *)
(***************************************************************************)

\* The elements of the sequences c[k].
LEMMA ElementsAre ==
  ASSUME NEW c, NEW e
  PROVE  e \in UNION {{c[k][i] : i \in DOMAIN c[k]} : k \in Kinds} <=>
           \E k \in Kinds : \E i \in DOMAIN c[k] : e = c[k][i]
<1> DEFINE of(k) == {c[k][i] : i \in DOMAIN c[k]}
<1>1. \A k : e \in of(k) <=> \E i \in DOMAIN c[k] : e = c[k][i]
  OBVIOUS
<1>2. e \in UNION {of(k) : k \in Kinds} <=> \E k \in Kinds : e \in of(k)
  <2> HIDE DEF of
  <2> QED OBVIOUS
<1>3. (\E k \in Kinds : e \in of(k)) <=> \E k \in Kinds : \E i \in DOMAIN c[k] : e = c[k][i]
  <2> HIDE DEF of
  <2> QED BY <1>1
<1> QED BY <1>2, <1>3

\* The entries of the next state are among those its caches are built from.
LEMMA EntriesWithin ==
  ASSUME NEW S, cache' \in [Kinds -> Seq(S)]
  PROVE  CacheEntries' \subseteq S /\ CachesOK'
<1>1. ASSUME NEW k \in Kinds
      PROVE  /\ cache'[k] \in Seq(S)
             /\ DOMAIN cache'[k] = 1 .. Len(cache'[k]) /\ Len(cache'[k]) \in Nat
             /\ \A i \in DOMAIN cache'[k] : cache'[k][i] \in S
  OBVIOUS
<1>2. CacheEntries' \subseteq S
  BY <1>1, ElementsAre DEF CacheEntries
<1>3. ASSUME NEW k \in Kinds
      PROVE  cache'[k] \in Seq(CacheEntries')
  <2>1. \A i \in DOMAIN cache'[k] : cache'[k][i] \in CacheEntries'
    BY ElementsAre DEF CacheEntries
  <2>2. DOMAIN cache'[k] = 1 .. Len(cache'[k]) /\ cache'[k] \in Seq(S)
    BY <1>1
  <2> QED BY <2>1, <2>2
<1>4. cache' \in [Kinds -> Seq(CacheEntries')]
  BY <1>3
<1> QED BY <1>2, <1>4 DEF CachesOK

\* Whatever the budgets, what is left is the new entry and some of the old.
LEMMA BudgetKeeps ==
  ASSUME NEW S, NEW entries \in Seq(S), NEW entry \in S, NEW sum
  PROVE  insert_with_area_budget(entries, sum, entry).entries \in Seq(S)
<1> DEFINE full   == Len(entries) = lru_cap(size)
           old    == IF full THEN Front(entries) ELSE entries
           pushed == <<entry>> \o old
           total  == Saturating(sum - IF full THEN rect_area(Last(entries)) ELSE 0)
                       + rect_area(entry)
           left(n) == Saturating(total - AreaOf(SubSeq(pushed, n + 1, Len(pushed))))
           few    == {n \in 1 .. Len(pushed) : left(n) <= Usable(size)}
           kept   == Max({1} \cup few)
<1>1. insert_with_area_budget(entries, sum, entry).entries = SubSeq(pushed, 1, kept)
  BY DEF insert_with_area_budget
<1>2. Front(entries) \in Seq(S)
  BY DEF Front
<1>3. old \in Seq(S)
  BY <1>2
<1>4. pushed \in Seq(S) /\ Len(pushed) \in Nat /\ 1 <= Len(pushed)
  <2> HIDE DEF old
  <2>1. <<entry>> \in Seq(S) /\ Len(<<entry>>) = 1
    OBVIOUS
  <2>2. pushed \in Seq(S) /\ Len(pushed) = 1 + Len(old)
    BY <1>3, <2>1, ConcatProperties
  <2>3. Len(old) \in Nat
    BY <1>3
  <2> QED BY <2>2, <2>3
<1>5. few \subseteq 1 .. Len(pushed)
  OBVIOUS
<1> HIDE DEF pushed, few, kept
<1>6. {1} \cup few \in SUBSET (1 .. Len(pushed)) /\ {1} \cup few # {}
  BY <1>4, <1>5
<1>7. kept \in 1 .. Len(pushed)
  <2>1. kept \in {1} \cup few
    BY <1>4, <1>6, MaxProperty DEF kept
  <2> QED BY <1>6, <2>1
<1>8. SubSeq(pushed, 1, kept) \in Seq(S)
  BY <1>4, <1>7
<1> QED BY <1>1, <1>8

\* A hit finds an entry, and moves it.
LEMMA HitMoves ==
  ASSUME CachesOK, NEW kind \in Kinds, NEW key, NEW bitmap, Hit(kind, key, bitmap)
  PROVE  /\ cache' \in [Kinds -> Seq(CacheEntries)]
         /\ \E e \in CacheEntries :
              used' = used \cup {[asked |-> bitmap, bitmap |-> e.bitmap, rect |-> e.rect]}
<1> DEFINE s == cache[kind]
           I == {j \in 1 .. Len(s) : s[j].key = key}
           i == Min(I)
           e == s[i]
<1>1. s \in Seq(CacheEntries) /\ DOMAIN s = 1 .. Len(s) /\ Len(s) \in Nat
  BY DEF CachesOK
<1>2. I \in SUBSET Nat /\ I # {}
  BY <1>1 DEF Hit, Cached
<1>3. i \in 1 .. Len(s)
  BY <1>2, MinProperty
<1>4. /\ cache' = [cache EXCEPT ![kind] = <<e>> \o RemoveAt(s, i)]
      /\ used' = used \cup {[asked |-> bitmap, bitmap |-> e.bitmap, rect |-> e.rect]}
  BY <1>2 DEF Hit, SelectInSeq
<1> HIDE DEF I, i
<1>5. e \in CacheEntries
  BY <1>1, <1>3
<1>6. RemoveAt(s, i) \in Seq(CacheEntries)
  <2>1. SubSeq(s, 1, i - 1) \in Seq(CacheEntries) /\ SubSeq(s, i + 1, Len(s)) \in Seq(CacheEntries)
    BY <1>1, <1>3
  <2> QED BY <2>1 DEF RemoveAt
<1>7. <<e>> \o RemoveAt(s, i) \in Seq(CacheEntries)
  BY <1>5, <1>6
<1>8. cache' \in [Kinds -> Seq(CacheEntries)]
  BY <1>4, <1>7 DEF CachesOK
<1> QED BY <1>4, <1>5, <1>8

-----------------------------------------------------------------------------
(***************************************************************************)
(* The sum of the areas of a sequence of entries.  AreaOf is a fold, and a *)
(* fold a recursive function over sets of positions: that the function     *)
(* exists, and what it returns, is shown by induction on how many          *)
(* positions there are.                                                    *)
(***************************************************************************)

\* What the fold computes over the sets of the first k positions.
Sums(g, s, k) ==
  g = [t \in SUBSET (1 .. k) |->
         IF t = {} THEN 0 ELSE g[t \ {Max(t)}] + rect_area(s[Max(t)])]

LEMMA SumsExist ==
  ASSUME NEW s, NEW N \in Nat
  PROVE  \E g : Sums(g, s, N)
<1> DEFINE K == {k \in 0 .. N : \E g : Sums(g, s, k)}
<1>1. 0 \in K
  <2> DEFINE g == [t \in SUBSET (1 .. 0) |-> 0]
  <2>1. \A t \in SUBSET (1 .. 0) : t = {}
    OBVIOUS
  <2>2. Sums(g, s, 0)
    BY <2>1 DEF Sums
  <2> QED BY <2>2
<1>2. ASSUME NEW k \in 0 .. N, k \in K, k < N PROVE k + 1 \in K
  <2>1. PICK g : Sums(g, s, k)
    BY <1>2
  <2> DEFINE h == [t \in SUBSET (1 .. k + 1) |->
                     IF k + 1 \in t THEN g[t \ {k + 1}] + rect_area(s[k + 1]) ELSE g[t]]
  <2>2. ASSUME NEW t \in SUBSET (1 .. k)
        PROVE  /\ t \in SUBSET (1 .. k + 1) /\ k + 1 \notin t /\ h[t] = g[t]
               /\ g[t] = IF t = {} THEN 0 ELSE g[t \ {Max(t)}] + rect_area(s[Max(t)])
    <3>1. t \in SUBSET (1 .. k + 1) /\ k + 1 \notin t
      OBVIOUS
    <3>2. h[t] = g[t]
      BY <3>1
    <3>3. g[t] = IF t = {} THEN 0 ELSE g[t \ {Max(t)}] + rect_area(s[Max(t)])
      BY <2>1 DEF Sums
    <3> HIDE DEF h
    <3> QED BY <3>1, <3>2, <3>3
  <2>3. ASSUME NEW t \in SUBSET (1 .. k + 1)
        PROVE  h[t] = IF t = {} THEN 0 ELSE h[t \ {Max(t)}] + rect_area(s[Max(t)])
    <3>1. CASE k + 1 \in t
      <4>1. Max(t) = k + 1
        BY <3>1, MaxIs
      <4>2. t \ {k + 1} \in SUBSET (1 .. k)
        OBVIOUS
      <4>3. h[t \ {k + 1}] = g[t \ {k + 1}]
        BY <2>2, <4>2
      <4>4. h[t] = g[t \ {k + 1}] + rect_area(s[k + 1])
        BY <3>1
      <4> HIDE DEF h
      <4> QED BY <3>1, <4>1, <4>3, <4>4
    <3>2. CASE k + 1 \notin t
      <4>1. t \in SUBSET (1 .. k)
        BY <3>2
      <4>2. t \ {Max(t)} \in SUBSET (1 .. k)
        BY <4>1
      <4> HIDE DEF h
      <4> QED BY <2>2, <4>1, <4>2
    <3> QED BY <3>1, <3>2
  <2>4. h = [t \in SUBSET (1 .. k + 1) |->
               IF t = {} THEN 0 ELSE h[t \ {Max(t)}] + rect_area(s[Max(t)])]
    BY <2>3
  <2>5. Sums(h, s, k + 1)
    BY <2>4 DEF Sums
  <2> QED BY <1>2, <2>5
<1> HIDE DEF K
<1>3. N \in K
  BY <1>1, <1>2, Counting
<1> QED BY <1>3 DEF K

\* The sums over the first positions: each is the one before and one more area.
Partial(P, s) ==
  /\ P \in [0 .. Len(s) -> Nat]
  /\ P[0] = 0
  /\ \A n \in 1 .. Len(s) : P[n] = P[n - 1] + rect_area(s[n])

LEMMA AreaIsPartial ==
  ASSUME NEW S, \A e \in S : rect_area(e) \in Nat, NEW s \in Seq(S)
  PROVE  \E P : Partial(P, s) /\ AreaOf(s) = P[Len(s)]
<1> DEFINE N == Len(s)
           g == CHOOSE g : Sums(g, s, N)
           P == [k \in 0 .. N |-> g[1 .. k]]
<1>1. N \in Nat /\ DOMAIN s = 1 .. N /\ \A n \in 1 .. N : rect_area(s[n]) \in Nat
  OBVIOUS
<1>2. Sums(g, s, N)
  BY <1>1, SumsExist
<1>3. AreaOf(s) = g[1 .. N]
  BY <1>1 DEF AreaOf, FoldLeft, MapThenFoldSet, Sums
<1> HIDE DEF g, N
<1>4. \A t \in SUBSET (1 .. N) :
        g[t] = IF t = {} THEN 0 ELSE g[t \ {Max(t)}] + rect_area(s[Max(t)])
  BY <1>2 DEF Sums
<1>5. P[0] = 0
  <2>1. 1 .. 0 = {} /\ {} \in SUBSET (1 .. N)
    OBVIOUS
  <2>2. g[1 .. 0] = 0
    BY <1>4, <2>1
  <2>3. 0 \in 0 .. N
    BY <1>1
  <2> QED BY <2>2, <2>3
<1>6. ASSUME NEW n \in 1 .. N PROVE P[n] = P[n - 1] + rect_area(s[n])
  <2>1. 1 .. n \in SUBSET (1 .. N) /\ 1 .. n # {} /\ n \in 1 .. n
    BY <1>1
  <2>2. Max(1 .. n) = n
    <3>1. n - 1 \in Nat /\ n - 1 + 1 = n
      BY <1>1
    <3> QED BY <2>1, <3>1, MaxIs
  <2>3. (1 .. n) \ {n} = 1 .. n - 1
    BY <1>1
  <2>4. g[1 .. n] = g[1 .. n - 1] + rect_area(s[n])
    BY <1>4, <2>1, <2>2, <2>3
  <2>5. n \in 0 .. N /\ n - 1 \in 0 .. N
    BY <1>1
  <2> QED BY <2>4, <2>5
<1>7. P \in [0 .. N -> Nat]
  <2> DEFINE K == {k \in 0 .. N : P[k] \in Nat}
  <2>1. 0 \in K
    BY <1>1, <1>5
  <2>2. ASSUME NEW k \in 0 .. N, k \in K, k < N PROVE k + 1 \in K
    <3>1. k + 1 \in 1 .. N /\ k + 1 - 1 = k
      BY <1>1, <2>2
    <3>2. P[k + 1] = P[k] + rect_area(s[k + 1])
      <4> HIDE DEF P
      <4> QED BY <1>6, <3>1
    <3> HIDE DEF P
    <3> QED BY <1>1, <2>2, <3>1, <3>2
  <2> HIDE DEF P
  <2>3. \A k \in 0 .. N : k \in K
    <3> HIDE DEF K
    <3> QED BY <1>1, <2>1, <2>2, Counting
  <2> QED BY <2>3 DEF P
<1>8. AreaOf(s) = P[N]
  <2>1. N \in 0 .. N
    BY <1>1
  <2> QED BY <1>3, <2>1
<1> HIDE DEF P
<1> QED BY <1>5, <1>6, <1>7, <1>8 DEF Partial, N

\* The area of one sequence after another, of none and of one entry.
LEMMA AreaConcat ==
  ASSUME NEW S, \A e \in S : rect_area(e) \in Nat, NEW s \in Seq(S), NEW t \in Seq(S)
  PROVE  AreaOf(s) \in Nat /\ AreaOf(s \o t) = AreaOf(s) + AreaOf(t)
<1> DEFINE m == Len(s)
           n == Len(t)
           u == s \o t
<1>1. m \in Nat /\ n \in Nat
  OBVIOUS
<1>2. /\ u \in Seq(S) /\ Len(u) = m + n
      /\ \A i \in 1 .. m + n : u[i] = IF i <= m THEN s[i] ELSE t[i - m]
  BY ConcatProperties
<1>3. PICK P : Partial(P, s) /\ AreaOf(s) = P[m]
  BY AreaIsPartial
<1>4. PICK Q : Partial(Q, t) /\ AreaOf(t) = Q[n]
  BY AreaIsPartial
<1>5. PICK R : Partial(R, u) /\ AreaOf(u) = R[m + n]
  <2> HIDE DEF u, m, n
  <2> QED BY <1>2, AreaIsPartial
<1>6. /\ P \in [0 .. m -> Nat] /\ P[0] = 0
      /\ \A i \in 1 .. m : P[i] = P[i - 1] + rect_area(s[i])
  BY <1>3 DEF Partial
<1>7. /\ Q \in [0 .. n -> Nat] /\ Q[0] = 0
      /\ \A i \in 1 .. n : Q[i] = Q[i - 1] + rect_area(t[i])
  BY <1>4 DEF Partial
<1>8. /\ R[0] = 0
      /\ \A i \in 1 .. m + n : R[i] = R[i - 1] + rect_area(u[i])
  BY <1>2, <1>5 DEF Partial
<1> HIDE DEF m, n, u
<1> DEFINE K == {k \in 0 .. m : R[k] = P[k]}
           L == {k \in 0 .. n : R[m + k] = P[m] + Q[k]}
<1>9. \A k \in 0 .. m : k \in K
  <2>1. 0 \in K
    BY <1>1, <1>6, <1>8
  <2>2. ASSUME NEW k \in 0 .. m, k \in K, k < m PROVE k + 1 \in K
    <3>1. k + 1 \in 1 .. m /\ k + 1 \in 1 .. m + n /\ k + 1 - 1 = k /\ k + 1 \in 0 .. m
      BY <1>1, <2>2
    <3>2. P[k + 1] = P[k] + rect_area(s[k + 1])
      BY <1>6, <3>1
    <3>3. R[k + 1] = R[k] + rect_area(s[k + 1])
      BY <1>2, <1>8, <3>1
    <3> QED BY <2>2, <3>1, <3>2, <3>3
  <2> HIDE DEF K
  <2> QED BY <1>1, <2>1, <2>2, Counting
<1>10. R[m] = P[m] /\ P[m] \in Nat
  BY <1>1, <1>6, <1>9
<1>11. \A k \in 0 .. n : k \in L
  <2>1. 0 \in L
    BY <1>1, <1>7, <1>10
  <2>2. ASSUME NEW k \in 0 .. n, k \in L, k < n PROVE k + 1 \in L
    <3> DEFINE j == m + (k + 1)
    <3>1. k + 1 \in 1 .. n /\ k + 1 - 1 = k /\ k + 1 \in 0 .. n
      BY <1>1, <2>2
    <3>2. j \in 1 .. m + n /\ j - 1 = m + k /\ ~(j <= m) /\ j - m = k + 1
      BY <1>1, <2>2
    <3> HIDE DEF j
    <3>3. Q[k + 1] = Q[k] + rect_area(t[k + 1])
      BY <1>7, <3>1
    <3>4. R[j] = R[m + k] + rect_area(t[k + 1])
      <4>1. u[j] = t[k + 1]
        BY <1>2, <3>2
      <4> QED BY <1>8, <3>2, <4>1
    <3>5. t[k + 1] \in S
      BY <3>1 DEF n
    <3>6. rect_area(t[k + 1]) \in Nat /\ Q[k] \in Nat
      BY <1>1, <1>7, <2>2, <3>5
    <3>7. R[j] = P[m] + Q[k + 1]
      BY <1>10, <2>2, <3>3, <3>4, <3>6
    <3> QED BY <3>1, <3>7 DEF j
  <2> HIDE DEF L
  <2> QED BY <1>1, <2>1, <2>2, Counting
<1>12. R[m + n] = P[m] + Q[n]
  BY <1>1, <1>11
<1> QED BY <1>3, <1>4, <1>5, <1>10, <1>12 DEF u

LEMMA AreaOfFew ==
  /\ AreaOf(<< >>) = 0
  /\ \A e : rect_area(e) \in Nat => AreaOf(<<e>>) = rect_area(e)
<1>1. AreaOf(<< >>) = 0
  <2>1. << >> \in Seq({}) /\ Len(<< >>) = 0
    OBVIOUS
  <2>2. \E P : Partial(P, << >>) /\ AreaOf(<< >>) = P[0]
    BY <2>1, AreaIsPartial
  <2> QED BY <2>2 DEF Partial
<1>2. ASSUME NEW e, rect_area(e) \in Nat PROVE AreaOf(<<e>>) = rect_area(e)
  <2>1. <<e>> \in Seq({e}) /\ Len(<<e>>) = 1 /\ <<e>>[1] = e
    OBVIOUS
  <2>2. PICK P : Partial(P, <<e>>) /\ AreaOf(<<e>>) = P[1]
    BY <1>2, <2>1, AreaIsPartial
  <2>3. P[0] = 0 /\ P[1] = P[1 - 1] + rect_area(e)
    BY <2>1, <2>2 DEF Partial
  <2>4. 1 - 1 = 0
    OBVIOUS
  <2> QED BY <1>2, <2>2, <2>3, <2>4
<1> QED BY <1>1, <1>2

\* An entry that moves to the front leaves the sum as it is.
LEMMA AreaMoved ==
  ASSUME NEW S, \A e \in S : rect_area(e) \in Nat, NEW s \in Seq(S), NEW i \in 1 .. Len(s)
  PROVE  /\ AreaOf(<<s[i]>> \o RemoveAt(s, i)) = AreaOf(s)
         /\ Len(<<s[i]>> \o RemoveAt(s, i)) = Len(s)
<1> DEFINE e == s[i]
           a == SubSeq(s, 1, i - 1)
           b == SubSeq(s, i, Len(s))
           c == SubSeq(s, i + 1, Len(s))
<1>1. Len(s) \in Nat /\ i \in Nat /\ i - 1 \in 0 .. Len(s) /\ i - 1 + 1 = i /\ e \in S
  OBVIOUS
<1>2. a \in Seq(S) /\ b \in Seq(S) /\ Len(a) = i - 1 /\ s = a \o b
  BY <1>1, CutInTwo
<1>3. c \in Seq(S) /\ Len(c) = Len(s) - i /\ \A j \in 1 .. Len(s) - i : c[j] = s[i + j]
  <2>1. i + 1 \in 1 .. Len(s) + 1
    BY <1>1
  <2> QED BY <1>1, <2>1, SubSeqProperties
<1>4. Len(b) = Len(s) - i + 1 /\ \A j \in 1 .. Len(s) - i + 1 : b[j] = s[i + j - 1]
  <2>1. i \in Int /\ Len(s) \in Int /\ i <= Len(s) /\ \A j \in i .. Len(s) : s[j] \in S
    BY <1>1
  <2> QED BY ONLY <2>1, SubSeqProperties
<1>5. RemoveAt(s, i) = a \o c
  BY DEF RemoveAt
<1> HIDE DEF a, b, c, e
<1>6. <<e>> \in Seq(S) /\ Len(<<e>>) = 1 /\ <<e>>[1] = e
  BY <1>1
<1>7. b = <<e>> \o c
  <2>1. /\ <<e>> \o c \in Seq(S) /\ Len(<<e>> \o c) = Len(<<e>>) + Len(c)
        /\ \A j \in 1 .. Len(<<e>>) + Len(c) :
             (<<e>> \o c)[j] = IF j <= Len(<<e>>) THEN <<e>>[j] ELSE c[j - Len(<<e>>)]
    BY <1>3, <1>6, ConcatProperties
  <2>2. Len(b) = Len(<<e>> \o c)
    BY <1>1, <1>3, <1>4, <1>6, <2>1
  <2>3. ASSUME NEW j \in 1 .. Len(b) PROVE b[j] = (<<e>> \o c)[j]
    <3>1. j \in 1 .. Len(<<e>>) + Len(c) /\ b[j] = s[i + j - 1]
      BY <1>1, <1>3, <1>4, <1>6
    <3>2. CASE j = 1
      <4>1. i + j - 1 = i /\ j <= Len(<<e>>)
        BY <1>1, <1>6, <3>2
      <4> QED BY <1>6, <2>1, <3>1, <3>2, <4>1 DEF e
    <3>3. CASE j # 1
      <4>1. j - 1 \in 1 .. Len(s) - i /\ i + (j - 1) = i + j - 1 /\ ~(j <= Len(<<e>>))
        BY <1>1, <1>4, <1>6, <3>3
      <4>2. (<<e>> \o c)[j] = c[j - 1] /\ c[j - 1] = s[i + (j - 1)]
        BY <1>3, <1>6, <2>1, <3>1, <4>1
      <4> QED BY <3>1, <4>1, <4>2
    <3> QED BY <3>2, <3>3
  <2> QED BY <1>2, <2>1, <2>2, <2>3, SeqEqual
<1>8. /\ AreaOf(s) = AreaOf(a) + AreaOf(b)
      /\ AreaOf(b) = AreaOf(<<e>>) + AreaOf(c)
      /\ AreaOf(a \o c) = AreaOf(a) + AreaOf(c)
      /\ AreaOf(a) \in Nat /\ AreaOf(c) \in Nat /\ AreaOf(<<e>>) \in Nat
  BY <1>2, <1>3, <1>6, <1>7, AreaConcat
<1>9. a \o c \in Seq(S) /\ Len(a \o c) = Len(s) - 1
  <2>1. a \o c \in Seq(S) /\ Len(a \o c) = Len(a) + Len(c)
    BY <1>2, <1>3, ConcatProperties
  <2> QED BY <1>1, <1>2, <1>3, <2>1
<1>10. AreaOf(<<e>> \o (a \o c)) = AreaOf(<<e>>) + AreaOf(a \o c)
  BY <1>6, <1>9, AreaConcat
<1>11. Len(<<e>> \o (a \o c)) = Len(s)
  <2>1. Len(<<e>> \o (a \o c)) = 1 + Len(a \o c)
    BY <1>6, <1>9, ConcatProperties
  <2> QED BY <1>1, <1>9, <2>1
<1>12. AreaOf(<<e>> \o (a \o c)) = AreaOf(s)
  BY <1>8, <1>10
<1> QED BY <1>5, <1>11, <1>12 DEF e

\* The sum and the number of entries after the budgets were enforced.
LEMMA BudgetCounts ==
  ASSUME NEW S, \A e \in S : rect_area(e) \in Nat,
         NEW entries \in Seq(S), NEW entry \in S,
         lru_cap(size) \in Nat \ {0}, Len(entries) <= lru_cap(size)
  PROVE  LET r == insert_with_area_budget(entries, AreaOf(entries), entry)
         IN  /\ r.area = AreaOf(r.entries)
             /\ Len(r.entries) <= lru_cap(size)
             /\ r.area <= Usable(size) \/ Len(r.entries) <= 1
<1> DEFINE cap    == lru_cap(size)
           sum    == AreaOf(entries)
           full   == Len(entries) = cap
           old    == IF full THEN Front(entries) ELSE entries
           pushed == <<entry>> \o old
           total  == Saturating(sum - IF full THEN rect_area(Last(entries)) ELSE 0)
                       + rect_area(entry)
           left(n) == Saturating(total - AreaOf(SubSeq(pushed, n + 1, Len(pushed))))
           few    == {n \in 1 .. Len(pushed) : left(n) <= Usable(size)}
           kept   == Max({1} \cup few)
           r      == insert_with_area_budget(entries, sum, entry)
<1>1. r = [entries |-> SubSeq(pushed, 1, kept), area |-> left(kept)]
  BY DEF insert_with_area_budget
<1>2. /\ old \in Seq(S) /\ Len(old) + 1 <= cap
      /\ Saturating(sum - IF full THEN rect_area(Last(entries)) ELSE 0) = AreaOf(old)
  <2>1. Len(entries) \in Nat /\ cap \in Nat /\ cap >= 1 /\ Len(entries) <= cap
    OBVIOUS
  <2>2. sum \in Nat
    BY AreaConcat
  <2>3. CASE full
    <3> DEFINE m == Len(entries) - 1
               a == SubSeq(entries, 1, m)
               b == SubSeq(entries, m + 1, Len(entries))
    <3>1. m \in 0 .. Len(entries) /\ m + 1 = Len(entries) /\ Len(entries) \in 1 .. Len(entries)
      BY <2>1, <2>3
    <3>2. a \in Seq(S) /\ b \in Seq(S) /\ Len(a) = m /\ entries = a \o b
      BY <3>1, CutInTwo
    <3>3. old = a
      BY <2>3 DEF Front
    <3>4. b = <<Last(entries)>> /\ Last(entries) \in S
      <4>1. Last(entries) = entries[Len(entries)] /\ Last(entries) \in S
        BY <3>1 DEF Last
      <4>2. b = SubSeq(entries, Len(entries), Len(entries))
        BY <3>1
      <4>3. /\ Len(entries) \in Int /\ \A j \in Len(entries) .. Len(entries) : entries[j] \in S
            /\ Len(entries) - Len(entries) + 1 = 1 /\ Len(entries) + 1 - 1 = Len(entries)
        BY <3>1
      <4> HIDE DEF b
      <4>4. Len(b) = 1 /\ b[1] = entries[Len(entries)]
        BY <2>1, <4>2, <4>3, SubSeqProperties
      <4>5. /\ <<Last(entries)>> \in Seq(S) /\ Len(<<Last(entries)>>) = 1
            /\ <<Last(entries)>>[1] = Last(entries)
        BY <4>1
      <4>6. \A j \in 1 .. Len(b) : b[j] = <<Last(entries)>>[j]
        BY <4>1, <4>4, <4>5
      <4> QED BY <3>2, <4>1, <4>4, <4>5, <4>6, SeqEqual
    <3> HIDE DEF a, b, m, old, sum, cap
    <3>5. /\ AreaOf(a) \in Nat /\ AreaOf(entries) = AreaOf(a) + AreaOf(b)
          /\ AreaOf(b) = rect_area(Last(entries)) /\ rect_area(Last(entries)) \in Nat
      BY <3>2, <3>4, AreaConcat, AreaOfFew
    <3>6. sum - rect_area(Last(entries)) = AreaOf(a)
      BY <3>5 DEF sum
    <3>7. Saturating(AreaOf(a)) = AreaOf(a)
      BY <3>5 DEF Saturating
    <3>8. Len(a) + 1 <= cap
      BY <2>1, <3>1, <3>2
    <3> QED BY <2>3, <3>2, <3>3, <3>6, <3>7, <3>8
  <2>4. CASE ~full
    <3>1. old = entries /\ Len(entries) + 1 <= cap
      BY <2>1, <2>4
    <3>2. Saturating(sum - 0) = sum
      BY <2>2 DEF Saturating
    <3> QED BY <2>4, <3>1, <3>2
  <2> QED BY <2>3, <2>4
<1>3. cap \in Nat
  OBVIOUS
<1> HIDE DEF old, cap
<1>4. total = AreaOf(old) + rect_area(entry)
  BY <1>2
<1>5. /\ pushed \in Seq(S) /\ Len(pushed) = Len(old) + 1 /\ Len(old) \in Nat
      /\ AreaOf(pushed) = total
  <2>1. <<entry>> \in Seq(S) /\ Len(<<entry>>) = 1
    OBVIOUS
  <2>2. pushed \in Seq(S) /\ Len(pushed) = 1 + Len(old) /\ Len(old) \in Nat
    BY <1>2, <2>1, ConcatProperties
  <2>3. AreaOf(pushed) = AreaOf(<<entry>>) + AreaOf(old) /\ AreaOf(old) \in Nat
    BY <1>2, <2>1, AreaConcat
  <2>4. AreaOf(<<entry>>) = rect_area(entry) /\ rect_area(entry) \in Nat
    BY AreaOfFew
  <2> QED BY <1>4, <2>2, <2>3, <2>4
<1> HIDE DEF pushed, total
<1>6. ASSUME NEW n \in 1 .. Len(pushed)
      PROVE  left(n) = AreaOf(SubSeq(pushed, 1, n)) /\ Len(SubSeq(pushed, 1, n)) = n
  <2>1. n \in 0 .. Len(pushed)
    BY <1>5
  <2> DEFINE a == SubSeq(pushed, 1, n)
             b == SubSeq(pushed, n + 1, Len(pushed))
  <2>2. a \in Seq(S) /\ b \in Seq(S) /\ Len(a) = n /\ pushed = a \o b
    BY <1>5, <2>1, CutInTwo
  <2>3. left(n) = Saturating(total - AreaOf(b))
    OBVIOUS
  <2> HIDE DEF a, b, left
  <2>4. total = AreaOf(a) + AreaOf(b) /\ AreaOf(a) \in Nat /\ AreaOf(b) \in Nat
    BY <1>5, <2>2, AreaConcat
  <2>5. left(n) = AreaOf(a)
    BY <2>3, <2>4 DEF Saturating
  <2> QED BY <2>2, <2>5 DEF a
<1> HIDE DEF left
<1>7. few \subseteq 1 .. Len(pushed) /\ \A n \in few : left(n) <= Usable(size)
  OBVIOUS
<1>8. Len(pushed) \in Nat /\ 1 \in 1 .. Len(pushed)
  BY <1>5
<1> HIDE DEF few
<1>9. kept \in {1} \cup few /\ kept \in 1 .. Len(pushed)
  <2>1. {1} \cup few \in SUBSET (1 .. Len(pushed)) /\ {1} \cup few # {}
    BY <1>7, <1>8
  <2>2. kept \in {1} \cup few
    BY <1>8, <2>1, MaxProperty
  <2> QED BY <2>1, <2>2
<1> HIDE DEF kept
<1>10. /\ left(kept) = AreaOf(SubSeq(pushed, 1, kept))
       /\ Len(SubSeq(pushed, 1, kept)) = kept
  BY <1>6, <1>9
<1>11. kept <= cap
  BY <1>2, <1>3, <1>5, <1>9
<1>12. left(kept) <= Usable(size) \/ kept <= 1
  BY <1>7, <1>9
<1> HIDE DEF r
<1>13. r.entries = SubSeq(pushed, 1, kept) /\ r.area = left(kept)
  BY <1>1
<1>14. /\ r.area = AreaOf(r.entries)
       /\ Len(r.entries) <= cap
       /\ r.area <= Usable(size) \/ Len(r.entries) <= 1
  BY <1>10, <1>11, <1>12, <1>13
<1> QED BY <1>14 DEF r, cap, sum

-----------------------------------------------------------------------------
(***************************************************************************)
(* The steps.                                                              *)
(***************************************************************************)

\* An atlas without entries, and a frame that was told nothing.
LEMMA NothingYet ==
  ASSUME cache = NoCacheEntries
  PROVE  CachesOK /\ EntriesOK /\ RectsKeepApart
<1>1. \A k \in Kinds : DOMAIN cache[k] = {}
  BY DEF NoCacheEntries
<1>2. \A e : e \notin CacheEntries
  BY <1>1, ElementsAre DEF CacheEntries
<1>3. CachesOK
  BY DEF CachesOK, NoCacheEntries
<1> QED BY <1>2, <1>3 DEF EntriesOK, RectsKeepApart

LEMMA InitPlaced == ASSUME AtlasAssumption, AtlasInit PROVE PlacedOK
<1>1. TextureOK
  BY DEF AtlasInit, TextureOK, AtlasAssumption, Cleared, Origin, Cursors
<1>2. CachesOK /\ EntriesOK /\ RectsKeepApart
  BY NothingYet DEF AtlasInit
<1>3. UsedOK
  BY DEF AtlasInit, UsedOK
<1> QED BY <1>1, <1>2, <1>3 DEF PlacedOK

LEMMA FreshStep ==
  ASSUME AtlasAssumption, NEW sz \in Nat, SizeInit <= sz, Fresh(sz)
  PROVE  PlacedOK'
<1>1. TextureOK'
  BY DEF Fresh, TextureOK, Cleared, Origin, Cursors
<1>2. cache' = NoCacheEntries => CachesOK' /\ EntriesOK' /\ RectsKeepApart'
  <2>1. (cache = NoCacheEntries => CachesOK /\ EntriesOK /\ RectsKeepApart)'
    BY NothingYet, PTL
  <2>2. NoCacheEntries' = NoCacheEntries
    BY DEF NoCacheEntries
  <2> QED BY <2>1, <2>2
<1>3. UsedOK'
  BY DEF Fresh, UsedOK
<1> QED BY <1>1, <1>2, <1>3 DEF PlacedOK, Fresh

LEMMA NextFrameStep == ASSUME AtlasAssumption, PlacedOK, NextFrame PROVE PlacedOK'
<1>1. CASE needs_grow
  <2>1. size \in Nat /\ SizeInit \in Nat /\ SizeMax \in Nat /\ SizeInit <= size
        /\ SizeInit <= SizeMax
    BY DEF PlacedOK, TextureOK, AtlasAssumption
  <2>2. Min({size * 2, SizeMax}) \in {size * 2, SizeMax}
    <3>1. size * 2 \in Nat
      BY <2>1
    <3> QED BY <2>1, <3>1, OfTwo
  <2>3. Min({size * 2, SizeMax}) \in Nat /\ SizeInit <= Min({size * 2, SizeMax})
    BY <2>1, <2>2
  <2> QED BY <1>1, <2>3, FreshStep DEF NextFrame
<1>2. CASE ~needs_grow
  <2>1. UNCHANGED <<size, pixels, cursor, cache>> /\ used' = {}
    BY <1>2 DEF NextFrame, texture
  <2>2. TextureOK' /\ CachesOK' /\ EntriesOK' /\ RectsKeepApart'
    <3>1. CacheEntries' = CacheEntries
      BY <2>1 DEF CacheEntries
    <3>2. TextureOK'
      BY <2>1 DEF PlacedOK, TextureOK
    <3>3. CachesOK'
      BY <2>1, <3>1 DEF PlacedOK, CachesOK
    <3>4. EntriesOK' /\ RectsKeepApart'
      BY <2>1, <3>1 DEF PlacedOK, EntriesOK, RectsKeepApart
    <3> QED BY <3>2, <3>3, <3>4
  <2>3. UsedOK'
    BY <2>1 DEF UsedOK
  <2> QED BY <2>2, <2>3 DEF PlacedOK
<1> QED BY <1>1, <1>2

\* A hit tells the frame what an entry says.
LEMMA HitStep ==
  ASSUME PlacedOK, NEW kind \in Kinds, NEW key, NEW bitmap, Hit(kind, key, bitmap)
  PROVE  PlacedOK'
<1>1. CachesOK /\ EntriesOK /\ UsedOK /\ TextureOK /\ RectsKeepApart
  BY DEF PlacedOK
<1>2. UNCHANGED <<size, pixels, cursor, cleared_this_frame>>
  BY DEF Hit, texture
<1>3. cache' \in [Kinds -> Seq(CacheEntries)]
  BY <1>1, HitMoves
<1>4. CacheEntries' \subseteq CacheEntries /\ CachesOK'
  BY <1>3, EntriesWithin
<1>5. EntriesOK' /\ RectsKeepApart'
  BY <1>1, <1>2, <1>4 DEF EntriesOK, RectsKeepApart
<1>6. PICK e \in CacheEntries :
        used' = used \cup {[asked |-> bitmap, bitmap |-> e.bitmap, rect |-> e.rect]}
  BY <1>1, HitMoves
<1>7. Stands(pixels, size, cursor, e.rect, e.bitmap)
  BY <1>1 DEF EntriesOK
<1>8. UsedOK'
  BY <1>1, <1>2, <1>6, <1>7 DEF UsedOK
<1>9. TextureOK'
  BY <1>1, <1>2 DEF TextureOK
<1> QED BY <1>4, <1>5, <1>8, <1>9 DEF PlacedOK

\* What is written at the cursor shows its bitmap, and takes no pixel of what
\* the cursor has passed.
LEMMA WriteShows ==
  ASSUME NEW px, NEW sz \in Nat, DOMAIN px = (0 .. sz - 1) \X (0 .. sz - 1),
         NEW c \in Cursors, NEW w \in Nat \ {0}, NEW h \in Nat \ {0}, NEW bitmap,
         c.x + w <= sz, c.y + h <= sz, NEW written,
         written = [p \in DOMAIN px |-> IF p \in Pixels(At(c, w, h)) THEN bitmap ELSE px[p]]
  PROVE  /\ Stands(written, sz, Past(c, w, h), At(c, w, h), bitmap)
         /\ \A r, b : Stands(px, sz, c, r, b) =>
              Stands(written, sz, Past(c, w, h), r, b) /\ Apart(r, At(c, w, h))
<1> DEFINE rect == At(c, w, h)
<1>1. /\ rect \in Rects /\ Past(c, w, h) \in Cursors /\ Behind(rect, Past(c, w, h))
      /\ \A r \in Rects : Behind(r, c) => Behind(r, Past(c, w, h)) /\ Apart(r, rect)
  BY Placed
<1>2. Inside(rect, sz)
  BY DEF At, Inside
<1> HIDE DEF rect
<1>3. Pixels(rect) \subseteq DOMAIN px
  BY <1>1, <1>2, InsidePixels
<1>4. /\ \A p \in Pixels(rect) : written[p] = bitmap
      /\ \A p \in DOMAIN px : p \notin Pixels(rect) => written[p] = px[p]
  BY <1>3 DEF rect
<1>5. Stands(written, sz, Past(c, w, h), rect, bitmap)
  BY <1>1, <1>2, <1>4 DEF Stands, Shows
<1>6. ASSUME NEW r, NEW b, Stands(px, sz, c, r, b)
      PROVE  Stands(written, sz, Past(c, w, h), r, b) /\ Apart(r, rect)
  <2>1. r \in Rects /\ Inside(r, sz) /\ Behind(r, c) /\ Shows(px, r, b)
    BY <1>6 DEF Stands
  <2>2. Behind(r, Past(c, w, h)) /\ Apart(r, rect)
    BY <1>1, <2>1
  <2>3. \A p \in Pixels(r) : p \in DOMAIN px /\ p \notin Pixels(rect)
    BY <1>1, <2>1, <2>2, InsidePixels, ApartShareNone
  <2>4. Shows(written, r, b)
    BY <1>4, <2>1, <2>3 DEF Shows
  <2> QED BY <2>1, <2>2, <2>4 DEF Stands
<1> QED BY <1>5, <1>6 DEF rect

\* The bitmap that is inserted goes to the end of the row, to a row of its own,
\* or to a texture that is begun again.
LEMMA InsertStep ==
  ASSUME AtlasAssumption, PlacedOK, NEW kind \in Kinds, NEW key, NEW bitmap \in Bitmap,
         Insert(kind, key, bitmap)
  PROVE  PlacedOK'
<1> DEFINE w     == Width[bitmap]
           h     == Height[bitmap]
           next  == NextRow(cursor, w)
           full  == Full(next, h)
           at    == IF full THEN Origin ELSE next
           rect  == At(at, w, h)
           entry == [key |-> key, bitmap |-> bitmap, rect |-> rect]
           kept  == IF full THEN Emptied(kind) ELSE cache
           sums  == IF full THEN NoArea ELSE area
           added == insert_with_area_budget(kept[kind], sums[kind], entry)
           old   == IF full THEN {} ELSE CacheEntries
<1>1. /\ size \in Nat /\ SizeInit <= size /\ cursor \in Cursors
      /\ DOMAIN pixels = (0 .. size - 1) \X (0 .. size - 1)
      /\ CachesOK /\ EntriesOK /\ UsedOK /\ RectsKeepApart
  BY DEF PlacedOK, TextureOK
<1>2. w \in Nat \ {0} /\ h \in Nat \ {0} /\ w <= size /\ h <= size
  BY <1>1 DEF AtlasAssumption
<1>3. /\ size' = size
      /\ pixels' = [p \in DOMAIN pixels |-> IF p \in Pixels(rect) THEN bitmap ELSE pixels[p]]
      /\ cursor' = Past(at, w, h)
      /\ cache' = [kept EXCEPT ![kind] = added.entries]
      /\ cleared_this_frame' = (cleared_this_frame \/ full)
      /\ used' = used \cup {[asked |-> bitmap, bitmap |-> bitmap, rect |-> rect]}
  BY DEF Insert, At, Past, Begun
<1>4. /\ next \in Cursors /\ next.x + w <= size
      /\ \A r \in Rects : Behind(r, cursor) => Behind(r, next)
  BY <1>1, <1>2, NextRowIs
<1>5. at \in Cursors /\ at.x + w <= size /\ at.y + h <= size
  <2>1. CASE full
    BY <1>2, <2>1 DEF Origin, Cursors
  <2>2. CASE ~full
    BY <1>1, <1>2, <1>4, <2>2 DEF Full, Cursors
  <2> QED BY <2>1, <2>2
<1>6. cache' \in [Kinds -> Seq(old \cup {entry})]
  <2>1. kept \in [Kinds -> Seq(old)]
    BY <1>1 DEF CachesOK, Emptied, NoCacheEntries
  <2> HIDE DEF kept, sums, entry, old
  <2>2. kept \in [Kinds -> Seq(old \cup {entry})]
    BY <2>1
  <2>3. added.entries \in Seq(old \cup {entry})
    BY <2>2, BudgetKeeps
  <2> HIDE DEF added
  <2> QED BY <1>3, <2>2, <2>3
<1>7. entry.rect = rect /\ entry.bitmap = bitmap
  OBVIOUS
<1>8. old \subseteq CacheEntries /\ (full => old = {})
  OBVIOUS
<1>9. ~full => at = next
  OBVIOUS
<1> DEFINE Fits(r, b) == Stands(pixels', size', cursor', r, b)
<1>10. /\ Fits(rect, bitmap)
       /\ \A r, b : Stands(pixels, size, at, r, b) => Fits(r, b) /\ Apart(r, rect)
  <2> HIDE DEF w, h, at
  <2> QED BY <1>1, <1>2, <1>3, <1>5, WriteShows
<1> HIDE DEF w, h, next, full, at, rect, entry, kept, sums, added, old
<1>11. ASSUME NEW r, NEW b, Stands(pixels, size, cursor, r, b), ~full
       PROVE  Fits(r, b) /\ Apart(r, rect)
  <2>1. Stands(pixels, size, at, r, b)
    BY <1>4, <1>9, <1>11 DEF Stands
  <2> HIDE DEF Fits
  <2> QED BY <1>10, <2>1
<1>12. \A e \in old : Fits(e.rect, e.bitmap) /\ Apart(e.rect, rect)
  <2> HIDE DEF Fits
  <2> QED BY <1>1, <1>8, <1>11 DEF EntriesOK
<1>13. CacheEntries' \subseteq old \cup {entry} /\ CachesOK'
  BY <1>6, EntriesWithin
<1>14. EntriesOK'
  BY <1>7, <1>10, <1>12, <1>13 DEF EntriesOK
<1>15. UsedOK'
  <2>1. CASE full \/ cleared_this_frame
    BY <1>3, <2>1 DEF UsedOK
  <2>2. CASE ~full /\ ~cleared_this_frame
    <3>1. \A u \in used : Fits(u.rect, u.bitmap)
      <4> HIDE DEF Fits
      <4> QED BY <1>1, <1>11, <2>2 DEF UsedOK
    <3> QED BY <1>3, <1>10, <3>1 DEF UsedOK
  <2> QED BY <2>1, <2>2
<1>16. RectsKeepApart'
  <2>1. ASSUME NEW e \in CacheEntries', NEW f \in CacheEntries', e # f
        PROVE  Apart(e.rect, f.rect)
    <3>1. CASE e = entry
      <4>1. Apart(f.rect, rect)
        BY <1>12, <1>13, <2>1, <3>1
      <4> QED BY <1>7, <3>1, <4>1 DEF Apart
    <3>2. CASE f = entry
      BY <1>7, <1>12, <1>13, <2>1, <3>2
    <3>3. CASE e # entry /\ f # entry
      BY <1>1, <1>8, <1>13, <3>3, <2>1 DEF RectsKeepApart, Apart
    <3> QED BY <3>1, <3>2, <3>3
  <2> QED BY <2>1 DEF RectsKeepApart, Apart
<1>17. TextureOK'
  <2>1. cursor' \in Cursors
    BY <1>2, <1>3, <1>5, Placed
  <2> QED BY <1>1, <1>3, <2>1 DEF TextureOK
<1> QED BY <1>13, <1>14, <1>15, <1>16, <1>17 DEF PlacedOK

-----------------------------------------------------------------------------
(***************************************************************************)
(* The sums the budgets are about.                                         *)
(***************************************************************************)

CountedOK == PlacedOK /\ DOMAIN area = Kinds /\ AreaAccounted

\* The area of an entry is a number, and so is the capacity of a cache.
LEMMA EntryAreas == ASSUME EntriesOK PROVE \A e \in CacheEntries : rect_area(e) \in Nat
<1> SUFFICES ASSUME NEW e \in CacheEntries PROVE rect_area(e) \in Nat
  OBVIOUS
<1>1. e.rect \in Rects
  BY DEF EntriesOK, Stands
<1>2. e.rect.w \in Nat /\ e.rect.h \in Nat
  BY <1>1 DEF Rects
<1> QED BY <1>2 DEF rect_area

LEMMA CapacityIs ==
  ASSUME AtlasAssumption, NEW sz \in Nat
  PROVE  Usable(sz) \in Nat /\ lru_cap(sz) \in Nat \ {0}
<1>1. IconArea \in Nat /\ CellArea \in Nat \ {0} /\ MinEntries \in Nat \ {0}
  BY DEF AtlasAssumption
<1>2. Usable(sz) \in Nat
  <2>1. sz * sz - IconArea \in Int
    BY <1>1
  <2> QED BY <2>1 DEF Usable, Saturating
<1>3. Usable(sz) \div CellArea \in Nat
  BY <1>1, <1>2
<1>4. lru_cap(sz) \in Nat /\ MinEntries <= lru_cap(sz)
  BY <1>1, <1>3, OfTwo DEF lru_cap
<1> QED BY <1>1, <1>2, <1>4

LEMMA NothingCounted ==
  ASSUME AtlasAssumption, size \in Nat, cache = NoCacheEntries, area = NoArea
  PROVE  DOMAIN area = Kinds /\ AreaAccounted
<1>1. \A k \in Kinds : cache[k] = << >> /\ area[k] = 0
  BY DEF NoCacheEntries, NoArea
<1>2. Usable(size) \in Nat /\ lru_cap(size) \in Nat
  BY CapacityIs
<1>3. Len(<< >>) = 0
  OBVIOUS
<1>4. DOMAIN area = Kinds
  BY DEF NoArea
<1> QED BY <1>1, <1>2, <1>3, <1>4, AreaOfFew DEF AreaAccounted

LEMMA FreshCounted ==
  ASSUME AtlasAssumption, NEW sz \in Nat, Fresh(sz)
  PROVE  DOMAIN area' = Kinds /\ AreaAccounted'
<1>1. (AtlasAssumption /\ size \in Nat /\ cache = NoCacheEntries /\ area = NoArea
         => DOMAIN area = Kinds /\ AreaAccounted)'
  BY NothingCounted, PTL
<1>2. size' \in Nat /\ cache' = NoCacheEntries' /\ area' = NoArea'
  BY DEF Fresh, NoCacheEntries, NoArea
<1>3. AtlasAssumption'
  BY DEF AtlasAssumption
<1> QED BY <1>1, <1>2, <1>3

\* The entry of a hit moves to the front.
LEMMA HitCounted ==
  ASSUME CountedOK, NEW kind \in Kinds, NEW key, NEW bitmap, Hit(kind, key, bitmap)
  PROVE  DOMAIN area' = Kinds /\ AreaAccounted'
<1> DEFINE s == cache[kind]
           I == {j \in 1 .. Len(s) : s[j].key = key}
           i == Min(I)
<1>1. CachesOK /\ EntriesOK /\ AreaAccounted /\ DOMAIN area = Kinds
  BY DEF CountedOK, PlacedOK
<1>2. s \in Seq(CacheEntries) /\ DOMAIN s = 1 .. Len(s) /\ Len(s) \in Nat
  BY <1>1 DEF CachesOK
<1>3. I \in SUBSET Nat /\ I # {}
  BY <1>2 DEF Hit, Cached
<1>4. i \in 1 .. Len(s)
  BY <1>3, MinProperty
<1>5. /\ cache' = [cache EXCEPT ![kind] = <<s[i]>> \o RemoveAt(s, i)]
      /\ area' = area /\ size' = size
  BY <1>3 DEF Hit, SelectInSeq, texture
<1> HIDE DEF I, i
<1>6. /\ AreaOf(<<s[i]>> \o RemoveAt(s, i)) = AreaOf(s)
      /\ Len(<<s[i]>> \o RemoveAt(s, i)) = Len(s)
  BY <1>1, <1>2, <1>4, EntryAreas, AreaMoved
<1>7. \A k \in Kinds : AreaOf(cache'[k]) = AreaOf(cache[k]) /\ Len(cache'[k]) = Len(cache[k])
  BY <1>1, <1>5, <1>6 DEF CachesOK
<1> QED BY <1>1, <1>5, <1>7 DEF AreaAccounted

\* The cache of a new entry, emptied before when the texture was full, is
\* brought into its budget; the other one was in it or is empty.
LEMMA InsertCounted ==
  ASSUME AtlasAssumption, CountedOK, NEW kind \in Kinds, NEW key, NEW bitmap \in Bitmap,
         Insert(kind, key, bitmap)
  PROVE  DOMAIN area' = Kinds /\ AreaAccounted'
<1> DEFINE w     == Width[bitmap]
           h     == Height[bitmap]
           next  == NextRow(cursor, w)
           full  == Full(next, h)
           at    == IF full THEN Origin ELSE next
           rect  == [x |-> at.x, y |-> at.y, w |-> w, h |-> h]
           entry == [key |-> key, bitmap |-> bitmap, rect |-> rect]
           kept  == IF full THEN Emptied(kind) ELSE cache
           sums  == IF full THEN NoArea ELSE area
           added == insert_with_area_budget(kept[kind], sums[kind], entry)
           S     == CacheEntries \cup {entry}
<1>1. CachesOK /\ EntriesOK /\ AreaAccounted /\ DOMAIN area = Kinds /\ size \in Nat
      /\ SizeInit <= size
  BY DEF CountedOK, PlacedOK, TextureOK
<1>2. /\ size' = size
      /\ cache' = [kept EXCEPT ![kind] = added.entries]
      /\ area' = [sums EXCEPT ![kind] = added.area]
  BY DEF Insert
<1>3. \A e \in S : rect_area(e) \in Nat
  <2>1. w \in Nat /\ h \in Nat
    BY DEF AtlasAssumption
  <2>2. entry.rect.w = w /\ entry.rect.h = h
    OBVIOUS
  <2> HIDE DEF entry, w, h
  <2>3. rect_area(entry) \in Nat
    BY <2>1, <2>2 DEF rect_area
  <2> QED BY <1>1, <2>3, EntryAreas
<1> HIDE DEF entry, full
<1>4. /\ kept \in [Kinds -> Seq(S)] /\ DOMAIN sums = Kinds
      /\ \A k \in Kinds : /\ sums[k] = AreaOf(kept[k])
                          /\ Len(kept[k]) <= lru_cap(size)
                          /\ sums[k] <= Usable(size) \/ Len(kept[k]) <= 1
  <2>1. CASE full
    <3>1. kept = NoCacheEntries /\ sums = NoArea
      BY <2>1 DEF Emptied
    <3>2. \A k \in Kinds : kept[k] = << >> /\ sums[k] = 0
      BY <3>1 DEF NoCacheEntries, NoArea
    <3>3. kept \in [Kinds -> Seq(S)] /\ DOMAIN sums = Kinds
      <4> HIDE DEF kept, sums, S
      <4>1. << >> \in Seq(S)
        OBVIOUS
      <4> QED BY <3>1, <4>1 DEF NoCacheEntries, NoArea
    <3>4. lru_cap(size) \in Nat /\ Len(<< >>) = 0
      BY <1>1, CapacityIs
    <3> HIDE DEF kept, sums
    <3> QED BY <3>2, <3>3, <3>4, AreaOfFew
  <2>2. CASE ~full
    <3>1. kept = cache /\ sums = area
      BY <2>2
    <3>2. cache \in [Kinds -> Seq(S)]
      BY <1>1 DEF CachesOK
    <3> HIDE DEF kept, sums
    <3> QED BY <1>1, <3>1, <3>2 DEF AreaAccounted
  <2> QED BY <2>1, <2>2
<1>5. lru_cap(size) \in Nat \ {0} /\ entry \in S
  BY <1>1, CapacityIs
<1> HIDE DEF kept, sums
<1>6. added = insert_with_area_budget(kept[kind], AreaOf(kept[kind]), entry)
  BY <1>4
<1> HIDE DEF added, S
<1>7. /\ added.area = AreaOf(added.entries)
      /\ Len(added.entries) <= lru_cap(size)
      /\ added.area <= Usable(size) \/ Len(added.entries) <= 1
  <2>1. kept[kind] \in Seq(S) /\ Len(kept[kind]) <= lru_cap(size)
    BY <1>4
  <2> QED BY <1>3, <1>5, <1>6, <2>1, BudgetCounts
<1>8. ASSUME NEW k \in Kinds
      PROVE  /\ area'[k] = AreaOf(cache'[k])
             /\ Len(cache'[k]) <= lru_cap(size)
             /\ area'[k] <= Usable(size) \/ Len(cache'[k]) <= 1
  <2>1. CASE k = kind
    <3>1. cache'[k] = added.entries /\ area'[k] = added.area
      BY <1>2, <1>4, <2>1
    <3> QED BY <1>7, <3>1
  <2>2. CASE k # kind
    <3>1. cache'[k] = kept[k] /\ area'[k] = sums[k]
      BY <1>2, <1>4, <2>2
    <3> QED BY <1>4, <3>1
  <2> QED BY <2>1, <2>2
<1>9. DOMAIN area' = Kinds
  BY <1>2, <1>4
<1> QED BY <1>2, <1>8, <1>9 DEF AreaAccounted

-----------------------------------------------------------------------------
(***************************************************************************)
(* The theorems.                                                           *)
(***************************************************************************)

LEMMA StepPlaced == ASSUME AtlasAssumption, PlacedOK, [AtlasNext]_atlasVars PROVE PlacedOK'
<1>1. ASSUME NEW kind \in Kinds, NEW key, NEW bitmap \in Bitmap,
             get_or_insert(kind, key, bitmap)
      PROVE  PlacedOK'
  BY <1>1, HitStep, InsertStep DEF get_or_insert
<1>2. ASSUME NEW g \in Glyph, DrawGlyph(g) PROVE PlacedOK'
  BY <1>1, <1>2 DEF DrawGlyph, Kinds, Bitmap
<1>3. ASSUME NEW row \in Row, NEW col \in DOMAIN row, DrawLigature(row, col) PROVE PlacedOK'
  <2>1. row \in Seq(Char \cup {Blank})
    BY DEF AtlasAssumption
  <2>2. row[col] \in Bitmap
    BY <1>3, <2>1 DEF DrawLigature, Bitmap
  <2>3. "ligature" \in Kinds
    BY DEF Kinds
  <2> QED BY <1>1, <1>3, <2>2, <2>3 DEF DrawLigature
<1>4. CASE NextFrame
  BY <1>4, NextFrameStep
<1>5. CASE AtlasForFont
  BY <1>5, FreshStep DEF AtlasForFont, AtlasAssumption
<1>6. CASE UNCHANGED atlasVars
  <2>1. UNCHANGED <<size, pixels, cursor, cache, cleared_this_frame, used>>
    BY <1>6 DEF atlasVars, texture
  <2>2. CacheEntries' = CacheEntries
    BY <2>1 DEF CacheEntries
  <2>3. TextureOK'
    BY <2>1 DEF PlacedOK, TextureOK
  <2>4. CachesOK'
    BY <2>1, <2>2 DEF PlacedOK, CachesOK
  <2>5. EntriesOK' /\ RectsKeepApart'
    BY <2>1, <2>2 DEF PlacedOK, EntriesOK, RectsKeepApart
  <2>6. UsedOK'
    BY <2>1 DEF PlacedOK, UsedOK
  <2> QED BY <2>3, <2>4, <2>5, <2>6 DEF PlacedOK
<1> QED BY <1>2, <1>3, <1>4, <1>5, <1>6 DEF AtlasNext

LEMMA AlwaysPlaced == ASSUME AtlasAssumption PROVE AtlasSpec => []PlacedOK
<1>1. AtlasInit => PlacedOK
  BY InitPlaced
<1>2. PlacedOK /\ [AtlasNext]_atlasVars => PlacedOK'
  BY StepPlaced
<1> QED BY <1>1, <1>2, PTL DEF AtlasSpec

\* The pixels of an entry of either cache are those of its bitmap.
THEOREM RectsAlwaysHold == AtlasSpec => []RectsHoldTheirGlyphs
<1>1. PlacedOK => RectsHoldTheirGlyphs
  BY DEF PlacedOK, EntriesOK, Stands, Shows, RectsHoldTheirGlyphs, Holds
<1> QED BY AtlasAssumption, <1>1, AlwaysPlaced, PTL

\* What a frame was told holds until it is shown, unless the frame knows that
\* the texture was begun again.
THEOREM FramesAreWhole == AtlasSpec => []FrameIsWholeUnlessCleared
<1>1. PlacedOK => FrameIsWholeUnlessCleared
  BY DEF PlacedOK, UsedOK, Stands, Shows, FrameIsWholeUnlessCleared, Holds
<1> QED BY AtlasAssumption, <1>1, AlwaysPlaced, PTL

\* No two entries touch.
THEOREM RectsNeverTouch == AtlasSpec => []RectsKeepApart
<1>1. PlacedOK => RectsKeepApart
  BY DEF PlacedOK
<1> QED BY AtlasAssumption, <1>1, AlwaysPlaced, PTL

LEMMA StepCounted == ASSUME AtlasAssumption, CountedOK, [AtlasNext]_atlasVars PROVE CountedOK'
<1> USE DEF CountedOK
<1>1. PlacedOK'
  BY StepPlaced
<1> SUFFICES DOMAIN area' = Kinds /\ AreaAccounted'
  BY <1>1
<1>2. ASSUME NEW kind \in Kinds, NEW key, NEW bitmap \in Bitmap,
             get_or_insert(kind, key, bitmap)
      PROVE  DOMAIN area' = Kinds /\ AreaAccounted'
  BY <1>2, HitCounted, InsertCounted DEF get_or_insert
<1>3. ASSUME NEW g \in Glyph, DrawGlyph(g) PROVE DOMAIN area' = Kinds /\ AreaAccounted'
  BY <1>2, <1>3 DEF DrawGlyph, Kinds, Bitmap
<1>4. ASSUME NEW row \in Row, NEW col \in DOMAIN row, DrawLigature(row, col)
      PROVE  DOMAIN area' = Kinds /\ AreaAccounted'
  <2>1. row \in Seq(Char \cup {Blank})
    BY DEF AtlasAssumption
  <2>2. row[col] \in Bitmap
    BY <1>4, <2>1 DEF DrawLigature, Bitmap
  <2>3. "ligature" \in Kinds
    BY DEF Kinds
  <2> QED BY <1>2, <1>4, <2>2, <2>3 DEF DrawLigature
<1>5. CASE NextFrame
  <2>1. CASE needs_grow
    <3>1. size \in Nat /\ SizeMax \in Nat /\ size * 2 \in Nat
      BY DEF PlacedOK, TextureOK, AtlasAssumption
    <3>2. Min({size * 2, SizeMax}) \in Nat
      BY <3>1, OfTwo
    <3> QED BY <1>5, <2>1, <3>2, FreshCounted DEF NextFrame
  <2>2. CASE ~needs_grow
    <3>1. UNCHANGED <<size, cache, area>>
      BY <1>5, <2>2 DEF NextFrame, texture
    <3> QED BY <3>1 DEF AreaAccounted
  <2> QED BY <2>1, <2>2
<1>6. CASE AtlasForFont
  BY <1>6, FreshCounted DEF AtlasForFont, AtlasAssumption
<1>7. CASE UNCHANGED atlasVars
  BY <1>7 DEF atlasVars, texture, AreaAccounted
<1> QED BY <1>3, <1>4, <1>5, <1>6, <1>7 DEF AtlasNext

\* The sums are those of the entries, and a cache of more than one entry is in
\* its budget: the evictions count what they drop, and so does the LRU.
THEOREM AreasAreAccounted == AtlasSpec => []AreaAccounted
<1>1. AtlasInit => CountedOK
  <2> SUFFICES ASSUME AtlasInit PROVE CountedOK
    OBVIOUS
  <2>1. size \in Nat /\ cache = NoCacheEntries /\ area = NoArea
    BY AtlasAssumption DEF AtlasInit
  <2> QED BY AtlasAssumption, <2>1, InitPlaced, NothingCounted DEF CountedOK
<1>2. CountedOK /\ [AtlasNext]_atlasVars => CountedOK'
  BY AtlasAssumption, StepCounted
<1>3. CountedOK => AreaAccounted
  BY DEF CountedOK
<1> QED BY <1>1, <1>2, <1>3, PTL DEF AtlasSpec

-----------------------------------------------------------------------------
(***************************************************************************)
(* Theorems about Settings, for every set of fields and values, whatever   *)
(* the panel makes of them, every set of texts, every capacity of the      *)
(* channel and any number of edits and actions: the state keeps its type,  *)
(* a panel with no reload on its way shows the file but for what the user  *)
(* did to it, and a save loses the user's own text and the keys of hosts   *)
(* only in the ways OwnTextKept names.                                     *)
(*                                                                         *)
(* The invariant follows the newest configuration on its way.  What was    *)
(* last sent is loaded, or else at the end of the channel, or else taken   *)
(* over by the client (SentOK); a task at rest that no signal wakes has    *)
(* last sent what the file says (FileOK), for a task that has missed       *)
(* nothing has read the file since it changed (TaskOK).  Suppressing a     *)
(* configuration equal to the last one is right because of SentOK: the     *)
(* client has that one, or will have it.  A save that is sure of its text  *)
(* was made from a panel that began with the text's hosts (SavesOK).       *)
(***************************************************************************)

\* The client runs on x and its panel shows x, but for what the user did.
Agrees(x) ==
  /\ zoomed \/ config = x
  /\ \A f \in Field \ adjusted : panel[f] = Shown[f][x.set[f]]
  /\ deleted \/ Continues(panel[Hosts], x.set[Hosts])

\* x is the newest configuration on its way, or the client has it.
Reaches(x) ==
  IF loaded # {} THEN loaded = {x}
  ELSE IF queue # << >> THEN queue[Len(queue)] = x
  ELSE Agrees(x)

SentOK ==
  IF last_sent = {}
    THEN queue = << >> /\ loaded = {}
    ELSE \E x \in Configs : last_sent = {x} /\ Reaches(x)

TaskOK ==
  /\ stage = "send" <=> loaded # {}
  /\ signal \/ stage # "idle" => watching /\ ~unseen
  /\ stage = "default" /\ ~signal => file = Missing

FileOK ==
  ~signal /\ ~unseen /\ stage \in {"idle", "send"} =>
    IF last_sent = {} THEN Agrees(Load(file)) ELSE last_sent = {Load(file)}

SavesOK ==
  /\ \A save, other \in saving : save = other
  /\ \A save \in saving :
       /\ save.text = Saved(save.read)
       /\ save.sure => Continues(panel[Hosts], save.read.set[Hosts])

IInv == SettingsTypeOK /\ SentOK /\ TaskOK /\ FileOK /\ SavesOK

-----------------------------------------------------------------------------
(***************************************************************************)
(* Texts and configurations.                                               *)
(***************************************************************************)

\* A value for each field: with one field given another of its values, filled from
\* a configuration, or written over a text.
LEMMA SetsIn ==
  ASSUME SettingsAssumption
  PROVE  /\ \A set \in Sets : DOMAIN set = Field /\ \A f \in Field : set[f] \in Values[f]
         /\ \A set \in Sets : \A f \in Field : \A v \in Values[f] : [set EXCEPT ![f] = v] \in Sets
         /\ \A new : new.set \in Sets => Filled(new) \in Sets
         /\ \A text : panel \in Sets /\ text.set \in Sets => Written(text) \in Sets
<1> DEFINE All == UNION {Values[f] : f \in Field}
<1>1. \A f \in Field : \A v \in Values[f] : v \in All
  OBVIOUS
<1>2. \A set : set \in Sets <=> set \in [Field -> All] /\ \A f \in Field : set[f] \in Values[f]
  BY DEF Sets
<1> HIDE DEF All
<1>3. \A set \in Sets : DOMAIN set = Field /\ \A f \in Field : set[f] \in Values[f]
  BY <1>2
<1>4. ASSUME NEW set \in Sets, NEW f \in Field, NEW v \in Values[f]
      PROVE  [set EXCEPT ![f] = v] \in Sets
  <2>1. set \in [Field -> All] /\ v \in All /\ \A g \in Field : set[g] \in Values[g]
    BY <1>1, <1>2
  <2> DEFINE new == [set EXCEPT ![f] = v]
  <2>2. new \in [Field -> All] /\ \A g \in Field : new[g] = IF g = f THEN v ELSE set[g]
    BY <2>1
  <2> HIDE DEF new
  <2>3. new \in Sets
    BY <1>2, <2>1, <2>2
  <2> QED BY <2>3 DEF new
<1>5. ASSUME NEW new, new.set \in Sets PROVE Filled(new) \in Sets
  <2>1. \A f \in Field : Shown[f][new.set[f]] \in Values[f]
    BY <1>2, <1>5 DEF SettingsAssumption
  <2> QED BY <1>1, <1>2, <2>1 DEF Filled
<1>6. ASSUME NEW text, panel \in Sets, text.set \in Sets PROVE Written(text) \in Sets
  <2>1. \A f \in Field : panel[f] \in Values[f] /\ text.set[f] \in Values[f]
    BY <1>2, <1>6
  <2> QED BY <1>1, <1>2, <2>1 DEF Written
<1> QED BY <1>3, <1>4, <1>5, <1>6

\* The texts a step writes are texts, and what is loaded from one is a
\* configuration; a missing file loads as the default one does.
LEMMA TextsIn ==
  ASSUME SettingsAssumption
  PROVE  /\ Missing \in Files /\ DefaultFile \in Files /\ Texts \subseteq Files
         /\ \A set \in Sets, own \in BOOLEAN, keys \in Seq(Host), inline \in BOOLEAN :
              Good(set, own, keys, inline) \in Files
         /\ \A text \in Files : /\ text.set \in Sets
                                /\ text.own \in BOOLEAN
                                /\ text.keys \in Seq(Host)
                                /\ text.inline \in BOOLEAN
                                /\ Load(text) \in Configs
                                /\ Load(text).set = text.set
         /\ Load(Missing) = Load(DefaultFile)
<1>1. Default \in Sets /\ << >> \in Seq(Host)
  BY DEF SettingsAssumption
<1>2. /\ Missing \in Files /\ DefaultFile \in Files
      /\ \A set \in Sets, own \in BOOLEAN, keys \in Seq(Host), inline \in BOOLEAN :
           Good(set, own, keys, inline) \in Files
  BY <1>1 DEF Missing, DefaultFile, Good, Files
<1>3. ASSUME NEW text \in Files
      PROVE  /\ text.set \in Sets
             /\ text.own \in BOOLEAN
             /\ text.keys \in Seq(Host)
             /\ text.inline \in BOOLEAN
             /\ Load(text) \in Configs
             /\ Load(text).set = text.set
  <2>1. CASE text \in [kind : {"good"}, set : Sets, own : BOOLEAN, keys : Seq(Host),
                       inline : BOOLEAN]
    BY <2>1 DEF Load, Configs
  <2>2. CASE text = Bad
    BY <1>1, <2>2 DEF Load, Configs, Bad, Good
  <2>3. CASE text = Missing
    BY <1>1, <2>3 DEF Load, Configs, Missing, Good
  <2> QED BY <2>1, <2>2, <2>3 DEF Files
<1>4. Load(Missing) = Load(DefaultFile)
  BY DEF Load, Missing, DefaultFile, Good
<1>5. Texts \subseteq Files
  BY DEF SettingsAssumption
<1> QED BY <1>2, <1>3, <1>4, <1>5

\* A list begins with itself, and with what it began with before a host was added.
LEMMA ContinuesOn ==
  ASSUME NEW old \in Seq(Host), NEW new \in Seq(Host)
  PROVE  /\ Continues(old, old)
         /\ \A host : Continues(new, old) => Continues(Append(new, host), old)
BY DEF Continues

\* A panel filled from a configuration shows it, and has its hosts.
LEMMA FilledShows ==
  ASSUME SettingsAssumption, NEW x \in Configs
  PROVE  /\ \A f \in Field : Filled(x)[f] = Shown[f][x.set[f]]
         /\ Continues(Filled(x)[Hosts], x.set[Hosts])
<1>1. \A f \in Field : Filled(x)[f] = Shown[f][x.set[f]]
  BY DEF Filled
<1>2. x.set \in Sets
  BY DEF Configs
<1>3. x.set[Hosts] \in Values[Hosts]
  BY <1>2, SetsIn DEF SettingsAssumption
<1>4. Filled(x)[Hosts] = x.set[Hosts] /\ x.set[Hosts] \in Seq(Host)
  BY <1>1, <1>3 DEF SettingsAssumption
<1>5. Continues(Filled(x)[Hosts], x.set[Hosts])
  BY <1>4, ContinuesOn
<1> QED BY <1>1, <1>5

\* A set with one member has one.
LEMMA OneMember == \A x : Cardinality({x}) = 1
BY FS_Singleton

\* What the user does to the configuration and to the fields of the panel.
Used ==
  \/ \E v \in Values[FontSize] : Zoom(v)
  \/ \E f \in Field : \E v \in Values[f] : Adjust(f, v)
  \/ AddHost
  \/ \E i \in DOMAIN panel[Hosts] : DeleteHost(i)

Still == UNCHANGED <<config, panel, adjusted, deleted, zoomed>>

\* One field is given another value.
LEMMA AdjustedOne ==
  ASSUME SettingsAssumption, SettingsTypeOK, NEW f \in Field, NEW v, Adjusted(f, v)
  PROVE  /\ panel' \in Sets
         /\ \A g \in Field : panel'[g] = IF g = f THEN v ELSE panel[g]
         /\ adjusted' = adjusted \cup {f}
         /\ UNCHANGED <<file, watcher, queue, config, is_open, saving, zoomed, unseen, edits>>
         /\ actions' \in 0 .. MaxActions
<1>1. /\ panel' = [panel EXCEPT ![f] = v] /\ v \in Values[f] /\ panel \in Sets
      /\ adjusted' = adjusted \cup {f}
      /\ UNCHANGED <<file, watcher, queue, config, is_open, saving, zoomed, unseen, edits>>
      /\ actions' \in 0 .. MaxActions
  BY DEF Adjusted, InPanel, UserActs, SettingsTypeOK, SettingsAssumption
<1>2. panel' \in Sets /\ DOMAIN panel = Field
  BY <1>1, SetsIn
<1>3. \A g \in Field : panel'[g] = IF g = f THEN v ELSE panel[g]
  BY <1>1, <1>2
<1> QED BY <1>1, <1>2, <1>3

\* The user's actions leave what the client has as it was, up to the fields
\* and the font size they count as changed, and the hosts they delete.
LEMMA AgreesKept ==
  ASSUME SettingsAssumption, SettingsTypeOK, NEW x \in Configs, Agrees(x), Still \/ Used
  PROVE  Agrees(x)'
<1>1. CASE Still
  BY <1>1 DEF Still, Agrees
<1>2. CASE \E v \in Values[FontSize] : Zoom(v)
  BY <1>2 DEF Agrees, Zoom
<1>3. ASSUME NEW f \in Field, NEW v \in Values[f], Adjust(f, v)
      PROVE  Agrees(x)'
  <2>1. /\ \A g \in Field : panel'[g] = IF g = f THEN v ELSE panel[g]
        /\ adjusted' = adjusted \cup {f}
        /\ UNCHANGED <<config, zoomed, deleted>>
        /\ f # Hosts /\ Hosts \in Field
    BY <1>3, AdjustedOne DEF Adjust, SettingsAssumption
  <2>2. panel'[Hosts] = panel[Hosts]
    BY <2>1
  <2> QED BY <2>1, <2>2 DEF Agrees
<1>4. CASE AddHost
  <2>1. Hosts \in Field
    BY DEF SettingsAssumption
  <2>2. /\ \A g \in Field : panel'[g] = IF g = Hosts THEN Append(panel[Hosts], NewHost)
                                                     ELSE panel[g]
        /\ adjusted' = adjusted \cup {Hosts}
        /\ UNCHANGED <<config, zoomed, deleted>>
    BY <1>4, <2>1, AdjustedOne DEF AddHost
  <2>3. panel[Hosts] \in Seq(Host) /\ x.set[Hosts] \in Seq(Host)
    BY <2>1, SetsIn DEF SettingsTypeOK, Configs, SettingsAssumption
  <2>4. Continues(panel[Hosts], x.set[Hosts]) => Continues(panel'[Hosts], x.set[Hosts])
    BY <2>1, <2>2, <2>3, ContinuesOn
  <2> QED BY <2>2, <2>4 DEF Agrees
<1>5. ASSUME NEW i \in DOMAIN panel[Hosts], DeleteHost(i)
      PROVE  Agrees(x)'
  <2>1. Hosts \in Field /\ \E v : Adjusted(Hosts, v)
    BY <1>5 DEF DeleteHost, SettingsAssumption
  <2>2. PICK v : Adjusted(Hosts, v)
    BY <2>1
  <2>3. /\ \A g \in Field : panel'[g] = IF g = Hosts THEN v ELSE panel[g]
        /\ adjusted' = adjusted \cup {Hosts}
        /\ UNCHANGED <<config, zoomed>>
    BY <2>1, <2>2, AdjustedOne
  <2>4. deleted' = TRUE
    BY <1>5 DEF DeleteHost
  <2> QED BY <2>3, <2>4 DEF Agrees
<1> QED BY <1>1, <1>2, <1>3, <1>4, <1>5 DEF Used

-----------------------------------------------------------------------------
(***************************************************************************)
(* Type correctness.                                                       *)
(***************************************************************************)

LEMMA SettingsInitType == ASSUME SettingsAssumption, SettingsInit PROVE SettingsTypeOK
<1>1. /\ file \in Files
      /\ config \in Configs
      /\ panel \in Sets
  BY TextsIn, SetsIn DEF SettingsInit, Configs
<1>2. /\ loaded \subseteq Configs /\ last_sent \subseteq Configs /\ adjusted \subseteq Field
      /\ saving \subseteq [read : Files, text : Files, retried : BOOLEAN, sure : BOOLEAN]
  BY DEF SettingsInit
<1>3. /\ Cardinality(loaded) <= 1 /\ Cardinality(last_sent) <= 1
      /\ Cardinality(saving) <= 1
  BY FS_EmptySet DEF SettingsInit
<1>4. queue \in Seq(Configs) /\ Len(queue) <= Capacity
  BY DEF SettingsInit, SettingsAssumption
<1>5. edits \in 0 .. MaxEdits /\ actions \in 0 .. MaxActions
  BY DEF SettingsInit, SettingsAssumption
<1>6. /\ watching \in BOOLEAN /\ signal \in BOOLEAN /\ unseen \in BOOLEAN
      /\ is_open \in BOOLEAN /\ zoomed \in BOOLEAN /\ deleted \in BOOLEAN
      /\ stage \in {"idle", "waiting", "load", "default", "send"}
  BY DEF SettingsInit
<1> QED BY <1>1, <1>2, <1>3, <1>4, <1>5, <1>6 DEF SettingsTypeOK

\* What is loaded is a configuration, and one at most is loaded and last sent.
LEMMA ForwardType ==
  ASSUME SettingsTypeOK, NEW new \in Configs, Forward(new)
  PROVE  /\ loaded' \subseteq Configs /\ last_sent' \subseteq Configs
         /\ Cardinality(loaded') <= 1 /\ Cardinality(last_sent') <= 1
         /\ stage' \in {"idle", "send"}
<1>1. CASE last_sent = {new}
  BY <1>1 DEF Forward, SettingsTypeOK
<1>2. CASE last_sent # {new}
  <2>1. stage' = "send" /\ loaded' = {new} /\ last_sent' = {new}
    BY <1>2 DEF Forward
  <2>2. Cardinality({new}) = 1
    BY OneMember
  <2> QED BY <2>1, <2>2
<1> QED BY <1>1, <1>2

\* What a save writes over a text is a text.
LEMMA SavedIn ==
  ASSUME SettingsAssumption, panel \in Sets, NEW text \in Files
  PROVE  Saved(text) \in Files
<1>1. text.set \in Sets /\ text.own \in BOOLEAN /\ text.keys \in Seq(Host)
  BY TextsIn
<1>2. Written(text) \in Sets
  BY <1>1, SetsIn
<1>3. panel[Hosts] \in Seq(Host)
  BY SetsIn DEF SettingsAssumption
<1>4. HostKeys(text) \in Seq(Host)
  BY <1>1, <1>3 DEF HostKeys
<1>5. (text.kind = "good" /\ text.own) \in BOOLEAN
  OBVIOUS
<1> QED BY <1>2, <1>4, <1>5, TextsIn DEF Saved

\* Every step preserves the type of the state.
LEMMA SettingsStepType ==
  ASSUME SettingsAssumption, SettingsTypeOK, [SettingsNext]_settingsVars
  PROVE  SettingsTypeOK'
<1> USE DEF watcher, client
<1>1. ASSUME NEW text \in Texts, Edit(text) PROVE SettingsTypeOK'
  <2>1. text \in Files
    BY TextsIn
  <2> QED BY <1>1, <2>1 DEF Edit, Becomes, SettingsTypeOK, SettingsAssumption
<1>2. CASE StartWatch
  BY <1>2 DEF StartWatch, SettingsTypeOK
<1>3. CASE Signalled
  BY <1>3 DEF Signalled, Task, SettingsTypeOK
<1>4. CASE Quiet
  BY <1>4 DEF Quiet, Task, SettingsTypeOK
<1>5. CASE Reload
  <2>1. Load(file) \in Configs
    BY TextsIn DEF SettingsTypeOK
  <2>2. Forward(Load(file))
    BY <1>5 DEF Reload
  <2>3. /\ loaded' \subseteq Configs /\ last_sent' \subseteq Configs
        /\ Cardinality(loaded') <= 1 /\ Cardinality(last_sent') <= 1
        /\ stage' \in {"idle", "send"}
    BY <2>1, <2>2, ForwardType
  <2> QED BY <1>5, <2>3 DEF Reload, SettingsTypeOK
<1>6. CASE ReloadMissing
  BY <1>6 DEF ReloadMissing, Task, SettingsTypeOK
<1>7. CASE WriteDefault
  <2>1. DefaultFile \in Files /\ Load(DefaultFile) \in Configs
    BY TextsIn
  <2>2. Forward(Load(DefaultFile))
    BY <1>7 DEF WriteDefault
  <2>3. /\ loaded' \subseteq Configs /\ last_sent' \subseteq Configs
        /\ Cardinality(loaded') <= 1 /\ Cardinality(last_sent') <= 1
        /\ stage' \in {"idle", "send"}
    BY <2>1, <2>2, ForwardType
  <2>4. file' \in Files /\ signal' \in BOOLEAN /\ unseen' \in BOOLEAN
    BY <1>7, <2>1 DEF WriteDefault, Becomes, SettingsTypeOK
  <2> QED BY <1>7, <2>3, <2>4 DEF WriteDefault, SettingsTypeOK
<1>8. CASE Send
  <2>1. PICK new \in loaded : queue' = Append(queue, new)
    BY <1>8 DEF Send
  <2>2. new \in Configs /\ queue \in Seq(Configs) /\ Len(queue) < Capacity /\ Capacity \in Nat
    BY <1>8, <2>1 DEF Send, SettingsTypeOK, SettingsAssumption
  <2>3. queue' \in Seq(Configs) /\ Len(queue') <= Capacity
    BY <2>1, <2>2
  <2>4. loaded' = {} /\ Cardinality({}) = 0
    BY <1>8, FS_EmptySet DEF Send
  <2> QED BY <1>8, <2>3, <2>4 DEF Send, Task, SettingsTypeOK
<1>9. CASE Take
  <2>1. queue \in Seq(Configs) /\ queue # << >> /\ Len(queue) <= Capacity /\ Capacity \in Nat
    BY <1>9 DEF Take, SettingsTypeOK, SettingsAssumption
  <2>2. /\ Head(queue) \in Configs
        /\ Tail(queue) \in Seq(Configs) /\ Len(Tail(queue)) <= Capacity
    BY <2>1
  <2>3. panel' \in Sets
    BY <1>9, <2>2, SetsIn DEF Take, Resynced, Configs
  <2> QED BY <1>9, <2>2, <2>3 DEF Take, SettingsTypeOK
<1>10. ASSUME NEW v \in Values[FontSize], Zoom(v) PROVE SettingsTypeOK'
  <2>1. /\ config' = [config EXCEPT !.set[FontSize] = v]
        /\ config \in Configs
    BY <1>10 DEF Zoom, SettingsTypeOK
  <2>2. [config.set EXCEPT ![FontSize] = v] \in Sets
    BY <2>1, SetsIn DEF Configs, SettingsAssumption
  <2>3. config' \in Configs
    BY <2>1, <2>2 DEF Configs
  <2> QED BY <1>10, <2>3 DEF Zoom, UserActs, SettingsTypeOK, SettingsAssumption
<1>11. ASSUME NEW f \in Field, NEW v, Adjusted(f, v), deleted' \in BOOLEAN PROVE SettingsTypeOK'
  <2>1. /\ panel' \in Sets /\ adjusted' \subseteq Field
        /\ UNCHANGED <<file, watcher, queue, config, is_open, saving, zoomed, unseen, edits>>
        /\ actions' \in 0 .. MaxActions
    BY <1>11, AdjustedOne DEF SettingsTypeOK
  <2> QED BY <1>11, <2>1 DEF SettingsTypeOK
<1>12. CASE Used
  <2>1. ASSUME NEW f \in Field, NEW v \in Values[f], Adjust(f, v) PROVE SettingsTypeOK'
    BY <1>11, <2>1 DEF Adjust, SettingsTypeOK
  <2>2. CASE AddHost
    BY <1>11, <2>2 DEF AddHost, SettingsTypeOK, SettingsAssumption
  <2>3. ASSUME NEW i \in DOMAIN panel[Hosts], DeleteHost(i) PROVE SettingsTypeOK'
    <3>1. Hosts \in Field /\ deleted' \in BOOLEAN /\ \E v : Adjusted(Hosts, v)
      BY <2>3 DEF DeleteHost, SettingsAssumption
    <3> QED BY <1>11, <3>1
  <2> QED BY <1>10, <1>12, <2>1, <2>2, <2>3 DEF Used
<1>13. ASSUME Open \/ Close PROVE SettingsTypeOK'
  <2>1. is_open' \in BOOLEAN /\ InPanel /\ UNCHANGED <<panel, saving, adjusted, deleted>>
    BY <1>13 DEF Open, Close
  <2> QED BY <2>1 DEF InPanel, UserActs, SettingsTypeOK, SettingsAssumption
<1>14. CASE Save
  <2>1. Saved(file) \in Files
    BY SavedIn DEF SettingsTypeOK
  <2> DEFINE save == [read |-> file, text |-> Saved(file), retried |-> FALSE,
                      sure |-> ~InFlight /\ ~unseen /\ ~deleted]
  <2>2. save \in [read : Files, text : Files, retried : BOOLEAN, sure : BOOLEAN]
    BY <2>1 DEF SettingsTypeOK
  <2>3. saving' = {save}
    BY <1>14 DEF Save
  <2> HIDE DEF save
  <2>4. Cardinality({save}) = 1
    BY OneMember
  <2>5. /\ saving' \subseteq [read : Files, text : Files, retried : BOOLEAN, sure : BOOLEAN]
        /\ Cardinality(saving') <= 1
    BY <2>2, <2>3, <2>4
  <2>6. is_open' \in BOOLEAN /\ InPanel /\ UNCHANGED <<panel, adjusted, deleted>>
    BY <1>14 DEF Save
  <2> QED BY <2>5, <2>6 DEF InPanel, UserActs, SettingsTypeOK, SettingsAssumption
<1>15. CASE SaveRemove
  <2>1. PICK save \in saving : saving' = {[save EXCEPT !.retried = TRUE]}
    BY <1>15 DEF SaveRemove
  <2>2. saving' \subseteq [read : Files, text : Files, retried : BOOLEAN, sure : BOOLEAN]
    BY <2>1 DEF SettingsTypeOK
  <2>3. Cardinality(saving') = 1
    BY <2>1, OneMember
  <2>4. Missing \in Files
    BY TextsIn
  <2> QED BY <1>15, <2>2, <2>3, <2>4 DEF SaveRemove, Becomes, SettingsTypeOK
<1>16. CASE SaveRename
  <2>1. PICK save \in saving : Becomes(save.text)
    BY <1>16 DEF SaveRename
  <2>2. save.text \in Files
    BY <2>1 DEF SettingsTypeOK
  <2>3. saving' = {} /\ Cardinality({}) = 0
    BY <1>16, FS_EmptySet DEF SaveRename
  <2> QED BY <1>16, <2>1, <2>2, <2>3 DEF SaveRename, Becomes, SettingsTypeOK
<1>17. CASE SaveFails
  <2>1. saving' = {} /\ Cardinality({}) = 0
    BY <1>17, FS_EmptySet DEF SaveFails
  <2> QED BY <1>17, <2>1 DEF SaveFails, SettingsTypeOK
<1>18. CASE UNCHANGED settingsVars
  BY <1>18 DEF settingsVars, SettingsTypeOK
<1> QED BY <1>1, <1>2, <1>3, <1>4, <1>5, <1>6, <1>7, <1>8, <1>9, <1>12, <1>13, <1>14, <1>15,
           <1>16, <1>17, <1>18 DEF SettingsNext, Used

-----------------------------------------------------------------------------
(***************************************************************************)
(* What was last sent is on its way, or arrived.                           *)
(***************************************************************************)

\* A step that leaves alone what is on its way and keeps what the client has
\* keeps SentOK.
LEMMA SentKept ==
  ASSUME SentOK, UNCHANGED <<loaded, last_sent, queue>>,
         ASSUME NEW x \in Configs, Agrees(x) PROVE Agrees(x)'
  PROVE  SentOK'
<1>1. CASE last_sent = {}
  BY <1>1 DEF SentOK
<1>2. CASE last_sent # {}
  <2>1. PICK x \in Configs : last_sent = {x} /\ Reaches(x)
    BY <1>2 DEF SentOK
  <2>2. Agrees(x) => Agrees(x)'
    OBVIOUS
  <2>3. Reaches(x)'
    BY <2>1, <2>2 DEF Reaches
  <2> QED BY <2>1, <2>3 DEF SentOK
<1> QED BY <1>1, <1>2

\* A configuration equal to the last one is there or on its way already, another
\* one becomes the newest.
LEMMA SentForward ==
  ASSUME SentOK, NEW new \in Configs, Forward(new),
         UNCHANGED queue, Still
  PROVE  SentOK'
<1>1. CASE last_sent = {new}
  <2>1. UNCHANGED <<loaded, last_sent>>
    BY <1>1 DEF Forward
  <2>2. ASSUME NEW x \in Configs, Agrees(x) PROVE Agrees(x)'
    BY <2>2 DEF Still, Agrees
  <2> QED BY <2>1, <2>2, SentKept
<1>2. CASE last_sent # {new}
  <2>1. loaded' = {new} /\ last_sent' = {new}
    BY <1>2 DEF Forward
  <2>2. Reaches(new)'
    BY <2>1 DEF Reaches
  <2> QED BY <2>1, <2>2 DEF SentOK
<1> QED BY <1>1, <1>2

\* What is sent comes last in the channel.
LEMMA SentSend == ASSUME SettingsTypeOK, SentOK, Send PROVE SentOK'
<1>1. PICK new \in loaded : queue' = Append(queue, new)
  BY DEF Send
<1>2. PICK x \in Configs : last_sent = {x} /\ Reaches(x)
  BY <1>1 DEF SentOK
<1>3. new = x
  BY <1>1, <1>2 DEF Reaches
<1>4. queue' # << >> /\ queue'[Len(queue')] = x
  BY <1>1, <1>2, <1>3 DEF SettingsTypeOK
<1>5. loaded' = {} /\ last_sent' = last_sent
  BY DEF Send
<1>6. Reaches(x)'
  BY <1>4, <1>5 DEF Reaches
<1> QED BY <1>2, <1>5, <1>6 DEF SentOK

\* The client takes over what is first in the channel: the newest, if it is alone.
LEMMA SentTake ==
  ASSUME SettingsAssumption, SettingsTypeOK, SentOK, Take
  PROVE  SentOK'
<1>1. queue # << >> /\ queue \in Seq(Configs) /\ queue' = Tail(queue)
  BY DEF Take, SettingsTypeOK
<1>2. UNCHANGED <<loaded, last_sent>>
  BY DEF Take, watcher
<1>3. PICK x \in Configs : last_sent = {x} /\ Reaches(x)
  BY <1>1 DEF SentOK
<1>4. Reaches(x)'
  <2>1. CASE loaded # {}
    BY <1>2, <1>3, <2>1 DEF Reaches
  <2>2. CASE loaded = {} /\ queue' # << >>
    <3>1. queue[Len(queue)] = x
      BY <1>1, <1>3, <2>2 DEF Reaches
    <3>2. queue'[Len(queue')] = queue[Len(queue)]
      BY <1>1, <2>2
    <3> QED BY <1>2, <2>2, <3>1, <3>2 DEF Reaches
  <2>3. CASE loaded = {} /\ queue' = << >>
    <3>1. queue[Len(queue)] = x
      BY <1>1, <1>3, <2>3 DEF Reaches
    <3>2. Head(queue) = x
      <4>1. Len(queue') = Len(queue) - 1
        BY <1>1
      <4>2. Len(queue') = 0
        BY <2>3
      <4>3. Len(queue) = 1 /\ Head(queue) = queue[1]
        BY <1>1, <4>1, <4>2
      <4> QED BY <3>1, <4>3
    <3>3. config' = x /\ panel' = Filled(x)
      BY <3>2 DEF Take, Resynced
    <3>4. Agrees(x)'
      BY <1>3, <3>3, FilledShows DEF Agrees
    <3> QED BY <1>2, <2>3, <3>4 DEF Reaches
  <2> QED BY <2>1, <2>2, <2>3
<1> QED BY <1>2, <1>3, <1>4 DEF SentOK

\* Every step preserves SentOK.
LEMMA StepSent ==
  ASSUME SettingsAssumption, SettingsTypeOK, SentOK, [SettingsNext]_settingsVars
  PROVE  SentOK'
<1>1. ASSUME Still \/ Used, UNCHANGED <<loaded, last_sent, queue>> PROVE SentOK'
  <2>1. ASSUME NEW x \in Configs, Agrees(x) PROVE Agrees(x)'
    BY <1>1, <2>1, AgreesKept
  <2> QED BY <1>1, <2>1, SentKept
<1>2. CASE Used
  <2>1. UNCHANGED <<loaded, last_sent, queue>>
    BY <1>2 DEF Used, Zoom, Adjust, AddHost, DeleteHost, Adjusted, InPanel, UserActs, watcher
  <2> QED BY <1>1, <1>2, <2>1
<1>3. CASE \/ (\E text \in Texts : Edit(text)) \/ StartWatch \/ Signalled \/ Quiet
           \/ ReloadMissing \/ Open \/ Close \/ Save \/ SaveRemove \/ SaveRename \/ SaveFails
           \/ UNCHANGED settingsVars
  <2>1. Still /\ UNCHANGED <<loaded, last_sent, queue>>
    BY <1>3 DEF Edit, StartWatch, Signalled, Quiet, ReloadMissing, Task, Open, Close, Save,
                InPanel, UserActs, SaveRemove, SaveRename, SaveFails, watcher, client,
                settingsVars, Still
  <2> QED BY <1>1, <2>1
<1>4. CASE Reload
  <2>1. Load(file) \in Configs
    BY TextsIn DEF SettingsTypeOK
  <2>2. Forward(Load(file)) /\ UNCHANGED queue /\ Still
    BY <1>4 DEF Reload, client, Still
  <2> QED BY <2>1, <2>2, SentForward
<1>5. CASE WriteDefault
  <2>1. Load(DefaultFile) \in Configs
    BY TextsIn
  <2>2. Forward(Load(DefaultFile)) /\ UNCHANGED queue /\ Still
    BY <1>5 DEF WriteDefault, client, Still
  <2> QED BY <2>1, <2>2, SentForward
<1>6. CASE Send
  BY <1>6, SentSend
<1>7. CASE Take
  BY <1>7, SentTake
<1> QED BY <1>2, <1>3, <1>4, <1>5, <1>6, <1>7 DEF SettingsNext, Used

-----------------------------------------------------------------------------
(***************************************************************************)
(* What the task knows of the file.                                        *)
(***************************************************************************)

\* Every step preserves TaskOK.
LEMMA StepTask == ASSUME SettingsTypeOK, TaskOK, [SettingsNext]_settingsVars PROVE TaskOK'
<1> USE DEF TaskOK
<1>1. ASSUME NEW text \in Texts, Edit(text) PROVE TaskOK'
  BY <1>1 DEF Edit, Becomes, SettingsTypeOK
<1>2. CASE StartWatch
  BY <1>2 DEF StartWatch
<1>3. CASE Signalled \/ Quiet \/ ReloadMissing
  BY <1>3 DEF Signalled, Quiet, ReloadMissing, Task
<1>4. CASE Reload
  BY <1>4 DEF Reload, Forward
<1>5. CASE WriteDefault
  BY <1>5 DEF WriteDefault, Becomes, Forward, SettingsTypeOK
<1>6. CASE Send
  BY <1>6 DEF Send, Task
<1>7. CASE Take \/ SaveFails \/ UNCHANGED settingsVars
  BY <1>7 DEF Take, SaveFails, watcher, settingsVars
<1>8. CASE Used \/ Open \/ Close \/ Save
  <2>1. UNCHANGED <<file, watcher, unseen>>
    BY <1>8 DEF Used, Zoom, Adjust, AddHost, DeleteHost, Adjusted, Open, Close, Save, InPanel,
                UserActs
  <2> QED BY <2>1 DEF watcher
<1>9. CASE SaveRename \/ SaveRemove
  BY <1>9 DEF SaveRename, SaveRemove, Becomes, SettingsTypeOK
<1> QED BY <1>1, <1>2, <1>3, <1>4, <1>5, <1>6, <1>7, <1>8, <1>9 DEF SettingsNext, Used

\* A step that changes the file is signalled, or was not watched for.
LEMMA FileBecomes ==
  ASSUME SettingsTypeOK, TaskOK, NEW text, Becomes(text), UNCHANGED watching
  PROVE  FileOK'
BY DEF Becomes, FileOK, SettingsTypeOK

\* Where the file, the task and what was sent stay as they are, so does FileOK,
\* if the client keeps what it has.
LEMMA FileKept ==
  ASSUME SettingsAssumption, SettingsTypeOK, FileOK, UNCHANGED <<file, signal, unseen, last_sent>>,
         stage \notin {"idle", "send"} => stage' \notin {"idle", "send"},
         ASSUME NEW x \in Configs, Agrees(x) PROVE Agrees(x)'
  PROVE  FileOK'
<1>1. Agrees(Load(file)) => Agrees(Load(file))'
  <2>1. Load(file) \in Configs
    BY TextsIn DEF SettingsTypeOK
  <2>2. PICK x \in Configs : x = Load(file)
    BY <2>1
  <2>3. Load(file)' = x
    BY <2>2 DEF Load
  <2>4. Agrees(x) => Agrees(x)'
    OBVIOUS
  <2> QED BY <2>2, <2>3, <2>4 DEF Agrees
<1>2. Load(file)' = Load(file)
  BY DEF Load
<1> QED BY <1>1, <1>2 DEF FileOK

\* Every step preserves FileOK.
LEMMA StepFile ==
  ASSUME SettingsAssumption, SettingsTypeOK, SentOK, TaskOK, FileOK, [SettingsNext]_settingsVars
  PROVE  FileOK'
<1>1. ASSUME Still \/ Used, UNCHANGED <<file, signal, unseen, last_sent, stage>> PROVE FileOK'
  <2>1. ASSUME NEW x \in Configs, Agrees(x) PROVE Agrees(x)'
    BY <1>1, <2>1, AgreesKept
  <2> QED BY <1>1, <2>1, FileKept
<1>2. CASE Used
  <2>1. UNCHANGED <<file, signal, unseen, last_sent, stage>>
    BY <1>2 DEF Used, Zoom, Adjust, AddHost, DeleteHost, Adjusted, InPanel, UserActs, watcher
  <2> QED BY <1>1, <1>2, <2>1
<1>3. CASE StartWatch \/ Open \/ Close \/ Save \/ SaveFails \/ UNCHANGED settingsVars
  <2>1. Still /\ UNCHANGED <<file, signal, unseen, last_sent, stage>>
    BY <1>3 DEF StartWatch, Open, Close, Save, InPanel, UserActs, SaveFails, watcher, client,
                settingsVars, Still
  <2> QED BY <1>1, <2>1
<1>4. CASE (\E text \in Texts : Edit(text)) \/ SaveRemove \/ SaveRename
  <2>1. \E text : Becomes(text) /\ UNCHANGED watching
    BY <1>4 DEF Edit, SaveRemove, SaveRename
  <2> QED BY <2>1, FileBecomes
<1>5. CASE Signalled \/ Quiet \/ ReloadMissing
  <2>1. stage' \in {"waiting", "load", "default"}
    BY <1>5 DEF Signalled, Quiet, ReloadMissing, Task
  <2> QED BY <2>1 DEF FileOK
<1>6. CASE Reload
  <2>1. last_sent' = {Load(file)} /\ file' = file
    BY <1>6 DEF Reload, Forward
  <2> QED BY <2>1 DEF FileOK, Load
<1>7. CASE WriteDefault
  <2>1. CASE Becomes(DefaultFile)
    BY <1>7, <2>1, FileBecomes DEF WriteDefault
  <2>2. CASE UNCHANGED <<file, signal, unseen>>
    <3>1. last_sent' = {Load(DefaultFile)}
      BY <1>7 DEF WriteDefault, Forward
    <3>2. ~signal => Load(file)' = Load(DefaultFile)
      BY <1>7, <2>2, TextsIn DEF WriteDefault, TaskOK, Load
    <3> QED BY <2>2, <3>1, <3>2 DEF FileOK
  <2> QED BY <1>7, <2>1, <2>2 DEF WriteDefault
<1>8. CASE Send
  <2>1. stage = "send" /\ stage' = "idle" /\ UNCHANGED <<file, signal, unseen, last_sent>>
    BY <1>8 DEF Send, Task
  <2>2. last_sent # {}
    BY <2>1 DEF TaskOK, SentOK
  <2> QED BY <2>1, <2>2 DEF FileOK, Load
<1>9. CASE Take
  <2>1. UNCHANGED <<file, signal, unseen, last_sent, stage>>
    BY <1>9 DEF Take, watcher
  <2>2. last_sent # {}
    BY <1>9 DEF Take, SentOK
  <2> QED BY <2>1, <2>2 DEF FileOK, Load
<1> QED BY <1>2, <1>3, <1>4, <1>5, <1>6, <1>7, <1>8, <1>9 DEF SettingsNext, Used

\* With no reload on its way, the client has what the file says.
LEMMA QuietAgrees ==
  ASSUME SettingsTypeOK, SentOK, TaskOK, FileOK, ~InFlight, ~unseen
  PROVE  Agrees(Load(file))
<1>1. stage = "idle" /\ ~signal /\ queue = << >> /\ loaded = {}
  BY DEF InFlight, TaskOK
<1>2. CASE last_sent = {}
  BY <1>1, <1>2 DEF FileOK
<1>3. CASE last_sent # {}
  <2>1. last_sent = {Load(file)}
    BY <1>1, <1>3 DEF FileOK
  <2>2. PICK x \in Configs : last_sent = {x} /\ Reaches(x)
    BY <1>3 DEF SentOK
  <2> QED BY <1>1, <2>1, <2>2 DEF Reaches
<1> QED BY <1>2, <1>3

\* Every step preserves SavesOK.
LEMMA StepSaves ==
  ASSUME SettingsAssumption, SettingsTypeOK, SentOK, TaskOK, FileOK, SavesOK,
         [SettingsNext]_settingsVars
  PROVE  SavesOK'
<1>1. CASE Save
  <2> DEFINE sure == ~InFlight /\ ~unseen /\ ~deleted
  <2>1. /\ saving' = {[read |-> file, text |-> Saved(file), retried |-> FALSE, sure |-> sure]}
        /\ panel' = panel
    BY <1>1 DEF Save
  <2>2. sure => Continues(panel[Hosts], file.set[Hosts])
    BY QuietAgrees, TextsIn DEF Agrees, SettingsTypeOK
  <2> HIDE DEF sure
  <2>3. \A save \in saving' : save.read = file /\ save.text = Saved(file) /\ save.sure = sure
    BY <2>1
  <2>4. \A text : Saved(text)' = Saved(text)
    BY <2>1 DEF Saved, Written, HostKeys
  <2>5. \A save, other \in saving' : save = other
    BY <2>1
  <2> QED BY <2>1, <2>2, <2>3, <2>4, <2>5 DEF SavesOK
<1>2. CASE SaveRename \/ SaveFails
  BY <1>2 DEF SaveRename, SaveFails, SavesOK
<1>3. CASE SaveRemove
  <2>1. PICK save \in saving : saving' = {[save EXCEPT !.retried = TRUE]}
    BY <1>3 DEF SaveRemove
  <2>2. /\ save.text = Saved(save.read)
        /\ save.sure => Continues(panel[Hosts], save.read.set[Hosts])
        /\ save \in [read : Files, text : Files, retried : BOOLEAN, sure : BOOLEAN]
    BY <2>1 DEF SavesOK, SettingsTypeOK
  <2>3. panel' = panel
    BY <1>3 DEF SaveRemove
  <2>4. \A text : Saved(text)' = Saved(text)
    BY <2>3 DEF Saved, Written, HostKeys
  <2> QED BY <2>1, <2>2, <2>3, <2>4 DEF SavesOK
<1>4. ASSUME saving = {}, UNCHANGED saving PROVE SavesOK'
  BY <1>4 DEF SavesOK
<1>5. CASE Take \/ Used \/ Open \/ Close
  <2>1. saving = {} /\ UNCHANGED saving
    BY <1>5 DEF Take, Used, Zoom, Adjust, AddHost, DeleteHost, Adjusted, Open, Close, InPanel,
                UserActs
  <2> QED BY <1>4, <2>1
<1>6. CASE \/ (\E text \in Texts : Edit(text)) \/ StartWatch \/ Signalled \/ Quiet \/ Reload
           \/ ReloadMissing \/ WriteDefault \/ Send \/ UNCHANGED settingsVars
  <2>1. UNCHANGED <<saving, panel>>
    BY <1>6 DEF Edit, StartWatch, Signalled, Quiet, Reload, ReloadMissing, WriteDefault, Send,
                Task, client, settingsVars
  <2>2. \A text : Saved(text)' = Saved(text)
    BY <2>1 DEF Saved, Written, HostKeys
  <2> QED BY <2>1, <2>2 DEF SavesOK
<1> QED BY <1>1, <1>2, <1>3, <1>5, <1>6 DEF SettingsNext, Used

-----------------------------------------------------------------------------
(***************************************************************************)
(* The theorems.                                                           *)
(***************************************************************************)

LEMMA InitIInv == ASSUME SettingsAssumption, SettingsInit PROVE IInv
<1>1. SettingsTypeOK
  BY SettingsInitType
<1>2. SentOK /\ TaskOK /\ SavesOK
  BY DEF SettingsInit, SentOK, TaskOK, SavesOK
<1>3. FileOK
  <2>1. file \in Files
    BY TextsIn DEF SettingsInit
  <2>2. Load(file) \in Configs /\ config = Load(file) /\ panel = Filled(Load(file))
    BY <2>1, TextsIn DEF SettingsInit
  <2>3. last_sent = {} /\ Agrees(Load(file))
    BY <2>2, FilledShows DEF SettingsInit, Agrees
  <2> QED BY <2>3 DEF FileOK
<1> QED BY <1>1, <1>2, <1>3 DEF IInv

LEMMA StepIInv == ASSUME SettingsAssumption, IInv, [SettingsNext]_settingsVars PROVE IInv'
BY SettingsStepType, StepSent, StepTask, StepFile, StepSaves DEF IInv

\* The state has its type.
THEOREM SettingsTypeCorrect == SettingsSpec => []SettingsTypeOK
<1>1. SettingsInit => SettingsTypeOK
  BY SettingsAssumption, SettingsInitType
<1>2. SettingsTypeOK /\ [SettingsNext]_settingsVars => SettingsTypeOK'
  BY SettingsAssumption, SettingsStepType
<1> QED BY <1>1, <1>2, PTL DEF SettingsSpec

\* When no reload is on its way, the client runs on the file but for a zoom, and
\* the panel shows what it can of it but for what the user adjusted, with the hosts
\* of the file first unless the user deleted one.
THEOREM PanelFollowsFile == SettingsSpec => []QuietPanelIsFile
<1>1. SettingsInit => IInv
  BY SettingsAssumption, InitIInv
<1>2. IInv /\ [SettingsNext]_settingsVars => IInv'
  BY SettingsAssumption, StepIInv
<1>3. IInv => QuietPanelIsFile
  <2> SUFFICES ASSUME IInv, ~InFlight, ~unseen
               PROVE  Agrees(Load(file))
    BY SettingsAssumption, TextsIn DEF QuietPanelIsFile, Agrees, IInv, SettingsTypeOK
  <2> QED BY QuietAgrees DEF IInv
<1> QED BY <1>1, <1>2, <1>3, PTL DEF SettingsSpec

\* A save made from a panel that begins with the hosts of the text it read leaves
\* every host the keys it had in a table of its own.
LEMMA KeysStay ==
  ASSUME SettingsAssumption, panel \in Sets, NEW text \in Files, ~text.inline,
         Continues(panel[Hosts], text.set[Hosts])
  PROVE  WithTheirKeys(text) \subseteq WithTheirKeys(Saved(text))
<1>1. /\ text.keys \in Seq(Host) /\ text.set \in Sets /\ Hosts \in Field
      /\ Written(text) \in Sets
  BY TextsIn, SetsIn DEF SettingsAssumption
<1>2. panel[Hosts] \in Values[Hosts]
  BY <1>1, SetsIn
<1>3. panel[Hosts] \in Seq(Host) /\ text.set[Hosts] \in Seq(Host)
  BY <1>1, <1>2, SetsIn DEF SettingsAssumption
<1>4. panel[Hosts] \notin Unwritten[Hosts]
  BY <1>2 DEF SettingsAssumption
<1>5. Saved(text).set[Hosts] = panel[Hosts] /\ Saved(text).keys = HostKeys(text)
  BY <1>1, <1>4 DEF Saved, Good, Written
<1> SUFFICES ASSUME NEW i \in DOMAIN text.keys \cap DOMAIN text.set[Hosts],
                    text.keys[i] = text.set[Hosts][i]
             PROVE  text.keys[i] \in WithTheirKeys(Saved(text))
  BY DEF WithTheirKeys
<1>6. i \in DOMAIN panel[Hosts] /\ panel[Hosts][i] = text.keys[i]
  BY <1>3 DEF Continues
<1>7. i \in DOMAIN HostKeys(text) /\ HostKeys(text)[i] = text.keys[i]
  BY <1>1, <1>3, <1>6 DEF HostKeys
<1> QED BY <1>5, <1>6, <1>7 DEF WithTheirKeys

\* A step that loses the user's own text is one of those OwnTextKept names: the
\* file is removed, did not parse, changed after the save read it, or was put
\* there after the load missed it.  And a save that was sure of its text leaves
\* every host its keys.
THEOREM OwnTextLostOnlyAsKnown == SettingsSpec => OwnTextKept
<1>1. SettingsInit => IInv
  BY SettingsAssumption, InitIInv
<1>2. IInv /\ [SettingsNext]_settingsVars => IInv'
  BY SettingsAssumption, StepIInv
<1>3. ASSUME IInv, [SettingsNext]_settingsVars PROVE OwnTextStays
  <2>1. ASSUME NEW text \in Texts, Edit(text) PROVE OwnTextStays
    <3>1. text \in Files /\ (text.kind = "good" => text.own)
      BY SettingsAssumption, TextsIn DEF SettingsAssumption
    <3>2. text.own \/ text.kind = "missing"
      BY <3>1 DEF Files, Bad, Missing, Good
    <3> QED BY <2>1, <3>2 DEF Edit, Becomes, OwnTextStays
  <2>2. CASE SaveRename
    <3>1. PICK save \in saving : file' = save.text
      BY <2>2 DEF SaveRename, Becomes
    <3>2. save.text = Saved(save.read)
      BY <1>3 DEF IInv, SavesOK
    <3>3. save.text.own <=> save.read.kind = "good" /\ save.read.own
      <4> DEFINE own == save.read.kind = "good" /\ save.read.own
      <4>1. save.text = Good(Written(save.read), own, HostKeys(save.read), FALSE)
        BY <3>2 DEF Saved
      <4> HIDE DEF own
      <4>2. save.text.own = own
        BY <4>1 DEF Good
      <4> QED BY <4>2 DEF own
    <3>4. file.own => file.kind \in {"good", "bad"}
      BY <1>3 DEF IInv, SettingsTypeOK, Files, Bad, Missing, Good
    <3> QED BY <3>1, <3>3, <3>4 DEF OwnTextStays
  <2>3. CASE WriteDefault
    BY <2>3 DEF WriteDefault, OwnTextStays
  <2>4. CASE SaveRemove
    BY <2>4 DEF SaveRemove, Becomes, Missing, Good, OwnTextStays
  <2>5. CASE \/ StartWatch \/ Signalled \/ Quiet \/ Reload \/ ReloadMissing \/ Send \/ Take
             \/ Open \/ Close \/ Save \/ SaveFails \/ Used \/ UNCHANGED settingsVars
    <3>1. UNCHANGED file
      BY <2>5 DEF StartWatch, Signalled, Quiet, Reload, ReloadMissing, Send, Task, Take, Used,
                  Zoom, Adjust, AddHost, DeleteHost, Adjusted, Open, Close, Save, InPanel,
                  UserActs, SaveFails, settingsVars
    <3> QED BY <3>1 DEF OwnTextStays
  <2> QED BY <1>3, <2>1, <2>2, <2>3, <2>4, <2>5 DEF SettingsNext, Used
<1>4. ASSUME IInv, [SettingsNext]_settingsVars PROVE HostKeysStay
  <2> SUFFICES ASSUME NEW save \in saving, saving' = {}, save.sure, save.read = file,
                      ~file.inline
               PROVE  WithTheirKeys(file) \subseteq WithTheirKeys(file')
    BY DEF HostKeysStay
  <2>1. saving # {}
    OBVIOUS
  <2>2. CASE SaveRename
    <3>1. PICK other \in saving : file' = other.text
      BY <2>2 DEF SaveRename, Becomes
    <3>2. other = save
      BY <1>4, <3>1 DEF IInv, SavesOK
    <3>3. /\ file' = Saved(file) /\ Continues(panel[Hosts], file.set[Hosts])
          /\ panel \in Sets /\ file \in Files
      BY <1>4, <3>1, <3>2 DEF IInv, SavesOK, SettingsTypeOK
    <3> QED BY <3>3, KeysStay, SettingsAssumption
  <2>3. CASE SaveFails
    BY <2>3 DEF SaveFails
  <2>4. CASE SaveRemove
    BY <2>4 DEF SaveRemove
  <2>5. CASE \/ (\E text \in Texts : Edit(text)) \/ StartWatch \/ Signalled \/ Quiet \/ Reload
             \/ ReloadMissing \/ WriteDefault \/ Send \/ Take \/ Open \/ Close \/ Save \/ Used
             \/ UNCHANGED settingsVars
    <3>1. UNCHANGED saving \/ saving' # {}
      BY <2>5 DEF Edit, StartWatch, Signalled, Quiet, Reload, ReloadMissing, WriteDefault, Send,
                  Task, Take, Used, Zoom, Adjust, AddHost, DeleteHost, Adjusted, Open, Close,
                  Save, InPanel, UserActs, client, settingsVars
    <3> QED BY <2>1, <3>1
  <2> QED BY <1>4, <2>2, <2>3, <2>4, <2>5 DEF SettingsNext, Used
<1>5. SettingsSpec => [][OwnTextStays /\ HostKeysStay]_settingsVars
  <2>1. IInv /\ [SettingsNext]_settingsVars => [OwnTextStays /\ HostKeysStay]_settingsVars
    BY <1>3, <1>4
  <2> QED BY <1>1, <1>2, <2>1, PTL DEF SettingsSpec
<1> QED BY <1>5 DEF OwnTextKept
=============================================================================
