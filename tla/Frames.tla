------------------------------- MODULE Frames --------------------------------
(***************************************************************************)
(* How the graphical client paints its panes: the messages and inputs that *)
(* ask winit for a redraw, the frame cap, the pass over the panes with its *)
(* cache of vertices, what is drawn after it, and the growth of the glyph  *)
(* atlas (nexterm-client-gpu/src/renderer/render_frame.rs and mod.rs,      *)
(* event_handler/lifecycle.rs and window.rs).                              *)
(*                                                                         *)
(* The main thread does everything: nothing happens to the state while a   *)
(* frame is drawn.  A grid is the number of times it changed, and the      *)
(* atlas the number of times its texture was started over, since vertices  *)
(* made before point at whatever was packed there later.  What fills the   *)
(* atlas, and when, is Atlas's: here any drawing may overflow it.          *)
(***************************************************************************)
EXTENDS Integers, FiniteSets, Functions

CONSTANTS
  Pane,        \* the panes of the client
  Cells,       \* the cell sizes of the fonts that can be configured
  MaxChanges,  \* bound on the messages and reconfigurations
  MaxResets    \* bound on the times the atlas overflows

ASSUME FramesAssumption ==
  /\ IsFiniteSet(Pane) /\ Pane # {} /\ Cells # {}
  /\ MaxChanges \in Nat /\ MaxResets \in Nat

VARIABLES
  grid,          \* the version of each pane's grid and colours
  content_dirty, \* the panes whose content_dirty is set
  pane_layouts,  \* the panes that have a place on the screen
  focused,       \* focused_pane_id
  scrolled,      \* the panes with scroll_offset > 0
  visible,       \* the blink phase of the cursor
  cell,          \* the cell size of the font
  atlas,         \* [gen, cleared_this_frame, needs_grow]
  pane_cache,    \* the vertices kept for some panes
  fps_limited,   \* is gpu.fps_limit more than 0?
  redraw,        \* has a redraw been requested of winit?
  recent,        \* is the last frame less than 1/fps_limit ago?
  pc,            \* where the main thread is in a frame
  todo,          \* the panes left in this frame
  drawn,         \* the vertices of this frame's panes, and then those on screen
  garbled,       \* does the screen show vertices of an atlas that was started over?
  missed,        \* history: changed, but unmarked by a frame that did not draw them
  late,          \* history: cached when the atlas changed outside the pane pass
  lost,          \* history: did the last frame find no surface to draw on?
  changes, resets

state == <<grid, content_dirty, pane_layouts, focused, scrolled, visible, cell, fps_limited>>
frame == <<pc, todo, drawn>>
ghost == <<missed, late, lost, changes, resets>>
vars  == <<state, atlas, pane_cache, redraw, recent, frame, garbled, ghost>>

\* Vertices: the grid they show and the atlas they point into.
Verts == [grid : Nat, gen : Nat]

\* PaneRenderCache: the parameters the vertices were built under.  The place of
\* the cursor is one more, which new content may well leave as it was.
Key(p) == [cell |-> cell, focused |-> p = focused, visible |-> visible]
Keys   == [cell : Cells, focused : BOOLEAN, visible : BOOLEAN]

Init ==
  /\ grid = [p \in Pane |-> 0]
  /\ content_dirty = Pane
  /\ pane_layouts \in SUBSET Pane \ {{}}
  /\ focused \in pane_layouts
  /\ scrolled = {}
  /\ visible = TRUE
  /\ cell \in Cells
  /\ atlas = [gen |-> 0, cleared_this_frame |-> FALSE, needs_grow |-> FALSE]
  /\ pane_cache = << >>
  /\ fps_limited \in BOOLEAN
  /\ redraw = TRUE
  /\ recent = FALSE
  /\ pc = "idle"
  /\ todo = {}
  /\ drawn = << >>
  /\ garbled = FALSE
  /\ missed = {}
  /\ late = {}
  /\ lost = FALSE
  /\ changes = 0
  /\ resets = 0

-----------------------------------------------------------------------------
(***************************************************************************)
(* Between frames: messages, keys and the clock.                           *)
(***************************************************************************)

Idle == pc = "idle" /\ UNCHANGED <<fps_limited, recent, frame, garbled, missed, lost, resets>>

\* Mutant of Change: a message that is applied without asking for a redraw.
Change_no_redraw ==
  /\ Idle
  /\ changes < MaxChanges
  /\ changes' = changes + 1
  /\ UNCHANGED redraw

Change ==
  /\ Idle
  /\ changes < MaxChanges
  /\ changes' = changes + 1
  /\ redraw' = TRUE

\* apply_diff: the rows, and back to the live screen.
GridDiff(p) ==
  /\ Change
  /\ grid' = [grid EXCEPT ![p] = @ + 1]
  /\ content_dirty' = content_dirty \cup {p}
  /\ scrolled' = scrolled \ {p}
  /\ UNCHANGED <<pane_layouts, focused, visible, cell, atlas, pane_cache, late>>

\* FullRefresh and PaneColorsChanged leave a pane that is scrolled back so.
Refreshed(p) ==
  /\ Change
  /\ grid' = [grid EXCEPT ![p] = @ + 1]
  /\ content_dirty' = content_dirty \cup {p}
  /\ UNCHANGED <<pane_layouts, focused, scrolled, visible, cell, atlas, pane_cache, late>>

\* Other panes are shown (another window, zoom) or another one is focused.
LayoutChanged(shown, f) ==
  /\ Change
  /\ f \in shown
  /\ pane_layouts' = shown
  /\ focused' = f
  /\ UNCHANGED <<grid, content_dirty, scrolled, visible, cell, atlas, pane_cache, late>>

\* scroll_up and scroll_down, which only move the focused pane's offset.
Scroll ==
  /\ Change
  /\ scrolled' = IF focused \in scrolled THEN scrolled \ {focused} ELSE scrolled \cup {focused}
  /\ UNCHANGED <<grid, content_dirty, pane_layouts, focused, visible, cell, atlas, pane_cache,
                 late>>

\* A reloaded configuration with another font: another size, or only another
\* family or ligature setting.  The atlas is replaced, the vertices are not.
FontChanged(c) ==
  /\ Change
  /\ cell' = c
  /\ atlas' = [gen |-> atlas.gen + 1, cleared_this_frame |-> FALSE, needs_grow |-> FALSE]
  /\ late' = late \cup DOMAIN pane_cache
  /\ UNCHANGED <<grid, content_dirty, pane_layouts, focused, scrolled, visible, pane_cache>>

\* Time passes: the cursor blinks, which asks for no redraw.
Blink ==
  /\ Idle
  /\ visible' = ~visible
  /\ UNCHANGED <<grid, content_dirty, pane_layouts, focused, scrolled, cell, atlas,
                 pane_cache, redraw, late, changes>>

FramePeriodPasses ==
  /\ recent
  /\ recent' = FALSE
  /\ UNCHANGED <<state, atlas, pane_cache, redraw, frame, garbled, ghost>>

-----------------------------------------------------------------------------
(***************************************************************************)
(* A frame.                                                                *)
(***************************************************************************)

\* The request is used up, and the frame cap may still drop the frame.
SkipFrame ==
  /\ pc = "idle" /\ redraw
  /\ fps_limited /\ recent
  /\ redraw' = FALSE
  /\ UNCHANGED <<state, atlas, pane_cache, recent, frame, garbled, ghost>>

\* The request is used up and the frame counts as drawn.
Begin ==
  /\ pc = "idle" /\ redraw
  /\ ~(fps_limited /\ recent)
  /\ redraw' = FALSE
  /\ recent' = TRUE
  /\ atlas' = [atlas EXCEPT !.cleared_this_frame = FALSE]

StartFrame ==
  /\ Begin
  /\ pc' = "panes"
  /\ todo' = pane_layouts
  /\ drawn' = << >>
  /\ lost' = FALSE
  /\ UNCHANGED <<state, pane_cache, garbled, missed, late, changes, resets>>

\* get_current_texture fails: the surface is configured anew or a warning is
\* logged, nothing is drawn, and no other frame is asked for.
LostFrame ==
  /\ Begin
  /\ lost' = TRUE
  /\ UNCHANGED <<state, pane_cache, frame, garbled, missed, late, changes, resets>>

\* Drawing text that is not in the atlas may find no room and start it over.
\* Below its largest size it also asks to be grown after the frame.
MayOverflow ==
  \/ UNCHANGED <<atlas, resets>>
  \/ /\ resets < MaxResets
     /\ resets' = resets + 1
     /\ \E grow \in BOOLEAN :
          atlas' = [gen |-> atlas.gen + 1, cleared_this_frame |-> TRUE,
                    needs_grow |-> atlas.needs_grow \/ grow]

InHistory(p) == p \in scrolled /\ p = focused

\* Mutant of cache_valid: content_dirty is not looked at.
cache_valid_dirty(p) ==
  /\ ~atlas.cleared_this_frame
  /\ p \in DOMAIN pane_cache
  /\ pane_cache[p].key = Key(p)

cache_valid(p) ==
  /\ ~atlas.cleared_this_frame
  /\ p \in DOMAIN pane_cache
  /\ p \notin content_dirty
  /\ pane_cache[p].key = Key(p)

\* HashMap::insert.
Inserted(map, p, x) == [q \in DOMAIN map \cup {p} |-> IF q = p THEN x ELSE map[q]]

TakePane(p) ==
  /\ pc = "panes" /\ p \in todo
  /\ todo' = todo \ {p}
  /\ UNCHANGED <<state, redraw, recent, pc, garbled, lost, changes>>

\* The scrollback is drawn anew every frame.
DrawHistory(p) ==
  /\ TakePane(p)
  /\ InHistory(p)
  /\ MayOverflow
  /\ UNCHANGED <<pane_cache, drawn, missed, late>>

\* The block overlay over it is never cached.
DrawCached(p) ==
  /\ TakePane(p)
  /\ ~InHistory(p) /\ cache_valid(p)
  /\ drawn' = Inserted(drawn, p, pane_cache[p].verts)
  /\ MayOverflow
  /\ UNCHANGED <<pane_cache, missed, late>>

\* An overflow on the way leaves the first glyphs of the pane in the old atlas.
DrawAnew(p) ==
  /\ TakePane(p)
  /\ ~InHistory(p) /\ ~cache_valid(p)
  /\ LET verts == [grid |-> grid[p], gen |-> atlas.gen] IN
       /\ drawn' = Inserted(drawn, p, verts)
       /\ pane_cache' = Inserted(pane_cache, p, [verts |-> verts, key |-> Key(p)])
  /\ MayOverflow
  /\ missed' = missed \ {p}
  /\ late' = late \ {p}

\* Mutant of EndPanes: the cache survives an overflow.
EndPanes_keeps_cache ==
  /\ pc = "panes" /\ todo = {}
  /\ pc' = "chrome"
  /\ content_dirty' = {}
  /\ missed' = missed \cup (content_dirty \ DOMAIN drawn)
  /\ UNCHANGED <<grid, pane_layouts, focused, scrolled, visible, cell, fps_limited, atlas,
                 pane_cache, redraw, recent, todo, drawn, garbled, late, lost, changes, resets>>

\* Every pane is unmarked, and an overflow of this pass empties the cache.
EndPanes ==
  /\ pc = "panes" /\ todo = {}
  /\ pc' = "chrome"
  /\ content_dirty' = {}
  /\ missed' = missed \cup (content_dirty \ DOMAIN drawn)
  /\ IF atlas.cleared_this_frame
       THEN pane_cache' = << >> /\ late' = {}
       ELSE UNCHANGED <<pane_cache, late>>
  /\ UNCHANGED <<grid, pane_layouts, focused, scrolled, visible, cell, fps_limited, atlas,
                 redraw, recent, todo, drawn, garbled, lost, changes, resets>>

\* The tab bar, the status bar and the overlays, which overflow the atlas too.
DrawChrome ==
  /\ pc = "chrome"
  /\ pc' = "present"
  /\ MayOverflow
  /\ late' = IF atlas'.gen # atlas.gen THEN late \cup DOMAIN pane_cache ELSE late
  /\ UNCHANGED <<state, pane_cache, redraw, recent, todo, drawn, garbled, missed, lost, changes>>

\* The frame is shown, and after it the atlas is grown if it asked to be.
Present ==
  /\ pc = "present"
  /\ pc' = "idle"
  /\ garbled' = \E p \in DOMAIN drawn : drawn[p].gen # atlas.gen
  /\ IF atlas.needs_grow
       THEN /\ atlas' = [gen |-> atlas.gen + 1, cleared_this_frame |-> TRUE, needs_grow |-> FALSE]
            /\ late' = late \cup DOMAIN pane_cache
       ELSE UNCHANGED <<atlas, late>>
  /\ UNCHANGED <<state, pane_cache, redraw, recent, todo, drawn, missed, lost, changes, resets>>

-----------------------------------------------------------------------------

DrawPane(p) == DrawHistory(p) \/ DrawCached(p) \/ DrawAnew(p)

Next ==
  \/ \E p \in Pane : GridDiff(p) \/ Refreshed(p)
  \/ \E shown \in SUBSET Pane : \E f \in shown : LayoutChanged(shown, f)
  \/ Scroll
  \/ \E c \in Cells : FontChanged(c)
  \/ Blink
  \/ FramePeriodPasses
  \/ SkipFrame
  \/ StartFrame
  \/ LostFrame
  \/ \E p \in Pane : DrawPane(p)
  \/ EndPanes
  \/ DrawChrome
  \/ Present

\* winit delivers a redraw that was requested, and a frame runs to its end.
Fairness ==
  /\ WF_vars(SkipFrame) /\ WF_vars(StartFrame) /\ WF_vars(FramePeriodPasses)
  /\ WF_vars(\E p \in Pane : DrawPane(p))
  /\ WF_vars(EndPanes) /\ WF_vars(DrawChrome) /\ WF_vars(Present)

Spec     == Init /\ [][Next]_vars
FairSpec == Spec /\ Fairness

-----------------------------------------------------------------------------
(***************************************************************************)
(* Properties.                                                             *)
(***************************************************************************)

Entries == [verts : Verts, key : Keys]

\* The type of the state.
TypeOK ==
  /\ grid \in [Pane -> Nat]
  /\ content_dirty \subseteq Pane /\ scrolled \subseteq Pane /\ missed \subseteq Pane
  /\ focused \in pane_layouts /\ pane_layouts \subseteq Pane
  /\ visible \in BOOLEAN /\ cell \in Cells
  /\ atlas \in [gen : Nat, cleared_this_frame : BOOLEAN, needs_grow : BOOLEAN]
  /\ DOMAIN pane_cache \subseteq Pane /\ Range(pane_cache) \subseteq Entries
  /\ fps_limited \in BOOLEAN /\ redraw \in BOOLEAN /\ recent \in BOOLEAN /\ garbled \in BOOLEAN
  /\ lost \in BOOLEAN
  /\ pc \in {"idle", "panes", "chrome", "present"}
  /\ todo \subseteq Pane
  /\ DOMAIN drawn \subseteq Pane /\ Range(drawn) \subseteq Verts
  /\ late \subseteq DOMAIN pane_cache
  /\ changes \in 0 .. MaxChanges /\ resets \in 0 .. MaxResets

InFrame == pc \in {"panes", "chrome", "present"}

\* A frame shows an old grid of a pane only if an earlier frame unmarked the
\* pane without drawing its grid, because it had no place on the screen or was
\* scrolled back: no other order of messages, frames and overflows leaves
\* vertices of an old grid in use.
OldGridOnlyIfMissed ==
  InFrame => \A p \in DOMAIN drawn : drawn[p].grid = grid[p] \/ p \in missed

\* A frame points into an atlas that was started over only if that happened in
\* this frame, or outside the pane pass since the vertices were built.
OldAtlasOnlyIfLate ==
  InFrame => \A p \in DOMAIN drawn :
    \/ drawn[p].gen = atlas.gen
    \/ atlas.cleared_this_frame
    \/ p \in late

LiveScreenIsCurrent ==
  \A p \in pane_layouts \ missed :
    ~InHistory(p) => p \in DOMAIN drawn /\ drawn[p].grid = grid[p]

\* Without a frame cap, once no message arrives any more every pane that is
\* shown live and was not missed is on screen as it is, unless the last frame
\* found no surface (render_frame.rs:246-253): no message, overflow or growth of
\* the atlas loses the last redraw, and a frame after a lost one draws it all.
QuietScreenIsCurrent ==
  ~fps_limited => <>[](pc = "idle" /\ ~lost => LiveScreenIsCurrent)

\* gpu.fps_limit is a "Frame-rate cap" (nexterm-config/src/schema/gpu.rs:139):
\* it delays what is shown, and keeps nothing off the screen for good.
CapOnlyDelays == <>[](pc = "idle" => LiveScreenIsCurrent)

\* The cached vertices are "reused every subsequent frame until the content
\* changes" (renderer/mod.rs:76-77): a frame never shows an old grid.
CacheFollowsContent == InFrame => \A p \in DOMAIN drawn : drawn[p].grid = grid[p]

\* ... "or the glyph atlas is reset" (renderer/mod.rs:77).
CacheFollowsAtlas ==
  InFrame => \A p \in DOMAIN drawn : drawn[p].gen = atlas.gen \/ atlas.cleared_this_frame

\* An atlas that overflowed within a frame "forces a redraw next frame to avoid"
\* garbled glyphs (glyph_atlas.rs:426-428).
OverflowIsRedrawn == pc = "idle" /\ garbled => redraw
=============================================================================
