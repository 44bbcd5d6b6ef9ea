------------------------------- MODULE Atlas ---------------------------------
(***************************************************************************)
(* The glyph atlas of the graphical client: one square texture in which    *)
(* glyphs are packed in rows, the caches that say where they are, what     *)
(* happens when it is full, and its growth between frames                  *)
(* (nexterm-client-gpu/src/glyph_atlas.rs and renderer/grid_verts.rs).     *)
(*                                                                         *)
(* A bitmap is a model value with a size; the texture is a function from   *)
(* pixels to the bitmap that was written there last.  The LRU caches are   *)
(* a library's: sequences, the entry used last in front.                   *)
(***************************************************************************)
EXTENDS Integers, FiniteSets, SequencesExt

CONSTANTS
  Glyph,       \* the keys of single glyphs, each with its bitmap of that name
  Char,        \* the characters of the rows that are shaped as a whole
  Blank,       \* a blank cell of a row
  Row,         \* the rows drawn with ligatures, sequences of Char and Blank
  Width,       \* of a bitmap, in pixels
  Height,
  SizeInit,    \* of the texture, in pixels
  SizeMax,
  IconArea,    \* ICON_RESERVED_AREA
  CellArea,    \* the area of a cell of the font
  MinEntries,  \* the least capacity of a cache
  MaxDrawn     \* bound on the rectangles a frame uses

Bitmap == Glyph \cup Char

ASSUME AtlasAssumption ==
  /\ Glyph \cap Char = {} /\ Blank \notin Bitmap
  /\ Row \subseteq Seq(Char \cup {Blank})
  /\ SizeInit \in Nat \ {0} /\ SizeMax \in Nat /\ SizeInit <= SizeMax
  /\ Width \in [Bitmap -> 1 .. SizeInit] /\ Height \in [Bitmap -> 1 .. SizeInit]
  /\ IconArea \in Nat /\ CellArea \in Nat \ {0} /\ MinEntries \in Nat \ {0} /\ MaxDrawn \in Nat

VARIABLES
  size,      \* of the texture
  pixels,    \* what was written where
  cursor,    \* [x, y, row_height]
  cache,     \* the entries of both caches
  area,      \* cache_area and ligature_area
  cleared_this_frame,
  needs_grow,
  used       \* the answers of this frame: what was asked, what is where

texture   == <<size, pixels, cursor>>
atlasVars == <<texture, cache, area, cleared_this_frame, needs_grow, used>>

Kinds == {"glyph", "ligature"}

LigatureKeys == [col : Nat, text : Seq(Char)]
CacheKeys == Glyph \cup LigatureKeys

\* A GlyphRect, in pixels.
Pixels(r) == {<<x, y>> : x \in r.x .. r.x + r.w - 1, y \in r.y .. r.y + r.h - 1}

rect_area(entry) == entry.rect.w * entry.rect.h
AreaOf(entries) == FoldLeft(LAMBDA sum, e : sum + rect_area(e), 0, entries)

Saturating(n) == IF n < 0 THEN 0 ELSE n

Usable(sz) == Saturating(sz * sz - IconArea)

lru_cap(sz) == Max({Usable(sz) \div CellArea, MinEntries})

Origin == [x |-> 0, y |-> 0, row_height |-> 0]
NoCacheEntries == [k \in Kinds |-> << >>]
NoArea    == [k \in Kinds |-> 0]
Cleared(sz) == [p \in (0 .. sz - 1) \X (0 .. sz - 1) |-> Blank]

\* with_size.
Fresh(sz) ==
  /\ size' = sz
  /\ pixels' = Cleared(sz)
  /\ cursor' = Origin
  /\ cache' = NoCacheEntries
  /\ area' = NoArea
  /\ needs_grow' = FALSE
  /\ cleared_this_frame' = FALSE
  /\ used' = {}

AtlasInit ==
  /\ size = SizeInit
  /\ pixels = Cleared(SizeInit)
  /\ cursor = Origin
  /\ cache = NoCacheEntries
  /\ area = NoArea
  /\ needs_grow = FALSE
  /\ cleared_this_frame = FALSE
  /\ used = {}

-----------------------------------------------------------------------------
(***************************************************************************)
(* get_or_insert and get_or_insert_ligature.                               *)
(***************************************************************************)

Cached(kind, key) == \E i \in DOMAIN cache[kind] : cache[kind][i].key = key

\* The entry moves to the front.
Hit(kind, key, bitmap) ==
  /\ Cached(kind, key)
  /\ LET i == SelectInSeq(cache[kind], LAMBDA e : e.key = key)
         e == cache[kind][i] IN
       /\ cache' = [cache EXCEPT ![kind] = <<e>> \o RemoveAt(@, i)]
       /\ used' = used \cup {[asked |-> bitmap, bitmap |-> e.bitmap, rect |-> e.rect]}
  /\ UNCHANGED <<texture, area, cleared_this_frame, needs_grow>>

\* Mutant of NextRow: no gutter between the rows.
NextRow_no_gutter(c, w) ==
  IF c.x + w > size
    THEN [x |-> 0, y |-> c.y + c.row_height, row_height |-> 0]
    ELSE c

\* Past the right edge a row is begun, one pixel below the tallest of the last.
NextRow(c, w) ==
  IF c.x + w > size
    THEN [x |-> 0, y |-> c.y + c.row_height + 1, row_height |-> 0]
    ELSE c

\* Mutant of insert_with_area_budget: the entry the LRU drops stays in the sum.
insert_with_area_budget_kept(entries, sum, entry) ==
  LET pushed == <<entry>> \o (IF Len(entries) = lru_cap(size) THEN Front(entries) ELSE entries)
      total  == sum + rect_area(entry)
      left(n) == Saturating(total - AreaOf(SubSeq(pushed, n + 1, Len(pushed))))
      kept   == Max({1} \cup {n \in 1 .. Len(pushed) : left(n) <= Usable(size)})
  IN [entries |-> SubSeq(pushed, 1, kept), area |-> left(kept)]

\* The LRU drops its last entry at its capacity; more go while the sum of the
\* areas is over the budget and an entry besides the new one is left.
insert_with_area_budget(entries, sum, entry) ==
  LET full   == Len(entries) = lru_cap(size)
      pushed == <<entry>> \o (IF full THEN Front(entries) ELSE entries)
      total  == Saturating(sum - IF full THEN rect_area(Last(entries)) ELSE 0) + rect_area(entry)
      left(n) == Saturating(total - AreaOf(SubSeq(pushed, n + 1, Len(pushed))))
      kept   == Max({1} \cup {n \in 1 .. Len(pushed) : left(n) <= Usable(size)})
  IN [entries |-> SubSeq(pushed, 1, kept), area |-> left(kept)]

\* Mutant of Emptied: the other cache keeps its entries.
Emptied_own(kind) == [cache EXCEPT ![kind] = << >>]

\* Both caches hand out rectangles of the one texture.
Emptied(kind) == NoCacheEntries

\* Mutant of Begun: the flag is left alone.
Begun_silently(full) ==
  /\ needs_grow' = (needs_grow \/ (full /\ size < SizeMax))
  /\ UNCHANGED cleared_this_frame

Begun(full) ==
  /\ cleared_this_frame' = (cleared_this_frame \/ full)
  /\ needs_grow' = (needs_grow \/ (full /\ size < SizeMax))

Full(c, h) == c.y + h > size

\* The bitmap is written at the cursor.  A texture without room for it is begun
\* again: both caches are emptied, and below its largest size it is to grow.
Insert(kind, key, bitmap) ==
  /\ ~Cached(kind, key)
  /\ LET w     == Width[bitmap]
         h     == Height[bitmap]
         next  == NextRow(cursor, w)
         full  == Full(next, h)
         at    == IF full THEN Origin ELSE next
         rect  == [x |-> at.x, y |-> at.y, w |-> w, h |-> h]
         kept  == IF full THEN Emptied(kind) ELSE cache
         sums  == IF full THEN NoArea ELSE area
         added == insert_with_area_budget(kept[kind], sums[kind],
                    [key |-> key, bitmap |-> bitmap, rect |-> rect])
     IN /\ pixels' = [p \in DOMAIN pixels |-> IF p \in Pixels(rect) THEN bitmap ELSE pixels[p]]
        /\ cursor' = [x |-> at.x + w + 1, y |-> at.y, row_height |-> Max({at.row_height, h})]
        /\ cache' = [kept EXCEPT ![kind] = added.entries]
        /\ area' = [sums EXCEPT ![kind] = added.area]
        /\ Begun(full)
        /\ used' = used \cup {[asked |-> bitmap, bitmap |-> bitmap, rect |-> rect]}
  /\ UNCHANGED size

get_or_insert(kind, key, bitmap) ==
  /\ Hit(kind, key, bitmap) \/ Insert(kind, key, bitmap)
  /\ Cardinality(used') <= MaxDrawn

DrawGlyph(g) == get_or_insert("glyph", g, g)

\* The text of a row is that of its cells that are not blank.
RowText(row) == SelectSeq(row, LAMBDA c : c # Blank)

DrawLigature(row, col) ==
  /\ row[col] # Blank
  /\ get_or_insert("ligature", [col |-> col, text |-> RowText(row)], row[col])

-----------------------------------------------------------------------------
(***************************************************************************)
(* Between frames.                                                         *)
(***************************************************************************)

\* After the frame the texture grows if it asked to; the next one clears the flag.
NextFrame ==
  IF needs_grow
    THEN Fresh(Min({size * 2, SizeMax}))
    ELSE /\ cleared_this_frame' = FALSE
         /\ used' = {}
         /\ UNCHANGED <<texture, cache, area, needs_grow>>

\* Another font has an atlas of its own.
AtlasForFont == Fresh(SizeInit)

AtlasNext ==
  \/ \E g \in Glyph : DrawGlyph(g)
  \/ \E row \in Row : \E col \in DOMAIN row : DrawLigature(row, col)
  \/ NextFrame
  \/ AtlasForFont

AtlasSpec == AtlasInit /\ [][AtlasNext]_atlasVars

-----------------------------------------------------------------------------
(***************************************************************************)
(* Properties.                                                             *)
(***************************************************************************)

CacheEntries == UNION {{cache[k][i] : i \in DOMAIN cache[k]} : k \in Kinds}

InTexture(r) == r.x >= 0 /\ r.y >= 0 /\ r.x + r.w <= size /\ r.y + r.h <= size

\* The type of the state.  An entry lies within the texture.
AtlasTypeOK ==
  /\ size \in SizeInit .. SizeMax
  /\ pixels \in [(0 .. size - 1) \X (0 .. size - 1) -> Bitmap \cup {Blank}]
  /\ cursor \in [x : 0 .. size + 1, y : 0 .. size, row_height : 0 .. size]
  /\ \A e \in CacheEntries : e.key \in CacheKeys /\ e.bitmap \in Bitmap /\ InTexture(e.rect)
  /\ area \in [Kinds -> Nat]
  /\ cleared_this_frame \in BOOLEAN /\ needs_grow \in BOOLEAN

Holds(r, bitmap) == \A p \in Pixels(r) : pixels[p] = bitmap

\* Whatever was written since, the pixels of an entry of either cache are those
\* of its bitmap: a texture that is begun again leaves no entry behind, in the
\* cache that asked or in the other one.
RectsHoldTheirGlyphs == \A e \in CacheEntries : Holds(e.rect, e.bitmap)

\* What a frame was told still holds when it is shown, also after the caches
\* have forgotten it, unless the frame knows that the texture was begun again.
FrameIsWholeUnlessCleared ==
  cleared_this_frame \/ \A u \in used : Holds(u.rect, u.bitmap)

\* Entries do not touch: filtering at the edge of one reads none of another.
RectsKeepApart ==
  \A e, f \in CacheEntries :
    \/ e = f
    \/ e.rect.x + e.rect.w < f.rect.x \/ f.rect.x + f.rect.w < e.rect.x
    \/ e.rect.y + e.rect.h < f.rect.y \/ f.rect.y + f.rect.h < e.rect.y

\* The sums are those of the entries, through hits, both ways of dropping
\* entries, resets and growth; a cache of more than one entry is in its budget.
AreaAccounted ==
  \A k \in Kinds :
    /\ area[k] = AreaOf(cache[k])
    /\ Len(cache[k]) <= lru_cap(size)
    /\ area[k] <= Usable(size) \/ Len(cache[k]) <= 1

\* "Ligatures are context-dependent, so the surrounding text is part of the
\* cache key too" (glyph_atlas.rs:163-164): what a row is told is its bitmap.
HitIsTheGlyph == \A u \in used : u.asked = u.bitmap
=============================================================================
