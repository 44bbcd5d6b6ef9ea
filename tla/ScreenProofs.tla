----------------------------- MODULE ScreenProofs -----------------------------
(***************************************************************************)
(* Theorems about Screen, for every size of the grid, every limit of the   *)
(* scrollback and any number of sequences: what the reader keeps of the    *)
(* screen between two bursts is enough.  Every operation of the parser is  *)
(* shown to change only rows it marks and to add to `off` exactly the line *)
(* it pushes out; the rest follows from the reader's step.                 *)
(***************************************************************************)
EXTENDS Screen, CountingLemmas, SequenceTheorems, TLAPS

-----------------------------------------------------------------------------
(***************************************************************************)
(* The tail of a sequence.                                                 *)
(***************************************************************************)

\* s is what t ends with, element by element.
TailOf(s, t) ==
  /\ Len(s) <= Len(t)
  /\ \A i \in 1 .. Len(s) : s[i] = t[Len(t) - Len(s) + i]

LEMMA TailIsSuffix ==
  ASSUME NEW S, NEW s \in Seq(S), NEW t \in Seq(S), TailOf(s, t)
  PROVE  IsSuffix(s, t)
<1> DEFINE r == Reverse(s)
           q == Reverse(t)
<1>1. r \in Seq(S) /\ Len(r) = Len(s) /\ \A i \in 1 .. Len(s) : r[i] = s[Len(s) - i + 1]
  BY DEF Reverse
<1>2. q \in Seq(S) /\ Len(q) = Len(t) /\ \A i \in 1 .. Len(t) : q[i] = t[Len(t) - i + 1]
  BY DEF Reverse
<1> HIDE DEF r, q
<1>3. \A i \in 1 .. Len(s) : r[i] = q[i]
  <2> SUFFICES ASSUME NEW i \in 1 .. Len(s) PROVE r[i] = q[i]
    OBVIOUS
  <2>1. Len(s) \in Nat /\ Len(t) \in Nat /\ Len(s) <= Len(t)
    BY DEF TailOf
  <2>2. Len(s) - i + 1 \in 1 .. Len(s) /\ i \in 1 .. Len(t)
    BY <2>1
  <2>3. s[Len(s) - i + 1] = t[Len(t) - Len(s) + (Len(s) - i + 1)]
    BY <2>2 DEF TailOf
  <2>4. Len(t) - Len(s) + (Len(s) - i + 1) = Len(t) - i + 1
    BY <2>1
  <2> QED BY <1>1, <1>2, <2>2, <2>3, <2>4
<1>4. Len(r) <= Len(q)
  BY <1>1, <1>2 DEF TailOf
<1>5. SubSeq(r, 1, Len(r)) = SubSeq(q, 1, Len(r))
  <2> DEFINE a == SubSeq(r, 1, Len(r))
             b == SubSeq(q, 1, Len(r))
  <2>1. Len(r) \in Nat /\ Len(q) \in Nat
    BY <1>1, <1>2
  <2>2. a \in Seq(S) /\ Len(a) = Len(r) /\ \A i \in 1 .. Len(r) : a[i] = r[i]
    BY <1>1, <2>1, SubSeqProperties
  <2>3. b \in Seq(S) /\ Len(b) = Len(r) /\ \A i \in 1 .. Len(r) : b[i] = q[i]
    <3>1. \A i \in 1 .. Len(r) : q[i] \in S
      BY <1>2, <1>4, <2>1
    <3>2. /\ SubSeq(q, 1, Len(r)) \in Seq(S)
          /\ Len(SubSeq(q, 1, Len(r))) = IF 1 <= Len(r) THEN Len(r) - 1 + 1 ELSE 0
          /\ \A i \in 1 .. Len(r) - 1 + 1 : SubSeq(q, 1, Len(r))[i] = q[1 + i - 1]
      BY <2>1, <3>1, SubSeqProperties
    <3> QED BY <2>1, <3>2
  <2> HIDE DEF a, b
  <2>4. a = b
    BY <1>1, <1>3, <2>2, <2>3, SeqEqual
  <2> QED BY <2>4 DEF a, b
<1> QED BY <1>4, <1>5 DEF IsSuffix, IsPrefix, r, q

\* The same elements are added to both.
LEMMA TailOfLonger ==
  ASSUME NEW S, NEW s \in Seq(S), NEW t \in Seq(S), NEW u \in Seq(S), TailOf(s, t)
  PROVE  TailOf(s \o u, t \o u)
<1>1. /\ Len(s \o u) = Len(s) + Len(u) /\ Len(t \o u) = Len(t) + Len(u)
      /\ Len(s) \in Nat /\ Len(t) \in Nat /\ Len(u) \in Nat /\ Len(s) <= Len(t)
  BY ConcatProperties DEF TailOf
<1>2. ASSUME NEW i \in 1 .. Len(s) + Len(u)
      PROVE  (s \o u)[i] = (t \o u)[Len(t) - Len(s) + i]
  <2>1. Len(t) - Len(s) + i \in 1 .. Len(t) + Len(u)
    BY <1>1
  <2>2. /\ (s \o u)[i] = IF i <= Len(s) THEN s[i] ELSE u[i - Len(s)]
        /\ (t \o u)[Len(t) - Len(s) + i] =
             IF Len(t) - Len(s) + i <= Len(t) THEN t[Len(t) - Len(s) + i]
             ELSE u[Len(t) - Len(s) + i - Len(t)]
    BY <1>1, <2>1, ConcatProperties
  <2>3. CASE i <= Len(s)
    BY <1>1, <2>2, <2>3 DEF TailOf
  <2>4. CASE i > Len(s)
    <3>1. Len(t) - Len(s) + i - Len(t) = i - Len(s) /\ ~ (Len(t) - Len(s) + i <= Len(t))
      BY <1>1, <2>4
    <3> QED BY <1>1, <2>2, <2>4, <3>1
  <2> QED BY <1>1, <2>3, <2>4
<1>3. (Len(t) + Len(u)) - (Len(s) + Len(u)) = Len(t) - Len(s)
  BY <1>1
<1> QED BY <1>1, <1>2, <1>3 DEF TailOf

\* What Retained keeps: the n newest elements.
LEMMA NewestElements ==
  ASSUME NEW S, NEW s \in Seq(S), NEW n \in 0 .. Len(s)
  PROVE  LET b == SubSeq(s, Len(s) - n + 1, Len(s))
         IN  /\ b \in Seq(S) /\ Len(b) = n
             /\ \A i \in 1 .. n : b[i] = s[Len(s) - n + i]
<1> DEFINE m == Len(s) - n + 1
<1>1. Len(s) \in Nat /\ m \in Int
  OBVIOUS
<1>2. \A i \in m .. Len(s) : s[i] \in S
  BY <1>1
<1>3. /\ SubSeq(s, m, Len(s)) \in Seq(S)
      /\ Len(SubSeq(s, m, Len(s))) = IF m <= Len(s) THEN Len(s) - m + 1 ELSE 0
      /\ \A i \in 1 .. Len(s) - m + 1 : SubSeq(s, m, Len(s))[i] = s[m + i - 1]
  BY <1>1, <1>2, SubSeqProperties
<1>4. /\ (IF m <= Len(s) THEN Len(s) - m + 1 ELSE 0) = n
      /\ Len(s) - m + 1 = n
      /\ \A i \in 1 .. n : m + i - 1 = Len(s) - n + i
  BY <1>1
<1> QED BY <1>3, <1>4

\* Keeping the newest elements keeps a tail.
LEMMA TailOfNewest ==
  ASSUME NEW S, NEW s \in Seq(S), NEW t \in Seq(S), TailOf(s, t), NEW n \in 0 .. Len(s)
  PROVE  TailOf(SubSeq(s, Len(s) - n + 1, Len(s)), t)
<1> DEFINE b == SubSeq(s, Len(s) - n + 1, Len(s))
<1>1. Len(b) = n /\ \A i \in 1 .. n : b[i] = s[Len(s) - n + i]
  BY NewestElements
<1> HIDE DEF b
<1>2. Len(s) \in Nat /\ Len(t) \in Nat /\ Len(s) <= Len(t)
  BY DEF TailOf
<1>3. ASSUME NEW i \in 1 .. n PROVE b[i] = t[Len(t) - n + i]
  <2>1. Len(s) - n + i \in 1 .. Len(s)
    BY <1>2
  <2>2. s[Len(s) - n + i] = t[Len(t) - Len(s) + (Len(s) - n + i)]
    BY <2>1 DEF TailOf
  <2>3. Len(t) - Len(s) + (Len(s) - n + i) = Len(t) - n + i
    BY <1>2
  <2> QED BY <1>1, <2>2, <2>3
<1>4. n <= Len(t)
  BY <1>2
<1> QED BY <1>1, <1>3, <1>4 DEF TailOf, b

-----------------------------------------------------------------------------
(***************************************************************************)
(* The operations of the screen.                                           *)
(***************************************************************************)

Rows == [RowId -> Line]
Buffers == [rows : Rows, col : 0 .. Width, row : RowId]

\* The screens: cursor and region within the grid.
Screens ==
  [rows : Rows, dirty : SUBSET RowId, col : 0 .. Width, row : RowId,
   top : RowId, bottom : RowId, saved : {<<>>} \cup {<<b>> : b \in Buffers},
   off : Seq(Line), sync : BOOLEAN]

\* t is s after an operation that pushed out the lines l and marked what else
\* it changed.
Changes(s, t, l) ==
  /\ s \in Screens /\ t \in Screens
  /\ l \in Seq(Line) /\ t.off = s.off \o l
  /\ s.dirty \subseteq t.dirty
  /\ \A r \in RowId : r \notin t.dirty => t.rows[r] = s.rows[r]

\* Two operations of which one pushes out nothing.
LEMMA ChangesCompose ==
  ASSUME NEW s, NEW t, NEW u, NEW l, NEW k, Changes(s, t, l), Changes(t, u, k),
         l = <<>> \/ k = <<>>
  PROVE  Changes(s, u, IF l = <<>> THEN k ELSE l)
<1>1. /\ s.off \in Seq(Line) /\ l \in Seq(Line) /\ k \in Seq(Line)
      /\ t.off = s.off \o l /\ u.off = t.off \o k
  BY DEF Changes, Screens
<1>2. u.off = s.off \o (IF l = <<>> THEN k ELSE l)
  BY <1>1, ConcatEmptySeq, ConcatProperties
<1> QED BY <1>1, <1>2 DEF Changes

\* An operation that pushes out nothing.
LEMMA ChangesQuietly ==
  ASSUME NEW s \in Screens, NEW t \in Screens, t.off = s.off, s.dirty \subseteq t.dirty,
         \A r \in RowId : r \notin t.dirty => t.rows[r] = s.rows[r]
  PROVE  Changes(s, t, <<>>)
<1>1. s.off \in Seq(Line) /\ <<>> \in Seq(Line)
  BY DEF Screens
<1>2. s.off \o <<>> = s.off
  BY <1>1, ConcatEmptySeq
<1> QED BY <1>1, <1>2 DEF Changes

LEMMA BlankTyped == BlankRow \in Line /\ BlankGrid \in Rows /\ 0 \in RowId /\ Height - 1 \in RowId
BY ScreenAssumption DEF BlankRow, BlankGrid, Line, Rows, Cell, RowId

LEMMA ScrollUpChanges ==
  ASSUME NEW s \in Screens
  PROVE  Changes(s, scroll_up(s), IF ~ Alternate(s) /\ s.top = 0 THEN <<s.rows[0]>> ELSE <<>>)
<1> DEFINE l == IF ~ Alternate(s) /\ s.top = 0 THEN <<s.rows[0]>> ELSE <<>>
           t == scroll_up(s)
           off == IF ~ Alternate(s) /\ s.top = 0 THEN Append(s.off, s.rows[0]) ELSE s.off
<1>1. s.rows \in Rows /\ s.top \in RowId /\ s.bottom \in RowId /\ s.off \in Seq(Line)
  BY DEF Screens
<1>2. Scrolled(s) \in Rows
  <2>1. \A r \in s.top .. s.bottom - 1 : r + 1 \in RowId
    BY <1>1, ScreenAssumption DEF RowId
  <2> QED BY <1>1, <2>1, BlankTyped DEF Scrolled, Rows
<1>3. l \in Seq(Line) /\ off \in Seq(Line) /\ off = s.off \o l
  <2>1. s.rows[0] \in Line /\ <<s.rows[0]>> \in Seq(Line) /\ <<>> \in Seq(Line)
    BY <1>1, BlankTyped DEF Rows
  <2>2. Append(s.off, s.rows[0]) = s.off \o <<s.rows[0]>> /\ s.off \o <<>> = s.off
    BY <1>1, <2>1, ConcatEmptySeq
  <2>3. Append(s.off, s.rows[0]) \in Seq(Line)
    BY <1>1, <2>1
  <2>4. CASE ~ Alternate(s) /\ s.top = 0
    <3>1. l = <<s.rows[0]>> /\ off = Append(s.off, s.rows[0])
      BY <2>4
    <3> QED BY <2>1, <2>2, <2>3, <3>1
  <2>5. CASE ~ (~ Alternate(s) /\ s.top = 0)
    <3>1. l = <<>> /\ off = s.off
      BY <2>5
    <3> QED BY <1>1, <2>1, <2>2, <3>1
  <2> QED BY <2>4, <2>5
<1>4. (s.top .. s.bottom) \cup {s.bottom} \subseteq RowId
  BY <1>1, ScreenAssumption DEF RowId
<1>5. t = [s EXCEPT !.rows = Scrolled(s), !.off = off,
                    !.dirty = s.dirty \cup ((s.top .. s.bottom) \cup {s.bottom})]
  BY DEF scroll_up, Marked, Screens
<1> HIDE DEF l, off, t
<1>6. t \in Screens
  BY <1>2, <1>3, <1>4, <1>5 DEF Screens
<1>7. /\ t.off = off /\ t.rows = Scrolled(s)
      /\ t.dirty = s.dirty \cup ((s.top .. s.bottom) \cup {s.bottom})
  BY <1>5 DEF Screens
<1>8. ASSUME NEW r \in RowId, r \notin t.dirty PROVE t.rows[r] = s.rows[r]
  <2>1. r # s.bottom /\ r \notin s.top .. s.bottom - 1
    BY <1>7, <1>8, <1>1 DEF RowId
  <2> QED BY <1>7, <2>1 DEF Scrolled
<1>9. Changes(s, t, l)
  BY <1>3, <1>6, <1>7, <1>8 DEF Changes
<1> QED BY <1>9 DEF l, t

\* A line break; in column 0 or not, it pushes out the same line.
LEMMA AdvanceLineChanges ==
  ASSUME NEW s \in Screens
  PROVE  /\ Changes(s, advance_line(s), Leaving(s))
         /\ advance_line(s).col = s.col
<1>1. CASE s.row >= s.bottom
  <2>1. Leaving(s) = IF ~ Alternate(s) /\ s.top = 0 THEN <<s.rows[0]>> ELSE <<>>
    BY <1>1 DEF Leaving
  <2>2. scroll_up(s).col = s.col
    BY DEF scroll_up, Marked, Screens
  <2> QED BY <1>1, <2>1, <2>2, ScrollUpChanges DEF advance_line
<1>2. CASE ~ (s.row >= s.bottom)
  <2>1. s.row + 1 \in RowId
    BY <1>2, ScreenAssumption DEF Screens, RowId
  <2>2. advance_line(s) = [s EXCEPT !.row = s.row + 1]
    BY <1>2 DEF advance_line
  <2>3. [s EXCEPT !.row = s.row + 1] \in Screens
    BY <2>1 DEF Screens
  <2>4. Changes(s, [s EXCEPT !.row = s.row + 1], <<>>)
    BY <2>3, ChangesQuietly DEF Screens
  <2>5. Leaving(s) = <<>>
    BY <1>2 DEF Leaving
  <2> QED BY <2>2, <2>4, <2>5 DEF Screens
<1> QED BY <1>1, <1>2

LEMMA WrappedChanges ==
  ASSUME NEW s \in Screens
  PROVE  Changes(s, Wrapped(s), Leaving(s)) /\ Wrapped(s).col = 0
<1> DEFINE t == [s EXCEPT !.col = 0]
<1>1. t \in Screens /\ t.col = 0 /\ Leaving(t) = Leaving(s)
  BY ScreenAssumption DEF Screens, Leaving, Alternate
<1>2. Changes(s, t, <<>>)
  BY <1>1, ChangesQuietly DEF Screens
<1> HIDE DEF t
<1>3. Changes(t, advance_line(t), Leaving(t)) /\ advance_line(t).col = 0
  BY <1>1, AdvanceLineChanges
<1>4. Changes(s, advance_line(t), Leaving(t))
  BY <1>2, <1>3, ChangesCompose
<1> QED BY <1>1, <1>3, <1>4 DEF Wrapped, t

\* A character pushes out the line of at most one wrap.
LEMMA WriteCharChanges ==
  ASSUME NEW s \in Screens, NEW ch \in Char, NEW width \in {1, 2}
  PROVE  Changes(s, write_char(s, ch, width),
                 IF s.col >= Width \/ (width = 2 /\ s.col + 1 >= Width)
                 THEN Leaving(s) ELSE <<>>)
<1> DEFINE s1   == IF s.col >= Width THEN Wrapped(s) ELSE s
           s2   == IF width = 2 /\ s1.col + 1 >= Width THEN Wrapped(s1) ELSE s1
           last == s2.col + (IF width = 2 /\ s2.col + 1 < Width THEN 1 ELSE 0)
           line == [c \in ColId |-> IF c = s2.col THEN ch
                                    ELSE IF c = last THEN Blank ELSE s2.rows[s2.row][c]]
           l    == IF s.col >= Width \/ (width = 2 /\ s.col + 1 >= Width)
                   THEN Leaving(s) ELSE <<>>
           t    == [s2 EXCEPT !.rows[s2.row] = line, !.col = last + 1,
                              !.dirty = s2.dirty \cup {s2.row}]
<1>1. Changes(s, s, <<>>) /\ s.col \in 0 .. Width /\ Width \in Nat /\ Width >= 2
  BY ChangesQuietly, ScreenAssumption DEF Screens
<1>2. Changes(s, s2, l) /\ s2.col \in 0 .. Width - 1
  <2>1. CASE s.col >= Width
    BY <1>1, <2>1, WrappedChanges
  <2>2. CASE s.col < Width /\ width = 2 /\ s.col + 1 >= Width
    BY <1>1, <2>2, WrappedChanges
  <2>3. CASE s.col < Width /\ ~ (width = 2 /\ s.col + 1 >= Width)
    BY <1>1, <2>3
  <2> QED BY <1>1, <2>1, <2>2, <2>3
<1>3. write_char(s, ch, width) = t
  <2>1. s2 \in Screens
    BY <1>2 DEF Changes
  <2> QED BY <2>1 DEF write_char, Marked, Screens
<1> HIDE DEF s1, s2, l
<1>4. s2 \in Screens
  BY <1>2 DEF Changes
<1>5. last \in 0 .. Width - 1 /\ last + 1 \in 0 .. Width
  BY <1>1, <1>2
<1>6. line \in Line
  BY <1>4 DEF Line, Cell, Screens, Rows
<1> HIDE DEF last, line
<1>7. t \in Screens /\ t.off = s2.off /\ t.dirty = s2.dirty \cup {s2.row}
  BY <1>4, <1>5, <1>6 DEF Screens, Rows
<1>8. ASSUME NEW r \in RowId, r \notin t.dirty PROVE t.rows[r] = s2.rows[r]
  <2>1. r # s2.row
    BY <1>7, <1>8
  <2> QED BY <1>4, <2>1 DEF Screens, Rows
<1>9. Changes(s2, t, <<>>)
  BY <1>4, <1>7, <1>8, ChangesQuietly
<1> HIDE DEF t
<1>10. Changes(s, t, l)
  <2>1. Changes(s, t, IF l = <<>> THEN <<>> ELSE l)
    BY <1>2, <1>9, ChangesCompose
  <2> QED BY <2>1
<1> QED BY <1>3, <1>10 DEF l

LEMMA MoveCursorChanges ==
  ASSUME NEW s \in Screens, NEW col \in Nat, NEW row \in Nat
  PROVE  Changes(s, move_cursor(s, col, row), <<>>)
<1>1. Bounded(col, Width - 1) \in 0 .. Width /\ Bounded(row, Height - 1) \in RowId
  BY ScreenAssumption DEF Bounded, RowId
<1>2. move_cursor(s, col, row) \in Screens
  BY <1>1 DEF move_cursor, Screens
<1> QED BY <1>2, ChangesQuietly DEF move_cursor, Screens

LEMMA ScrollRegionChanges ==
  ASSUME NEW s \in Screens, NEW top \in Nat, NEW bottom \in Nat
  PROVE  Changes(s, set_scroll_region(s, top, bottom), <<>>)
<1>1. /\ Bounded(top, Height - 1) \in RowId /\ Bounded(bottom, Height - 1) \in RowId
      /\ 0 \in 0 .. Width /\ 0 \in RowId
  BY ScreenAssumption DEF Bounded, RowId
<1>2. set_scroll_region(s, top, bottom) \in Screens
  BY <1>1 DEF set_scroll_region, Screens
<1> QED BY <1>2, ChangesQuietly DEF set_scroll_region, Screens

LEMMA EraseInLineChanges ==
  ASSUME NEW s \in Screens, NEW mode
  PROVE  Changes(s, erase_in_line(s, mode), <<>>)
<1> DEFINE line == ErasedLine(s.rows[s.row], ErasedCols(s, mode))
           t    == [s EXCEPT !.rows[s.row] = line, !.dirty = s.dirty \cup {s.row}]
<1>1. line \in Line
  BY DEF ErasedLine, Line, Cell, Screens, Rows
<1>2. erase_in_line(s, mode) = t
  BY DEF erase_in_line, Marked, Screens
<1> HIDE DEF line
<1>3. t \in Screens /\ t.off = s.off /\ t.dirty = s.dirty \cup {s.row}
  BY <1>1 DEF Screens, Rows
<1>4. ASSUME NEW r \in RowId, r \notin t.dirty PROVE t.rows[r] = s.rows[r]
  <2>1. r # s.row
    BY <1>3, <1>4
  <2> QED BY <2>1 DEF Screens, Rows
<1> HIDE DEF t
<1> QED BY <1>2, <1>3, <1>4, ChangesQuietly

LEMMA ClearedRowsChanges ==
  ASSUME NEW s \in Screens, NEW rs \in SUBSET RowId
  PROVE  Changes(s, ClearedRows(s, rs), <<>>)
<1> DEFINE rows == [r \in RowId |-> IF r \in rs THEN BlankRow ELSE s.rows[r]]
           t    == [s EXCEPT !.rows = rows, !.dirty = s.dirty \cup rs]
<1>1. rows \in Rows
  BY BlankTyped DEF Rows, Screens
<1>2. ClearedRows(s, rs) = t
  BY DEF ClearedRows, Cleared, Marked, Screens
<1>3. \A r \in RowId : r \notin rs => rows[r] = s.rows[r]
  OBVIOUS
<1> HIDE DEF rows
<1>4. /\ t \in Screens /\ t.off = s.off /\ t.rows = rows
      /\ t.dirty = s.dirty \cup rs
  BY <1>1 DEF Screens
<1> HIDE DEF t
<1> QED BY <1>2, <1>3, <1>4, ChangesQuietly

LEMMA EraseInDisplayChanges ==
  ASSUME NEW s \in Screens, NEW mode \in 0 .. 3
  PROVE  Changes(s, erase_in_display(s, mode), <<>>)
<1>1. CASE mode = 0
  <2> DEFINE t == erase_in_line(s, 0)
             u == ClearedRows(t, s.row + 1 .. Height - 1)
  <2>1. Changes(s, t, <<>>)
    BY EraseInLineChanges
  <2> HIDE DEF t
  <2>2. t \in Screens /\ s.row + 1 .. Height - 1 \in SUBSET RowId
    BY <2>1, ScreenAssumption DEF Changes, Screens, RowId
  <2>3. Changes(t, u, <<>>)
    BY <2>2, ClearedRowsChanges
  <2> HIDE DEF u
  <2>4. Changes(s, u, <<>>)
    BY <2>1, <2>3, ChangesCompose
  <2> QED BY <1>1, <2>4 DEF erase_in_display, t, u
<1>2. CASE mode = 1
  <2> DEFINE t == ClearedRows(s, 0 .. s.row - 1)
             u == erase_in_line(t, 1)
  <2>1. 0 .. s.row - 1 \in SUBSET RowId
    BY ScreenAssumption DEF Screens, RowId
  <2>2. Changes(s, t, <<>>)
    BY <2>1, ClearedRowsChanges
  <2> HIDE DEF t
  <2>3. Changes(t, u, <<>>)
    BY <2>2, EraseInLineChanges DEF Changes
  <2> HIDE DEF u
  <2>4. Changes(s, u, <<>>)
    BY <2>2, <2>3, ChangesCompose
  <2> QED BY <1>2, <2>4 DEF erase_in_display, t, u
<1>3. CASE mode = 2
  <2> DEFINE t == ClearedRows(s, RowId)
             u == [t EXCEPT !.col = 0, !.row = 0]
  <2>1. Changes(s, t, <<>>)
    BY ClearedRowsChanges
  <2> HIDE DEF t
  <2>2. t \in Screens /\ 0 \in 0 .. Width /\ 0 \in RowId
    BY <2>1, ScreenAssumption DEF Changes, RowId
  <2>3. u \in Screens /\ u.off = t.off /\ u.dirty = t.dirty /\ u.rows = t.rows
    BY <2>2 DEF Screens
  <2> HIDE DEF u
  <2>4. Changes(t, u, <<>>)
    BY <2>2, <2>3, ChangesQuietly
  <2>5. Changes(s, u, <<>>)
    BY <2>1, <2>4, ChangesCompose
  <2> QED BY <1>3, <2>5 DEF erase_in_display, t, u
<1>4. CASE mode = 3
  BY <1>4, ClearedRowsChanges DEF erase_in_display
<1> QED BY <1>1, <1>2, <1>3, <1>4

LEMMA SwitchToAltChanges ==
  ASSUME NEW s \in Screens
  PROVE  Changes(s, switch_to_alt(s), <<>>)
<1>1. CASE Alternate(s)
  BY <1>1, ChangesQuietly DEF switch_to_alt
<1>2. CASE ~ Alternate(s)
  <2> DEFINE b == [rows |-> s.rows, col |-> s.col, row |-> s.row]
             t == [s EXCEPT !.saved = <<b>>, !.rows = BlankGrid, !.dirty = RowId,
                            !.col = 0, !.row = 0, !.top = 0, !.bottom = Height - 1]
  <2>1. b \in Buffers
    BY DEF Screens, Buffers
  <2>2. switch_to_alt(s) = t
    BY <1>2 DEF switch_to_alt
  <2> HIDE DEF b
  <2>3. t \in Screens /\ t.off = s.off /\ t.dirty = RowId
    <3>1. <<b>> \in {<<>>} \cup {<<x>> : x \in Buffers}
      BY <2>1
    <3>2. 0 \in 0 .. Width
      BY ScreenAssumption
    <3> QED BY <3>1, <3>2, BlankTyped DEF Screens
  <2> HIDE DEF t
  <2>4. s.dirty \subseteq t.dirty
    BY <2>3 DEF Screens
  <2> QED BY <2>2, <2>3, <2>4, ChangesQuietly
<1> QED BY <1>1, <1>2

LEMMA SwitchToPrimaryChanges ==
  ASSUME NEW s \in Screens
  PROVE  Changes(s, switch_to_primary(s), <<>>)
<1>1. CASE ~ Alternate(s)
  BY <1>1, ChangesQuietly DEF switch_to_primary
<1>2. CASE Alternate(s)
  <2>1. PICK b \in Buffers : s.saved = <<b>>
    BY <1>2 DEF Alternate, Screens
  <2> DEFINE t == [s EXCEPT !.rows = b.rows, !.col = b.col, !.row = b.row, !.saved = <<>>,
                            !.dirty = RowId, !.top = 0, !.bottom = Height - 1]
  <2>2. switch_to_primary(s) = t
    BY <1>2, <2>1 DEF switch_to_primary
  <2>3. b.rows \in Rows /\ b.col \in 0 .. Width /\ b.row \in RowId
    BY DEF Buffers
  <2>4. t \in Screens /\ t.off = s.off /\ t.dirty = RowId
    BY <2>3, BlankTyped DEF Screens
  <2> HIDE DEF t
  <2>5. s.dirty \subseteq t.dirty
    BY <2>4 DEF Screens
  <2> QED BY <2>2, <2>4, <2>5, ChangesQuietly
<1> QED BY <1>1, <1>2

LEMMA SyncChanges ==
  ASSUME NEW s \in Screens, NEW on \in BOOLEAN
  PROVE  Changes(s, [s EXCEPT !.sync = on], <<>>)
<1>1. [s EXCEPT !.sync = on] \in Screens
  BY DEF Screens
<1> QED BY <1>1, ChangesQuietly DEF Screens

-----------------------------------------------------------------------------
(***************************************************************************)
(* The reader's invariant.                                                 *)
(***************************************************************************)

\* Everything but the client's ring has its type.
Typed ==
  /\ scr \in Screens /\ mirror \in Buffers
  /\ scrollback \in Seq(Line) /\ gone \in Seq(Line)

\* ScrollbackIsWhatLeft, with the tail spelt out.
Kept ==
  /\ TailOf(scrollback \o scr.off, gone)
  /\ Len(scrollback) = Bounded(ScrollbackLimit, Len(gone) - Len(scr.off))

IInv == Typed /\ CleanRowsMirrored /\ Kept

LEMMA Initially == Init => IInv
<1> SUFFICES ASSUME Init PROVE IInv
  OBVIOUS
<1>1. <<>> \in Seq(Line) /\ 0 \in 0 .. Width
  BY ScreenAssumption
<1>2. Typed
  BY <1>1, BlankTyped DEF Init, NewScreen, Typed, Screens, Buffers
<1>3. CleanRowsMirrored
  BY DEF Init, NewScreen, CleanRowsMirrored
<1>4. Kept
  <2>1. scrollback = <<>> /\ scr.off = <<>> /\ gone = <<>>
    BY DEF Init, NewScreen
  <2>2. scrollback \o scr.off = <<>>
    BY <1>1, <2>1, ConcatEmptySeq
  <2>3. Len(<<>>) = 0 /\ Bounded(ScrollbackLimit, 0) = 0
    BY ScreenAssumption DEF Bounded
  <2> QED BY <2>1, <2>2, <2>3 DEF Kept, TailOf
<1> QED BY <1>2, <1>3, <1>4 DEF IInv

\* An operation of the parser that pushes out the lines it says keeps it.
LEMMA ParseKeeps ==
  ASSUME IInv, NEW t, NEW l, Changes(scr, t, l), Parse(t, l)
  PROVE  IInv' /\ UNCHANGED <<mirror, scrollback>>
<1>1. /\ scr' = t /\ gone' = gone \o l /\ mirror' = mirror /\ scrollback' = scrollback
      /\ t \in Screens /\ l \in Seq(Line) /\ t.off = scr.off \o l
      /\ scr.off \in Seq(Line) /\ gone \in Seq(Line) /\ scrollback \in Seq(Line)
  BY DEF Parse, reader, Changes, IInv, Typed, Screens
<1>2. Typed'
  <2>1. gone \o l \in Seq(Line)
    BY <1>1
  <2> QED BY <1>1, <2>1 DEF Typed, IInv, Screens, Buffers, Rows, RowId, Line
<1>3. CleanRowsMirrored'
  <2>1. \A r \in RowId : r \notin t.dirty => mirror.rows[r] = t.rows[r]
    BY DEF Changes, IInv, CleanRowsMirrored
  <2> QED BY <1>1, <2>1 DEF CleanRowsMirrored, RowId
<1>4. Kept'
  <2>1. scrollback \o t.off = (scrollback \o scr.off) \o l
    <3>1. scrollback \in Seq(Line) /\ scr.off \in Seq(Line) /\ l \in Seq(Line)
      BY <1>1
    <3>2. (scrollback \o scr.off) \o l = scrollback \o (scr.off \o l)
      <4> DEFINE o == scr.off
      <4>1. o \in Seq(Line)
        BY <3>1
      <4> HIDE DEF o
      <4>2. (scrollback \o o) \o l = scrollback \o (o \o l)
        BY <3>1, <4>1, ConcatAssociative
      <4> QED BY <4>2 DEF o
    <3> QED BY <1>1, <3>2
  <2>2. scrollback \o scr.off \in Seq(Line)
    BY <1>1
  <2>3. TailOf((scrollback \o scr.off) \o l, gone \o l)
    BY <1>1, <2>2, TailOfLonger DEF IInv, Kept
  <2>4. Len(gone \o l) - Len(t.off) = Len(gone) - Len(scr.off)
    <3>1. Len(gone \o l) = Len(gone) + Len(l) /\ Len(t.off) = Len(scr.off) + Len(l)
      BY <1>1, ConcatProperties
    <3>2. Len(gone) \in Nat /\ Len(l) \in Nat /\ Len(scr.off) \in Nat
      BY <1>1
    <3> QED BY <3>1, <3>2
  <2>5. TailOf(scrollback' \o scr'.off, gone')
    BY <1>1, <2>1, <2>3
  <2>6. Len(scrollback') = Bounded(ScrollbackLimit, Len(gone') - Len(scr'.off))
    BY <1>1, <2>4 DEF IInv, Kept
  <2> QED BY <2>5, <2>6 DEF Kept, TailOf, Bounded
<1> QED BY <1>1, <1>2, <1>3, <1>4 DEF IInv

\* Every sequence the parser knows is such an operation.
LEMMA ParserKeeps ==
  ASSUME IInv,
         \/ \E ch \in Char, width \in {1, 2} : PrintChar(ch, width)
         \/ LineFeed
         \/ \E col \in 0 .. Width, row \in 0 .. Height : MoveCursor(col, row)
         \/ \E top, bottom \in 0 .. Height : SetScrollRegion(top, bottom)
         \/ \E mode \in 0 .. 2 : EraseInLine(mode)
         \/ \E mode \in 0 .. 3 : EraseInDisplay(mode)
         \/ \E on \in BOOLEAN : AlternateScreen(on)
         \/ \E on \in BOOLEAN : SynchronizedOutput(on)
  PROVE  IInv' /\ UNCHANGED <<mirror, scrollback>>
<1> USE DEF IInv, Typed
<1>1. ASSUME NEW ch \in Char, NEW width \in {1, 2}, PrintChar(ch, width)
      PROVE  IInv' /\ UNCHANGED <<mirror, scrollback>>
  BY <1>1, WriteCharChanges, ParseKeeps DEF PrintChar
<1>2. ASSUME LineFeed
      PROVE  IInv' /\ UNCHANGED <<mirror, scrollback>>
  BY <1>2, AdvanceLineChanges, ParseKeeps DEF LineFeed
<1>3. ASSUME NEW col \in 0 .. Width, NEW row \in 0 .. Height, MoveCursor(col, row)
      PROVE  IInv' /\ UNCHANGED <<mirror, scrollback>>
  BY <1>3, MoveCursorChanges, ParseKeeps DEF MoveCursor
<1>4. ASSUME NEW top \in 0 .. Height, NEW bottom \in 0 .. Height,
             SetScrollRegion(top, bottom)
      PROVE  IInv' /\ UNCHANGED <<mirror, scrollback>>
  BY <1>4, ScrollRegionChanges, ParseKeeps DEF SetScrollRegion
<1>5. ASSUME NEW mode \in 0 .. 2, EraseInLine(mode)
      PROVE  IInv' /\ UNCHANGED <<mirror, scrollback>>
  BY <1>5, EraseInLineChanges, ParseKeeps DEF EraseInLine
<1>6. ASSUME NEW mode \in 0 .. 3, EraseInDisplay(mode)
      PROVE  IInv' /\ UNCHANGED <<mirror, scrollback>>
  BY <1>6, EraseInDisplayChanges, ParseKeeps DEF EraseInDisplay
<1>7. ASSUME NEW on \in BOOLEAN, AlternateScreen(on)
      PROVE  IInv' /\ UNCHANGED <<mirror, scrollback>>
  BY <1>7, SwitchToAltChanges, SwitchToPrimaryChanges, ParseKeeps DEF AlternateScreen
<1>8. ASSUME NEW on \in BOOLEAN, SynchronizedOutput(on)
      PROVE  IInv' /\ UNCHANGED <<mirror, scrollback>>
  BY <1>8, SyncChanges, ParseKeeps DEF SynchronizedOutput
<1> QED BY <1>1, <1>2, <1>3, <1>4, <1>5, <1>6, <1>7, <1>8

-----------------------------------------------------------------------------
(***************************************************************************)
(* The end of a burst that has something to report.                        *)
(***************************************************************************)

Frame == EndBurst /\ Reported # {}

\* What the reader keeps are the newest lines of what it has.
LEMMA RetainedLines ==
  ASSUME NEW all \in Seq(Line)
  PROVE  LET n == Bounded(ScrollbackLimit, Len(all))
         IN  /\ n \in 0 .. Len(all) /\ n \in 0 .. ScrollbackLimit
             /\ Retained(all) \in Seq(Line) /\ Len(Retained(all)) = n
             /\ \A i \in 1 .. n : Retained(all)[i] = all[Len(all) - n + i]
             /\ \A t \in Seq(Line) : TailOf(all, t) => TailOf(Retained(all), t)
<1> DEFINE n == Bounded(ScrollbackLimit, Len(all))
<1>1. n \in 0 .. Len(all) /\ n \in 0 .. ScrollbackLimit
  BY ScreenAssumption DEF Bounded
<1>2. Retained(all) = SubSeq(all, Len(all) - n + 1, Len(all))
  BY DEF Retained
<1> HIDE DEF n
<1>3. /\ Retained(all) \in Seq(Line) /\ Len(Retained(all)) = n
      /\ \A i \in 1 .. n : Retained(all)[i] = all[Len(all) - n + i]
  BY <1>1, <1>2, NewestElements
<1>4. \A t \in Seq(Line) : TailOf(all, t) => TailOf(Retained(all), t)
  BY <1>1, <1>2, TailOfNewest
<1> QED BY <1>1, <1>3, <1>4 DEF n

\* The mirror gets the whole screen, the scrollback what was pushed out.
LEMMA FrameStep ==
  ASSUME IInv, Frame
  PROVE  /\ scr' = [scr EXCEPT !.dirty = {}, !.off = <<>>]
         /\ mirror'.rows = scr.rows /\ mirror' \in Buffers
         /\ scrollback' = IF scr.off = <<>> THEN scrollback
                          ELSE Retained(scrollback \o scr.off)
         /\ gone' = gone
<1>1. Reported = scr.dirty
  BY DEF Frame, Reported, DirtyRows
<1>2. /\ scr' = [scr EXCEPT !.dirty = {}, !.off = <<>>]
      /\ mirror' = [rows |-> [r \in RowId |-> IF r \in scr.dirty THEN scr.rows[r]
                                              ELSE mirror.rows[r]],
                    col |-> scr.col, row |-> scr.row]
      /\ scrollback' = IF scr.off = <<>> THEN scrollback
                       ELSE Retained(scrollback \o scr.off)
      /\ gone' = gone
  BY <1>1 DEF Frame, EndBurst, history
<1>3. scr.rows \in Rows /\ scr.col \in 0 .. Width /\ scr.row \in RowId
  BY DEF IInv, Typed, Screens
<1>4. [r \in RowId |-> IF r \in scr.dirty THEN scr.rows[r] ELSE mirror.rows[r]] = scr.rows
  BY <1>3 DEF IInv, CleanRowsMirrored, Rows
<1>5. mirror' = [rows |-> scr.rows, col |-> scr.col, row |-> scr.row]
  BY <1>2, <1>4
<1>6. mirror'.rows = scr.rows /\ mirror' \in Buffers
  BY <1>3, <1>5 DEF Buffers
<1> QED BY <1>2, <1>6

\* What is kept of a history that grows and is cut back again and again.
LEMMA CutBack ==
  ASSUME NEW kept \in Nat, NEW more \in Nat, NEW total \in Nat, more <= total,
         kept = Bounded(ScrollbackLimit, total - more)
  PROVE  Bounded(ScrollbackLimit, kept + more) = Bounded(ScrollbackLimit, total)
BY ScreenAssumption DEF Bounded

LEMMA FrameKeeps ==
  ASSUME IInv, Frame
  PROVE  IInv'
<1> DEFINE all == scrollback \o scr.off
           s   == [scr EXCEPT !.dirty = {}, !.off = <<>>]
<1>1. /\ scrollback \in Seq(Line) /\ gone \in Seq(Line) /\ scr.off \in Seq(Line)
      /\ <<>> \in Seq(Line) /\ all \in Seq(Line)
  BY DEF IInv, Typed, Screens
<1>2. s \in Screens /\ s.rows = scr.rows /\ s.dirty = {} /\ s.off = <<>>
  BY <1>1 DEF IInv, Typed, Screens
<1>3. /\ scr' = s /\ mirror'.rows = scr.rows /\ mirror' \in Buffers /\ gone' = gone
      /\ scrollback' = IF scr.off = <<>> THEN scrollback ELSE Retained(all)
  BY FrameStep
<1> HIDE DEF s
<1>4. scrollback' \in Seq(Line)
  BY <1>1, <1>3, RetainedLines
<1>5. Typed'
  BY <1>1, <1>2, <1>3, <1>4 DEF Typed, Screens, Buffers, Rows, RowId, Line
<1>6. CleanRowsMirrored'
  BY <1>2, <1>3 DEF CleanRowsMirrored
<1>7. TailOf(all, gone) /\ Len(scrollback) = Bounded(ScrollbackLimit, Len(gone) - Len(scr.off))
  BY DEF IInv, Kept
<1>8. /\ Len(all) = Len(scrollback) + Len(scr.off) /\ Len(all) <= Len(gone)
      /\ Len(gone) \in Nat /\ Len(scr.off) \in Nat /\ Len(scrollback) \in Nat
      /\ Len(scr.off) <= Len(gone)
  <2>1. Len(all) = Len(scrollback) + Len(scr.off)
    BY <1>1, ConcatProperties
  <2>2. Len(gone) \in Nat /\ Len(scr.off) \in Nat /\ Len(scrollback) \in Nat
    BY <1>1
  <2>3. Len(all) <= Len(gone)
    <3> HIDE DEF all
    <3> QED BY <1>7 DEF TailOf
  <2> HIDE DEF all
  <2> QED BY <2>1, <2>2, <2>3
<1>9. TailOf(scrollback', gone) /\ Len(scrollback') = Bounded(ScrollbackLimit, Len(gone))
  <2>1. CASE scr.off = <<>>
    <3>1. Len(scr.off) = 0 /\ all = scrollback
      BY <1>1, <2>1, ConcatEmptySeq
    <3>2. Len(gone) - Len(scr.off) = Len(gone)
      BY <1>8, <3>1
    <3> QED BY <1>3, <1>7, <2>1, <3>1, <3>2
  <2>2. CASE scr.off # <<>>
    <3>1. scrollback' = Retained(all)
      BY <1>3, <2>2
    <3>2. /\ Len(Retained(all)) = Bounded(ScrollbackLimit, Len(all))
          /\ TailOf(Retained(all), gone)
      BY <1>1, <1>7, RetainedLines
    <3>3. Bounded(ScrollbackLimit, Len(all)) = Bounded(ScrollbackLimit, Len(gone))
      <4> HIDE DEF all
      <4> QED BY <1>7, <1>8, CutBack
    <3> QED BY <3>1, <3>2, <3>3
  <2> QED BY <2>1, <2>2
<1>10. scrollback' \o scr'.off = scrollback' /\ Len(gone') - Len(scr'.off) = Len(gone)
  <2>1. scrollback' \o <<>> = scrollback'
    BY <1>4, ConcatEmptySeq
  <2>2. scr'.off = <<>> /\ gone' = gone
    BY <1>2, <1>3
  <2>3. Len(gone) - Len(<<>>) = Len(gone)
    BY <1>8
  <2> QED BY <2>1, <2>2, <2>3
<1>11. Kept'
  BY <1>3, <1>9, <1>10 DEF Kept, TailOf, Bounded
<1> QED BY <1>5, <1>6, <1>11 DEF IInv

\* What a step can do to the reader's copies: nothing, or a whole frame.
LEMMA Step ==
  ASSUME IInv, [Next]_vars
  PROVE  IInv' /\ (Frame \/ UNCHANGED <<mirror, scrollback>>)
<1>1. CASE UNCHANGED <<scr, mirror, scrollback, gone>>
  BY <1>1 DEF IInv, Typed, CleanRowsMirrored, Kept, TailOf, Bounded, Screens, Buffers, Rows,
              RowId, Line
<1>2. CASE EndBurst
  <2>1. CASE Reported # {}
    BY <1>2, <2>1, FrameKeeps DEF Frame
  <2>2. CASE Reported = {}
    BY <1>1, <1>2, <2>2 DEF EndBurst, reader, history
  <2> QED BY <2>1, <2>2
<1>3. ASSUME NEW n \in Capacities, SetCapacity(n)
      PROVE  IInv' /\ UNCHANGED <<mirror, scrollback>>
  BY <1>1, <1>3 DEF SetCapacity, history
<1>4. CASE UNCHANGED vars
  BY <1>1, <1>4 DEF vars, reader, history
<1> QED BY <1>2, <1>3, <1>4, ParserKeeps DEF Next

\* The reader's invariant holds throughout.
THEOREM Inductive == Spec => []IInv
<1>1. IInv /\ [Next]_vars => IInv'
  BY Step
<1> QED BY Initially, <1>1, PTL DEF Spec

-----------------------------------------------------------------------------
(***************************************************************************)
(* The properties.                                                         *)
(***************************************************************************)

\* Dirty tracking is complete: every operation of screen.rs marks the rows it
\* changes, and no row that is not marked differs from latest_grid.
THEOREM DirtyTrackingComplete == Spec => []CleanRowsMirrored
BY Inductive, PTL DEF IInv

\* No line that left the primary screen is lost, repeated or reordered on its
\* way to latest_scrollback, which holds as many as its limit allows
\* (screen.rs, scroll_up; pane.rs, the drain after every burst).
THEOREM ScrollbackComplete == Spec => []ScrollbackIsWhatLeft
<1>1. IInv => ScrollbackIsWhatLeft
  <2> SUFFICES ASSUME IInv PROVE ScrollbackIsWhatLeft
    OBVIOUS
  <2>1. scrollback \o scr.off \in Seq(Line) /\ gone \in Seq(Line)
    BY DEF IInv, Typed, Screens
  <2>2. IsSuffix(scrollback \o scr.off, gone)
    BY <2>1, TailIsSuffix DEF IInv, Kept
  <2> QED BY <2>2 DEF IInv, Kept, ScrollbackIsWhatLeft
<1> QED BY <1>1, Inductive, PTL

\* latest_grid only ever shows whole frames: a burst's rows and the rows kept
\* from earlier bursts are those of one screen.
THEOREM WholeFrames == Spec => FramesAreWhole
<1>1. IInv /\ [Next]_vars => (mirror'.rows # mirror.rows => mirror'.rows = scr.rows)
  <2> SUFFICES ASSUME IInv, [Next]_vars, mirror'.rows # mirror.rows
               PROVE  mirror'.rows = scr.rows
    OBVIOUS
  <2>1. Frame
    BY Step
  <2> QED BY <2>1, FrameStep
<1> QED BY <1>1, Inductive, PTL DEF Spec, FramesAreWhole

\* Retained and Newest keep the same lines.
LEMMA RetainedIsNewest ==
  ASSUME NEW all \in Seq(Line)
  PROVE  Retained(all) = ServerHistory!Newest(ScrollbackLimit, all)
BY DEF Retained, Bounded, ServerHistory!Newest, ServerHistory!Smaller

\* A frame records the lines that were pushed out.
LEMMA FrameRecords ==
  ASSUME IInv, Frame
  PROVE  ServerHistory!Record \/ UNCHANGED scrollback
<1>1. CASE scr.off = <<>>
  BY <1>1, FrameStep
<1>2. CASE scr.off # <<>>
  <2>1. scrollback \o scr.off \in Seq(Line)
    BY DEF IInv, Typed, Screens
  <2>2. scrollback' = Retained(scrollback \o scr.off)
    BY <1>2, FrameStep
  <2>3. scrollback' = ServerHistory!Newest(ScrollbackLimit, scrollback \o scr.off)
    BY <2>1, <2>2, RetainedIsNewest
  <2> QED BY <2>3 DEF ServerHistory!Record
<1> QED BY <1>1, <1>2

\* latest_scrollback implements History: a burst leaves exactly the newest of the
\* lines that were kept and those that the parser pushed out, in order, as many as
\* the limit allows (pane.rs, the drain of pending scrollback).
THEOREM ServerImplementsHistory == Spec => ServerKeepsHistory
<1>1. Init => ServerHistory!Init
  BY ScreenAssumption DEF Init, ServerHistory!Init
<1>2. IInv /\ [Next]_vars => [ServerHistory!Next]_(ServerHistory!vars)
  <2> SUFFICES ASSUME IInv, [Next]_vars
               PROVE  [ServerHistory!Next]_(ServerHistory!vars)
    OBVIOUS
  <2>1. CASE Frame
    BY <2>1, FrameRecords DEF ServerHistory!Next, ServerHistory!vars
  <2>2. CASE UNCHANGED <<mirror, scrollback>>
    BY <2>2 DEF ServerHistory!vars
  <2> QED BY <2>1, <2>2, Step
<1> QED BY <1>1, <1>2, Inductive, PTL DEF Spec, ServerKeepsHistory, ServerHistory!Spec
-----------------------------------------------------------------------------
(***************************************************************************)
(* The client's ring implements History as well: what get returns for the  *)
(* indices from 0 on are the newest of the lines pushed.  A diff is a fold *)
(* of push_line over the rows, and the rows it replaces are a fold of      *)
(* Append over the same rows: row by row, the ring has the newest of what  *)
(* it had and of what was appended so far.                                 *)
(***************************************************************************)

\* s is what Newest(n, t) is, element by element.
NewestOf(s, n, t) == TailOf(s, t) /\ Len(s) = Bounded(n, Len(t))

LEMMA NewestOfIsNewest ==
  ASSUME NEW n \in Nat, NEW s \in Seq(Line), NEW t \in Seq(Line), NewestOf(s, n, t)
  PROVE  s = ClientHistory!Newest(n, t)
<1> DEFINE m == Bounded(n, Len(t))
           b == SubSeq(t, Len(t) - m + 1, Len(t))
<1>1. m \in 0 .. Len(t)
  BY DEF Bounded
<1>2. b = ClientHistory!Newest(n, t)
  BY DEF Bounded, ClientHistory!Newest, ClientHistory!Smaller
<1>3. Len(s) = m /\ \A i \in 1 .. Len(s) : s[i] = t[Len(t) - Len(s) + i]
  BY DEF NewestOf, TailOf
<1> HIDE DEF m
<1>4. b \in Seq(Line) /\ Len(b) = m /\ \A i \in 1 .. m : b[i] = t[Len(t) - m + i]
  BY <1>1, NewestElements
<1> HIDE DEF b
<1>5. s = b
  BY <1>3, <1>4, SeqEqual
<1> QED BY <1>2, <1>5

\* A tail of a tail.
LEMMA TailOfTail ==
  ASSUME NEW a \in Seq(Line), NEW b \in Seq(Line), NEW c \in Seq(Line),
         TailOf(a, b), TailOf(b, c)
  PROVE  TailOf(a, c)
<1>1. Len(a) \in Nat /\ Len(b) \in Nat /\ Len(c) \in Nat /\ Len(a) <= Len(b) /\ Len(b) <= Len(c)
  BY DEF TailOf
<1>2. ASSUME NEW i \in 1 .. Len(a) PROVE a[i] = c[Len(c) - Len(a) + i]
  <2>1. a[i] = b[Len(b) - Len(a) + i]
    BY DEF TailOf
  <2>2. Len(b) - Len(a) + i \in 1 .. Len(b)
    BY <1>1
  <2>3. b[Len(b) - Len(a) + i] = c[Len(c) - Len(b) + (Len(b) - Len(a) + i)]
    BY <2>2 DEF TailOf
  <2>4. Len(c) - Len(b) + (Len(b) - Len(a) + i) = Len(c) - Len(a) + i
    BY <1>1
  <2> QED BY <2>1, <2>3, <2>4
<1> QED BY <1>1, <1>2 DEF TailOf

\* One line more: the newest of the newest.
LEMMA NewestOfMore ==
  ASSUME NEW n \in Nat, NEW k \in Seq(Line), NEW t \in Seq(Line), NewestOf(k, n, t),
         NEW line \in Line, NEW l \in Seq(Line), NewestOf(l, n, k \o <<line>>)
  PROVE  NewestOf(l, n, t \o <<line>>)
<1>1. <<line>> \in Seq(Line) /\ k \o <<line>> \in Seq(Line) /\ t \o <<line>> \in Seq(Line)
  OBVIOUS
<1>2. TailOf(k \o <<line>>, t \o <<line>>)
  BY <1>1, TailOfLonger DEF NewestOf
<1>3. TailOf(l, t \o <<line>>)
  BY <1>1, <1>2, TailOfTail DEF NewestOf
<1>4. Len(k \o <<line>>) = Len(k) + 1 /\ Len(t \o <<line>>) = Len(t) + 1
  OBVIOUS
<1>5. Len(l) = Bounded(n, Len(k) + 1) /\ Len(k) = Bounded(n, Len(t))
  BY <1>4 DEF NewestOf
<1>6. Bounded(n, Bounded(n, Len(t)) + 1) = Bounded(n, Len(t) + 1)
  BY DEF Bounded
<1> QED BY <1>3, <1>4, <1>5, <1>6 DEF NewestOf

\* A ring that is not full is filled from the front; head is the next slot.
RingOK(r) ==
  /\ r \in [capacity : Nat \ {0}, lines : Seq(Line), head : Nat, len : Nat]
  /\ Len(r.lines) = r.len
  /\ \/ r.len < r.capacity /\ r.head = r.len
     \/ r.len = r.capacity /\ r.head < r.capacity

\* A remainder of less than twice the divisor.
LEMMA SmallRemainder ==
  ASSUME NEW n \in Nat \ {0}, NEW x \in Nat, x < n + n
  PROVE  x % n = IF x < n THEN x ELSE x - n
<1>1. CASE x < n
  BY <1>1
<1>2. CASE x >= n
  BY <1>2
<1> QED BY <1>1, <1>2

\* The slot of a line.
Slot(r, i) ==
  IF r.len < r.capacity THEN i
  ELSE IF r.head + i <= r.capacity THEN r.head + i ELSE r.head + i - r.capacity

LEMMA LinesAre ==
  ASSUME NEW r, RingOK(r)
  PROVE  /\ Lines(r) \in Seq(Line) /\ Len(Lines(r)) = r.len
         /\ \A i \in 1 .. r.len : /\ Slot(r, i) \in 1 .. r.len
                                  /\ Lines(r)[i] = r.lines[Slot(r, i)]
<1>1. /\ r.capacity \in Nat \ {0} /\ r.lines \in Seq(Line) /\ r.head \in Nat /\ r.len \in Nat
      /\ Len(r.lines) = r.len
      /\ \/ r.len < r.capacity /\ r.head = r.len
         \/ r.len = r.capacity /\ r.head < r.capacity
  BY DEF RingOK
<1>2. ASSUME NEW i \in 1 .. r.len
      PROVE  Slot(r, i) \in 1 .. r.len /\ get(r, i - 1) = r.lines[Slot(r, i)]
  <2>1. CASE r.len < r.capacity
    <3>1. Slot(r, i) = i /\ i - 1 + 1 = i
      BY <1>1, <2>1 DEF Slot
    <3> QED BY <2>1, <3>1 DEF get
  <2>2. CASE r.len = r.capacity /\ r.head < r.capacity
    <3> DEFINE x == r.head + (i - 1)
    <3>1. x \in Nat /\ x < r.capacity + r.capacity /\ ~(r.len < r.capacity)
      BY <1>1, <2>2
    <3>2. x % r.capacity = IF x < r.capacity THEN x ELSE x - r.capacity
      <4> HIDE DEF x
      <4> QED BY <1>1, <3>1, SmallRemainder
    <3>3. Slot(r, i) = (IF x < r.capacity THEN x ELSE x - r.capacity) + 1
      BY <1>1, <3>1 DEF Slot
    <3>4. Slot(r, i) \in 1 .. r.len
      BY <1>1, <2>2 DEF Slot
    <3>5. get(r, i - 1) = r.lines[(x % r.capacity) + 1]
      BY <3>1 DEF get
    <3> HIDE DEF x
    <3> QED BY <3>2, <3>3, <3>4, <3>5
  <2> QED BY <1>1, <2>1, <2>2
<1>3. \A i \in 1 .. r.len : r.lines[Slot(r, i)] \in Line
  BY <1>1, <1>2
<1>4. Lines(r) = [i \in 1 .. r.len |-> get(r, i - 1)]
  BY DEF Lines
<1>5. Lines(r) \in Seq(Line) /\ Len(Lines(r)) = r.len
  <2>1. \A i \in 1 .. r.len : get(r, i - 1) \in Line
    BY <1>2, <1>3
  <2> QED BY <1>1, <1>4, <2>1
<1> QED BY <1>2, <1>4, <1>5

\* A pushed line comes last; a full ring loses its first line for it.
LEMMA PushKeepsNewest ==
  ASSUME NEW r, RingOK(r), NEW line \in Line
  PROVE  /\ RingOK(push_line(r, line)) /\ push_line(r, line).capacity = r.capacity
         /\ NewestOf(Lines(push_line(r, line)), r.capacity, Lines(r) \o <<line>>)
<1> DEFINE p == push_line(r, line)
           cap == r.capacity
<1>1. /\ cap \in Nat \ {0} /\ r.lines \in Seq(Line) /\ r.head \in Nat /\ r.len \in Nat
      /\ Len(r.lines) = r.len
      /\ \/ r.len < cap /\ r.head = r.len
         \/ r.len = cap /\ r.head < cap
      /\ r = [capacity |-> cap, lines |-> r.lines, head |-> r.head, len |-> r.len]
  BY DEF RingOK
<1>2. p = [capacity |-> cap,
           lines |-> IF Len(r.lines) <= r.head THEN Append(r.lines, line)
                     ELSE [r.lines EXCEPT ![r.head + 1] = line],
           head |-> (r.head + 1) % cap,
           len |-> IF r.len < cap THEN r.len + 1 ELSE r.len]
  <2> DEFINE L == IF Len(r.lines) <= r.head THEN Append(r.lines, line)
                  ELSE [r.lines EXCEPT ![r.head + 1] = line]
             H == (r.head + 1) % r.capacity
             N == IF r.len < r.capacity THEN r.len + 1 ELSE r.len
  <2>1. p = [r EXCEPT !.lines = L, !.len = N, !.head = H]
    BY DEF push_line
  <2> HIDE DEF L, H, N, p
  <2>2. p = [capacity |-> r.capacity, lines |-> L, head |-> H, len |-> N]
    BY <1>1, <2>1
  <2> QED BY <2>2 DEF L, H, N
<1>3. (r.head + 1) % cap = IF r.head + 1 < cap THEN r.head + 1 ELSE 0
  <2>1. r.head + 1 \in Nat /\ r.head + 1 < cap + cap /\ r.head + 1 <= cap
    BY <1>1
  <2>2. (r.head + 1) % cap = IF r.head + 1 < cap THEN r.head + 1 ELSE r.head + 1 - cap
    BY <1>1, <2>1, SmallRemainder
  <2> QED BY <1>1, <2>1, <2>2
<1> HIDE DEF p, cap
<1>4. /\ Lines(r) \in Seq(Line) /\ Len(Lines(r)) = r.len
      /\ \A i \in 1 .. r.len : /\ Slot(r, i) \in 1 .. r.len
                               /\ Lines(r)[i] = r.lines[Slot(r, i)]
  BY LinesAre
<1>5. CASE r.len < cap /\ r.head = r.len
  <2>1. /\ p.capacity = cap /\ p.lines = Append(r.lines, line) /\ p.len = r.len + 1
        /\ p.head = IF r.len + 1 < cap THEN r.len + 1 ELSE 0
    BY <1>1, <1>2, <1>3, <1>5
  <2>2. p.lines \in Seq(Line) /\ Len(p.lines) = r.len + 1
        /\ \A i \in 1 .. r.len : p.lines[i] = r.lines[i]
    BY <1>1, <2>1
  <2>3. RingOK(p)
    <3>1. p.capacity \in Nat \ {0} /\ p.head \in Nat /\ p.len \in Nat
      BY <1>1, <2>1
    <3>2. p = [capacity |-> p.capacity, lines |-> p.lines, head |-> p.head, len |-> p.len]
      BY <1>2
    <3>3. \/ p.len < p.capacity /\ p.head = p.len
          \/ p.len = p.capacity /\ p.head < p.capacity
      BY <1>1, <1>5, <2>1
    <3> QED BY <2>1, <2>2, <3>1, <3>2, <3>3 DEF RingOK
  <2>4. /\ Len(Lines(p)) = r.len + 1
        /\ \A i \in 1 .. r.len + 1 : Lines(p)[i] = p.lines[Slot(p, i)]
    BY <2>1, <2>3, LinesAre
  <2>5. \A i \in 1 .. r.len : Slot(p, i) = i /\ Slot(r, i) = i /\ i \in 1 .. r.len + 1
    BY <1>1, <1>5, <2>1 DEF Slot, cap
  <2>6. \A i \in 1 .. r.len : Lines(p)[i] = Lines(r)[i]
    BY <1>4, <2>2, <2>4, <2>5
  <2>7. Lines(p)[r.len + 1] = line
    <3>1. r.len + 1 \in 1 .. r.len + 1 /\ Slot(p, r.len + 1) = r.len + 1
      BY <1>1, <1>5, <2>1 DEF Slot
    <3>2. p.lines[r.len + 1] = line
      BY <1>1, <2>1
    <3> QED BY <2>4, <3>1, <3>2
  <2>8. NewestOf(Lines(p), cap, Lines(r) \o <<line>>)
    <3>1. Len(Lines(p)) = r.len + 1 /\ Bounded(cap, r.len + 1) = r.len + 1
      BY <1>1, <1>5, <2>4 DEF Bounded
    <3>2. ASSUME NEW i \in 1 .. r.len + 1
          PROVE  Lines(p)[i] = (Lines(r) \o <<line>>)[i]
      <4>1. (Lines(r) \o <<line>>)[i] = IF i <= r.len THEN Lines(r)[i] ELSE line
        BY <1>1, <1>4
      <4>2. CASE i <= r.len
        <5>1. i \in 1 .. r.len
          BY <1>1, <4>2
        <5> QED BY <2>6, <4>1, <4>2, <5>1
      <4>3. CASE ~ (i <= r.len)
        <5>1. i = r.len + 1
          BY <1>1, <4>3
        <5> QED BY <2>7, <4>1, <4>3, <5>1
      <4> QED BY <4>2, <4>3
    <3>3. Len(Lines(r) \o <<line>>) = r.len + 1
      BY <1>4
    <3>5. r.len + 1 <= r.len + 1
      BY <1>1
    <3> DEFINE new == Lines(p)
               all == Lines(r) \o <<line>>
    <3>6. /\ Len(new) = r.len + 1 /\ Len(all) = r.len + 1 /\ r.len \in Nat
          /\ \A i \in 1 .. r.len + 1 : new[i] = all[i]
      BY <1>1, <3>1, <3>2, <3>3
    <3> HIDE DEF new, all
    <3>10. ASSUME NEW i \in 1 .. Len(new) PROVE new[i] = all[Len(all) - Len(new) + i]
      <4>1. i \in 1 .. r.len + 1 /\ Len(all) - Len(new) = 0 /\ 0 + i = i
        BY <3>6
      <4> QED BY <3>6, <4>1
    <3>7. TailOf(new, all)
      BY <3>5, <3>6, <3>10 DEF TailOf
    <3>8. Len(new) = Bounded(cap, Len(all))
      BY <3>1, <3>6
    <3>9. NewestOf(new, cap, all)
      BY <3>7, <3>8 DEF NewestOf
    <3> QED BY <3>9 DEF new, all
  <2> QED BY <2>1, <2>3, <2>8 DEF p, cap
<1>6. CASE r.len = cap /\ r.head < cap
  <2>1. /\ p.capacity = cap /\ p.lines = [r.lines EXCEPT ![r.head + 1] = line] /\ p.len = r.len
        /\ p.head = IF r.head + 1 < cap THEN r.head + 1 ELSE 0
    BY <1>1, <1>2, <1>3, <1>6
  <2>2. p.lines \in Seq(Line) /\ Len(p.lines) = r.len
        /\ \A i \in 1 .. r.len : i # r.head + 1 => p.lines[i] = r.lines[i]
    BY <1>1, <1>6, <2>1
  <2>3. RingOK(p)
    <3>1. p.capacity \in Nat \ {0} /\ p.head \in Nat /\ p.len \in Nat /\ p.head < cap
      BY <1>1, <2>1
    <3>2. p = [capacity |-> p.capacity, lines |-> p.lines, head |-> p.head, len |-> p.len]
      BY <1>2
    <3> QED BY <1>6, <2>1, <2>2, <3>1, <3>2 DEF RingOK
  <2>4. /\ Len(Lines(p)) = r.len
        /\ \A i \in 1 .. r.len : Lines(p)[i] = p.lines[Slot(p, i)]
    BY <2>1, <2>3, LinesAre
  <2>5. ASSUME NEW i \in 1 .. r.len - 1 PROVE Lines(p)[i] = Lines(r)[1 + i]
    <3>1. i \in 1 .. r.len /\ 1 + i \in 1 .. r.len
      BY <1>1
    <3>2. Slot(p, i) = Slot(r, 1 + i) /\ Slot(p, i) # r.head + 1
      <4>1. Slot(p, i) = IF p.head + i <= cap THEN p.head + i ELSE p.head + i - cap
        BY <1>1, <1>6, <2>1 DEF Slot
      <4>2. Slot(r, 1 + i) = IF r.head + (1 + i) <= cap THEN r.head + (1 + i)
                             ELSE r.head + (1 + i) - cap
        BY <1>1, <1>6 DEF Slot, cap
      <4>3. i \in Nat /\ r.head \in Nat /\ cap \in Nat /\ 1 <= i /\ i < cap /\ r.head < cap
        BY <1>1, <1>6
      <4>4. CASE r.head + 1 < cap
        <5>1. p.head = r.head + 1
          BY <2>1, <4>4
        <5>2. Slot(p, i) = IF r.head + 1 + i <= cap THEN r.head + 1 + i
                           ELSE r.head + 1 + i - cap
          BY <4>1, <5>1
        <5> HIDE DEF Slot
        <5> QED BY <4>2, <4>3, <5>2
      <4>5. CASE ~(r.head + 1 < cap)
        <5>1. p.head = 0 /\ r.head + 1 = cap
          BY <2>1, <4>3, <4>5
        <5>2. Slot(p, i) = i
          BY <4>1, <4>3, <5>1
        <5>3. Slot(r, 1 + i) = i
          BY <4>2, <4>3, <5>1
        <5> QED BY <4>3, <5>1, <5>2, <5>3
      <4> QED BY <4>4, <4>5
    <3>3. Slot(r, 1 + i) \in 1 .. r.len
      BY <1>4, <3>1
    <3>4. Lines(p)[i] = r.lines[Slot(r, 1 + i)]
      BY <2>2, <2>4, <3>1, <3>2, <3>3
    <3>5. Lines(r)[1 + i] = r.lines[Slot(r, 1 + i)]
      BY <1>4, <3>1
    <3> QED BY <3>4, <3>5
  <2>6. Lines(p)[r.len] = line
    <3>1. r.len \in 1 .. r.len /\ Slot(p, r.len) = r.head + 1
      BY <1>1, <1>6, <2>1 DEF Slot
    <3>2. p.lines[r.head + 1] = line
      BY <1>1, <1>6, <2>1
    <3> QED BY <2>4, <3>1, <3>2
  <2>7. NewestOf(Lines(p), cap, Lines(r) \o <<line>>)
    <3>1. Len(Lines(p)) = r.len /\ Bounded(cap, r.len + 1) = r.len
      BY <1>1, <1>6, <2>4 DEF Bounded
    <3>2. \A i \in 1 .. r.len : Lines(p)[i] = (Lines(r) \o <<line>>)[1 + i]
      <4>1. \A i \in 1 .. r.len :
              (Lines(r) \o <<line>>)[1 + i] = IF 1 + i <= r.len THEN Lines(r)[1 + i] ELSE line
        BY <1>1, <1>4
      <4>2. \A i \in 1 .. r.len : IF 1 + i <= r.len THEN i \in 1 .. r.len - 1 ELSE i = r.len
        BY <1>1
      <4> QED BY <2>5, <2>6, <4>1, <4>2
    <3>3. Len(Lines(r) \o <<line>>) = r.len + 1
      BY <1>4
    <3>4. \A i \in 1 .. r.len : (r.len + 1) - r.len + i = 1 + i
      BY <1>1
    <3>5. r.len <= r.len + 1
      BY <1>1
    <3> QED BY <3>1, <3>2, <3>3, <3>4, <3>5 DEF NewestOf, TailOf
  <2> QED BY <2>1, <2>3, <2>7 DEF p, cap
<1> QED BY <1>1, <1>5, <1>6

\* A row of a diff, for the two folds over the rows, and what such a fold computes
\* for the sets of the first k positions.
RowsFromTop == [i \in 1 .. Height |-> i - 1]
Added(kind, acc, line) == IF kind = "ring" THEN push_line(acc, line) ELSE Append(acc, line)
PushRow(kind, acc, old, dirty, row) == IF row \in dirty THEN Added(kind, acc, old[row]) ELSE acc
Pushes(g, kind, r, old, dirty, k) ==
  g = [t \in SUBSET (1 .. k) |->
         IF t = {} THEN r
         ELSE PushRow(kind, g[t \ {Max(t)}], old, dirty, RowsFromTop[Max(t)])]

LEMMA PushesExist ==
  ASSUME NEW kind, NEW r, NEW old, NEW dirty, NEW N \in Nat
  PROVE  \E g : Pushes(g, kind, r, old, dirty, N)
<1> DEFINE K == {k \in 0 .. N : \E g : Pushes(g, kind, r, old, dirty, k)}
           Row(acc, n) == PushRow(kind, acc, old, dirty, RowsFromTop[n])
<1>1. 0 \in K
  <2> DEFINE g == [t \in SUBSET (1 .. 0) |-> r]
  <2>1. \A t \in SUBSET (1 .. 0) : t = {}
    OBVIOUS
  <2>2. Pushes(g, kind, r, old, dirty, 0)
    BY <2>1 DEF Pushes
  <2> QED BY <2>2
<1>2. ASSUME NEW k \in 0 .. N, k \in K, k < N PROVE k + 1 \in K
  <2>1. PICK g : Pushes(g, kind, r, old, dirty, k)
    BY <1>2
  <2> DEFINE h == [t \in SUBSET (1 .. k + 1) |->
                     IF k + 1 \in t THEN Row(g[t \ {k + 1}], k + 1) ELSE g[t]]
  <2>2. ASSUME NEW t \in SUBSET (1 .. k)
        PROVE  /\ t \in SUBSET (1 .. k + 1) /\ k + 1 \notin t /\ h[t] = g[t]
               /\ g[t] = IF t = {} THEN r ELSE Row(g[t \ {Max(t)}], Max(t))
    <3>1. t \in SUBSET (1 .. k + 1) /\ k + 1 \notin t
      OBVIOUS
    <3>2. h[t] = g[t]
      BY <3>1
    <3>3. g[t] = IF t = {} THEN r ELSE Row(g[t \ {Max(t)}], Max(t))
      BY <2>1 DEF Pushes
    <3> HIDE DEF h
    <3> QED BY <3>1, <3>2, <3>3
  <2>3. ASSUME NEW t \in SUBSET (1 .. k + 1)
        PROVE  h[t] = IF t = {} THEN r ELSE Row(h[t \ {Max(t)}], Max(t))
    <3>1. CASE k + 1 \in t
      <4>1. Max(t) = k + 1
        BY <3>1, MaxIs
      <4>2. t \ {k + 1} \in SUBSET (1 .. k)
        OBVIOUS
      <4>3. h[t \ {k + 1}] = g[t \ {k + 1}]
        BY <2>2, <4>2
      <4>4. h[t] = Row(g[t \ {k + 1}], k + 1)
        BY <3>1
      <4> HIDE DEF h, Row
      <4> QED BY <3>1, <4>1, <4>3, <4>4
    <3>2. CASE k + 1 \notin t
      <4>1. t \in SUBSET (1 .. k)
        BY <3>2
      <4>2. t \ {Max(t)} \in SUBSET (1 .. k)
        BY <4>1
      <4>3. h[t] = g[t] /\ g[t] = IF t = {} THEN r ELSE Row(g[t \ {Max(t)}], Max(t))
        BY <2>2, <4>1
      <4>4. h[t \ {Max(t)}] = g[t \ {Max(t)}]
        BY <2>2, <4>2
      <4> HIDE DEF h, Row
      <4> QED BY <4>3, <4>4
    <3> QED BY <3>1, <3>2
  <2>4. h = [t \in SUBSET (1 .. k + 1) |->
               IF t = {} THEN r ELSE Row(h[t \ {Max(t)}], Max(t))]
    BY <2>3
  <2>5. Pushes(h, kind, r, old, dirty, k + 1)
    BY <2>4 DEF Pushes
  <2> QED BY <1>2, <2>5
<1> HIDE DEF K
<1>3. N \in K
  BY <1>1, <1>2, Counting
<1> QED BY <1>3 DEF K

\* A fold over the rows, step by step.
Trace(Q, kind, r, old, dirty) ==
  /\ Q[0] = r
  /\ \A n \in 1 .. Height : Q[n] = PushRow(kind, Q[n - 1], old, dirty, n - 1)
  /\ kind = "ring" => Q[Height] = apply_diff(r, old, dirty)
  /\ kind = "lines" /\ r = <<>> => Q[Height] = Replaced(old, dirty)

LEMMA FoldSteps ==
  ASSUME NEW kind, NEW r, NEW old, NEW dirty
  PROVE  \E Q : Trace(Q, kind, r, old, dirty)
<1> DEFINE g == CHOOSE g : Pushes(g, kind, r, old, dirty, Height)
           Q == [k \in 0 .. Height |-> g[1 .. k]]
<1>1. Height \in Nat /\ DOMAIN RowsFromTop = 1 .. Height
  BY ScreenAssumption DEF RowsFromTop
<1>2. Pushes(g, kind, r, old, dirty, Height)
  BY <1>1, PushesExist
<1>3. ASSUME kind = "ring" PROVE apply_diff(r, old, dirty) = g[1 .. Height]
  BY <1>1, <1>3 DEF apply_diff, FoldLeft, MapThenFoldSet, Pushes, PushRow, Added, RowsFromTop
<1>8. ASSUME kind = "lines", r = <<>> PROVE Replaced(old, dirty) = g[1 .. Height]
  BY <1>1, <1>8 DEF Replaced, FoldLeft, MapThenFoldSet, Pushes, PushRow, Added, RowsFromTop
<1> HIDE DEF g
<1>4. \A t \in SUBSET (1 .. Height) :
        g[t] = IF t = {} THEN r
               ELSE PushRow(kind, g[t \ {Max(t)}], old, dirty, RowsFromTop[Max(t)])
  BY <1>2 DEF Pushes
<1>5. Q[0] = r
  <2>1. 1 .. 0 = {} /\ {} \in SUBSET (1 .. Height) /\ 0 \in 0 .. Height
    BY <1>1
  <2> DEFINE t == {}
  <2>4. t \in SUBSET (1 .. Height) /\ t = {}
    OBVIOUS
  <2> HIDE DEF t
  <2>5. g[t] = IF t = {} THEN r
               ELSE PushRow(kind, g[t \ {Max(t)}], old, dirty, RowsFromTop[Max(t)])
    BY <1>4, <2>4
  <2>2. g[t] = r
    BY <2>4, <2>5, Zenon
  <2>3. g[1 .. 0] = r
    BY <2>1, <2>2, <2>4
  <2> QED BY <2>1, <2>3
<1>6. ASSUME NEW n \in 1 .. Height PROVE Q[n] = PushRow(kind, Q[n - 1], old, dirty, n - 1)
  <2>1. 1 .. n \in SUBSET (1 .. Height) /\ 1 .. n # {} /\ n \in 1 .. n
    BY <1>1
  <2>2. Max(1 .. n) = n
    <3>1. n - 1 \in Nat /\ n - 1 + 1 = n
      BY <1>1
    <3> QED BY <2>1, <3>1, MaxIs
  <2>3. (1 .. n) \ {n} = 1 .. n - 1
    BY <1>1
  <2>4. RowsFromTop[n] = n - 1
    BY DEF RowsFromTop
  <2>5. g[1 .. n] = PushRow(kind, g[1 .. n - 1], old, dirty, n - 1)
    BY <1>4, <2>1, <2>2, <2>3, <2>4
  <2>6. n \in 0 .. Height /\ n - 1 \in 0 .. Height
    BY <1>1
  <2> QED BY <2>5, <2>6
<1>7. Q[Height] = g[1 .. Height]
  <2>1. Height \in 0 .. Height
    BY <1>1
  <2> QED BY <2>1
<1> HIDE DEF Q
<1> QED BY <1>3, <1>5, <1>6, <1>7, <1>8 DEF Trace

\* A diff leaves a good ring of the same capacity, with the newest of the lines it
\* had and of the rows the diff replaced.
LEMMA DiffKeepsNewest ==
  ASSUME NEW r, RingOK(r), NEW old \in Rows, NEW dirty \in SUBSET RowId
  PROVE  LET new == apply_diff(r, old, dirty)
         IN  /\ RingOK(new) /\ new.capacity = r.capacity
             /\ Replaced(old, dirty) \in Seq(Line)
             /\ NewestOf(Lines(new), r.capacity, Lines(r) \o Replaced(old, dirty))
<1> DEFINE Good(new, lines) ==
             /\ RingOK(new) /\ new.capacity = r.capacity /\ lines \in Seq(Line)
             /\ NewestOf(Lines(new), r.capacity, Lines(r) \o lines)
<1>1. Height \in Nat
  BY ScreenAssumption
<1>2. PICK Q : /\ Q[0] = r
               /\ \A n \in 1 .. Height : Q[n] = PushRow("ring", Q[n - 1], old, dirty, n - 1)
               /\ Q[Height] = apply_diff(r, old, dirty)
  <2> DEFINE kind == "ring"
  <2>1. kind = "ring"
    OBVIOUS
  <2> HIDE DEF kind
  <2>2. \E G : Trace(G, kind, r, old, dirty)
    BY FoldSteps
  <2> QED BY <2>1, <2>2 DEF Trace
<1>3. PICK W : /\ W[0] = <<>>
               /\ \A n \in 1 .. Height : W[n] = PushRow("lines", W[n - 1], old, dirty, n - 1)
               /\ W[Height] = Replaced(old, dirty)
  <2> DEFINE kind == "lines"
             none == <<>>
  <2>1. none = <<>> /\ kind = "lines"
    OBVIOUS
  <2> HIDE DEF kind, none
  <2>2. \E G : Trace(G, kind, none, old, dirty)
    BY FoldSteps
  <2> QED BY <2>1, <2>2 DEF Trace
<1> DEFINE K == {k \in 0 .. Height : Good(Q[k], W[k])}
<1>4. r.capacity \in Nat /\ Lines(r) \in Seq(Line) /\ Len(Lines(r)) <= r.capacity
  <2>1. r.capacity \in Nat /\ r.len \in Nat /\ r.len <= r.capacity
    BY DEF RingOK
  <2> QED BY <2>1, LinesAre
<1>5. Good(Q[0], W[0])
  <2>1. <<>> \in Seq(Line) /\ Lines(r) \o <<>> = Lines(r)
    BY <1>4, ConcatEmptySeq
  <2>2. NewestOf(Lines(r), r.capacity, Lines(r))
    <3>1. Len(Lines(r)) \in Nat /\ Bounded(r.capacity, Len(Lines(r))) = Len(Lines(r))
      BY <1>4 DEF Bounded
    <3>2. \A i \in 1 .. Len(Lines(r)) : Len(Lines(r)) - Len(Lines(r)) + i = i
      BY <3>1
    <3>3. Len(Lines(r)) <= Len(Lines(r))
      BY <3>1
    <3> QED BY <3>1, <3>2, <3>3 DEF NewestOf, TailOf
  <2> QED BY <1>2, <1>3, <2>1, <2>2
<1>6. 0 \in K
  BY <1>1, <1>5
<1>7. ASSUME NEW k \in 0 .. Height, k \in K, k < Height PROVE k + 1 \in K
  <2>1. k + 1 \in 1 .. Height /\ k + 1 - 1 = k /\ k + 1 \in 0 .. Height /\ k \in RowId
    BY <1>1, <1>7 DEF RowId
  <2>2. /\ Q[k + 1] = PushRow("ring", Q[k], old, dirty, k)
        /\ W[k + 1] = PushRow("lines", W[k], old, dirty, k)
    BY <1>2, <1>3, <2>1
  <2>3. Good(Q[k], W[k])
    BY <1>7
  <2>4. CASE k \notin dirty
    <3>1. Q[k + 1] = Q[k] /\ W[k + 1] = W[k]
      BY <2>2, <2>4 DEF PushRow
    <3> HIDE DEF Good
    <3> QED BY <2>1, <2>3, <3>1
  <2>5. CASE k \in dirty
    <3> DEFINE q == Q[k]
               w == W[k]
               p == push_line(q, old[k])
    <3>1. Q[k + 1] = p /\ W[k + 1] = Append(w, old[k])
      BY <2>2, <2>5 DEF PushRow, Added
    <3>2. old[k] \in Line /\ <<old[k]>> \in Seq(Line)
      BY <2>1 DEF Rows
    <3>3. /\ RingOK(q) /\ q.capacity = r.capacity /\ w \in Seq(Line)
          /\ NewestOf(Lines(q), r.capacity, Lines(r) \o w)
      BY <2>3
    <3> HIDE DEF q, w
    <3>4. /\ RingOK(p) /\ p.capacity = r.capacity
          /\ NewestOf(Lines(p), r.capacity, Lines(q) \o <<old[k]>>)
      BY <3>2, <3>3, PushKeepsNewest
    <3> HIDE DEF p
    <3>5. Lines(q) \in Seq(Line) /\ Lines(p) \in Seq(Line) /\ Lines(r) \o w \in Seq(Line)
      BY <1>4, <3>3, <3>4, LinesAre
    <3>6. NewestOf(Lines(p), r.capacity, (Lines(r) \o w) \o <<old[k]>>)
      BY <1>4, <3>2, <3>3, <3>4, <3>5, NewestOfMore
    <3>7. /\ Append(w, old[k]) = w \o <<old[k]>> /\ w \o <<old[k]>> \in Seq(Line)
          /\ (Lines(r) \o w) \o <<old[k]>> = Lines(r) \o (w \o <<old[k]>>)
      <4> DEFINE L == Lines(r)
                 x == <<old[k]>>
      <4>1. L \in Seq(Line) /\ x \in Seq(Line) /\ w \in Seq(Line)
        BY <1>4, <3>2, <3>3
      <4>2. Append(w, old[k]) = w \o x
        BY <3>2, <3>3
      <4> HIDE DEF L, x
      <4>3. (L \o w) \o x = L \o (w \o x) /\ w \o x \in Seq(Line)
        BY <4>1, ConcatAssociative, ConcatProperties
      <4> QED BY <4>2, <4>3 DEF L, x
    <3>8. Good(Q[k + 1], W[k + 1])
      BY <3>1, <3>4, <3>6, <3>7
    <3> QED BY <2>1, <3>8
  <2> QED BY <2>4, <2>5
<1>8. Height \in K
  <2> HIDE DEF K
  <2>1. \A k \in 0 .. Height : k \in K /\ k < Height => k + 1 \in K
    BY <1>7
  <2>2. \A k \in 0 .. Height : k \in K
    BY <1>1, <1>6, <2>1, Counting
  <2> QED BY <1>1, <2>2
<1>9. Good(Q[Height], W[Height])
  BY <1>8
<1> QED BY <1>2, <1>3, <1>9

\* A changed capacity keeps the newest lines, in a good ring.
LEMMA ResizedIsNewest ==
  ASSUME NEW r, RingOK(r), NEW n \in Nat \ {0}, n # r.capacity
  PROVE  LET new == set_capacity(r, n)
         IN  /\ RingOK(new) /\ new.capacity = n
             /\ Lines(new) = ClientHistory!Newest(n, Lines(r))
<1> DEFINE all == Lines(r)
           m == Bounded(n, r.len)
           kept == SubSeq(all, r.len - m + 1, r.len)
           new == set_capacity(r, n)
<1>1. all \in Seq(Line) /\ Len(all) = r.len /\ r.len \in Nat
  BY LinesAre DEF RingOK
<1>2. m \in 0 .. r.len /\ m <= n /\ m \in Nat
  BY <1>1 DEF Bounded
<1>3. new = [capacity |-> n, lines |-> kept, len |-> Len(kept), head |-> Len(kept) % n]
  BY DEF set_capacity
<1>4. kept = ClientHistory!Newest(n, all)
  BY <1>1 DEF ClientHistory!Newest, ClientHistory!Smaller, Bounded
<1> HIDE DEF all, m
<1>5. kept \in Seq(Line) /\ Len(kept) = m
  BY <1>1, <1>2, NewestElements
<1> HIDE DEF kept, new
<1>6. m % n = IF m < n THEN m ELSE 0
  <2>1. m < n + n
    BY <1>2
  <2>2. m % n = IF m < n THEN m ELSE m - n
    BY <1>2, <2>1, SmallRemainder
  <2> QED BY <1>2, <2>2
<1>7. new = [capacity |-> n, lines |-> kept, len |-> m, head |-> IF m < n THEN m ELSE 0]
  BY <1>3, <1>5, <1>6
<1>8. RingOK(new)
  <2>1. new.capacity \in Nat \ {0} /\ new.lines \in Seq(Line) /\ new.head \in Nat
        /\ new.len \in Nat /\ Len(new.lines) = new.len
    BY <1>2, <1>5, <1>7
  <2>2. \/ new.len < new.capacity /\ new.head = new.len
        \/ new.len = new.capacity /\ new.head < new.capacity
    BY <1>2, <1>7
  <2> QED BY <1>7, <2>1, <2>2 DEF RingOK
<1>9. Lines(new) = kept
  <2>1. /\ Lines(new) \in Seq(Line) /\ Len(Lines(new)) = m
        /\ \A i \in 1 .. m : Lines(new)[i] = kept[Slot(new, i)]
    BY <1>7, <1>8, LinesAre
  <2>2. \A i \in 1 .. m : Slot(new, i) = i
    BY <1>2, <1>7 DEF Slot
  <2>3. \A i \in 1 .. Len(kept) : Lines(new)[i] = kept[i]
    BY <1>5, <2>1, <2>2
  <2> QED BY <1>5, <2>1, <2>3, SeqEqual
<1> QED BY <1>4, <1>7, <1>8, <1>9 DEF all, new

\* The ring in the course of a behaviour: it stays good, and a step records or resizes.
LEMMA RingStep ==
  ASSUME IInv, RingOK(ring), [Next]_vars
  PROVE  RingOK(ring') /\ [ClientHistory!Next]_(ClientHistory!vars)
<1>1. CASE ring' = ring
  BY <1>1 DEF ClientHistory!vars, Lines, get
<1>2. CASE EndBurst /\ Reported # {}
  <2>1. ring' = apply_diff(ring, mirror.rows, Reported)
    BY <1>2 DEF EndBurst
  <2>2. mirror.rows \in Rows /\ Reported \in SUBSET RowId
    BY DEF IInv, Typed, Buffers, Screens, Reported, DirtyRows
  <2>3. /\ RingOK(ring') /\ ring'.capacity = ring.capacity
        /\ Replaced(mirror.rows, Reported) \in Seq(Line)
        /\ NewestOf(Lines(ring'), ring.capacity,
                    Lines(ring) \o Replaced(mirror.rows, Reported))
    BY <2>1, <2>2, DiffKeepsNewest
  <2>4. ring.capacity \in Nat /\ Lines(ring) \in Seq(Line) /\ Lines(ring') \in Seq(Line)
    BY <2>3, LinesAre DEF RingOK
  <2>5. Lines(ring') = ClientHistory!Newest(ring.capacity,
                                            Lines(ring) \o Replaced(mirror.rows, Reported))
    <3>1. Lines(ring) \o Replaced(mirror.rows, Reported) \in Seq(Line)
      BY <2>3, <2>4
    <3> QED BY <2>3, <2>4, <3>1, NewestOfIsNewest
  <2>6. Lines(ring)' = Lines(ring') /\ (ring.capacity)' = ring'.capacity
    BY DEF Lines, get
  <2>7. ClientHistory!Record
    BY <2>3, <2>5, <2>6 DEF ClientHistory!Record
  <2> QED BY <2>3, <2>7 DEF ClientHistory!Next
<1>3. ASSUME NEW n \in Capacities, SetCapacity(n)
      PROVE  RingOK(ring') /\ [ClientHistory!Next]_(ClientHistory!vars)
  <2>1. n \in Nat \ {0} /\ n # ring.capacity /\ ring' = set_capacity(ring, n)
    BY <1>3, ScreenAssumption DEF SetCapacity
  <2>2. /\ RingOK(ring') /\ ring'.capacity = n
        /\ Lines(ring') = ClientHistory!Newest(n, Lines(ring))
    BY <2>1, ResizedIsNewest
  <2>3. Lines(ring)' = Lines(ring') /\ (ring.capacity)' = ring'.capacity
    BY DEF Lines, get
  <2>4. ClientHistory!Resize
    BY <2>1, <2>2, <2>3 DEF ClientHistory!Resize
  <2> QED BY <2>2, <2>4 DEF ClientHistory!Next
<1>4. CASE EndBurst /\ Reported = {}
  BY <1>1, <1>4 DEF EndBurst, reader
<1>5. ASSUME NEW s, NEW leaving, Parse(s, leaving) PROVE ring' = ring
  BY <1>5 DEF Parse, reader
<1>6. CASE UNCHANGED vars
  BY <1>1, <1>6 DEF vars, reader
<1> QED
  BY <1>1, <1>2, <1>3, <1>4, <1>5, <1>6 DEF Next, PrintChar, LineFeed, MoveCursor,
     SetScrollRegion, EraseInLine, EraseInDisplay, AlternateScreen, SynchronizedOutput

\* The client's ring implements History: what get shows for the indices from 0 on
\* keeps the newest lines in order, through diffs and reloads of the configured
\* capacity (scrollback.rs, push_line and set_capacity).
THEOREM ClientImplementsHistory == Spec => ClientKeepsHistory
<1>1. Init => RingOK(ring) /\ ClientHistory!Init
  <2> SUFFICES ASSUME Init PROVE RingOK(ring) /\ ClientHistory!Init
    OBVIOUS
  <2>1. PICK n \in Capacities : ring = NewRing(n)
    BY DEF Init
  <2>2. n \in Nat \ {0}
    BY ScreenAssumption
  <2>3. RingOK(ring) /\ ring.len = 0 /\ ring.capacity \in Nat
    BY <2>1, <2>2 DEF NewRing, RingOK
  <2>4. Lines(ring) = <<>>
    <3>1. Lines(ring) \in Seq(Line) /\ Len(Lines(ring)) = 0
      BY <2>3, LinesAre
    <3> QED BY <3>1
  <2> QED BY <2>3, <2>4 DEF ClientHistory!Init
<1>2. IInv /\ RingOK(ring) /\ [Next]_vars
        => RingOK(ring)' /\ [ClientHistory!Next]_(ClientHistory!vars)
  <2>1. RingOK(ring') => RingOK(ring)'
    BY DEF RingOK
  <2> QED BY <2>1, RingStep
<1> QED BY <1>1, <1>2, Inductive, PTL DEF Spec, ClientKeepsHistory, ClientHistory!Spec
=============================================================================
