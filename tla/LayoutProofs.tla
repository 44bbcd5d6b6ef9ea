---------------------------- MODULE LayoutProofs ----------------------------
(***************************************************************************)
(* Theorems about Layout, for every number of panes and windows, every     *)
(* tree and every size: trees keep their shape, the tiles of a window      *)
(* partition it, a PTY has the size of its tile but for the reasons that   *)
(* off records, and floating panes stay inside their window.               *)
(*                                                                         *)
(* First the arithmetic of Extent, then the ways of a tree under the       *)
(* operations on trees, then the rectangles of a tree and of the tiling    *)
(* layout, and last the windows and the session.                           *)
(***************************************************************************)
EXTENDS Layout, CountingLemmas, FiniteSetTheorems, SequenceTheorems, TLAPS

-----------------------------------------------------------------------------
(***************************************************************************)
(* The arithmetic of Extent, for every length, ratio and rectangle.        *)
(***************************************************************************)

AnySize == [cols : Nat, rows : Nat]
AnyRect == [col : Nat, row : Nat, cols : Nat, rows : Nat]

LEMMA RoundedIsInt ==
  ASSUME NEW total \in Nat, NEW ratio \in Int
  PROVE  Rounded(total, ratio) \in Int
<1>1. 2 * total * ratio + 10 \in Int
  OBVIOUS
<1> QED BY <1>1 DEF Rounded

\* The children of a split and the separator between them fill it exactly, none
\* gets a negative length (the code subtracts u16 values), and each gets a column
\* or row of its own as soon as there are three (window/bsp.rs, split_extent: the
\* ratio is a client's, and the length may be 0 or 1).
THEOREM SplitFits ==
  ASSUME NEW total \in Nat, NEW ratio \in Int
  PROVE  LET first  == FirstExtent(total, ratio)
             second == SecondExtent(total, ratio)
         IN  /\ first \in Nat /\ second \in Nat
             /\ first + Separator(total) + second = total
             /\ total >= 2 * MIN_CHILD_EXTENT + 1 =>
                  first >= MIN_CHILD_EXTENT /\ second >= MIN_CHILD_EXTENT
<1> DEFINE available == total - Separator(total)
           rounded   == Rounded(total, ratio)
<1>1. available \in Nat /\ Separator(total) \in {0, 1}
      /\ (total >= 3 => available >= 2) /\ available + Separator(total) = total
  BY DEF Separator
<1>2. rounded \in Int
  BY RoundedIsInt
<1> HIDE DEF available, rounded
<1>3. CASE available < 2
  <2>1. FirstExtent(total, ratio) = available
    BY <1>3 DEF FirstExtent, MIN_CHILD_EXTENT, available
  <2>2. SecondExtent(total, ratio) = 0
    BY <1>1, <2>1 DEF SecondExtent, available
  <2> QED BY <1>1, <1>3, <2>1, <2>2 DEF MIN_CHILD_EXTENT
<1>4. CASE available >= 2
  <2>1. Clamp(rounded, 1, available - 1) \in 1 .. available - 1
    <3>1. available - 1 \in Int /\ 1 <= available - 1
      BY <1>1, <1>4
    <3> QED BY <1>2, <3>1 DEF Clamp, AtMost, AtLeast
  <2>2. FirstExtent(total, ratio) = Clamp(rounded, 1, available - 1)
    BY <1>1, <1>4 DEF FirstExtent, MIN_CHILD_EXTENT, available, rounded
  <2>3. SecondExtent(total, ratio) = available - FirstExtent(total, ratio)
    BY DEF SecondExtent, available
  <2> QED BY <1>1, <2>1, <2>2, <2>3 DEF MIN_CHILD_EXTENT
<1> QED BY <1>1, <1>3, <1>4

\* A floating pane never gets smaller than its minimum, and in a window that is
\* at least as large lies inside of it, wherever a client asks it to be
\* (window/floating.rs, FloatRect::clamp_to).
THEOREM FloatingPaneFits ==
  ASSUME NEW r \in AnyRect, NEW sz \in AnySize
  PROVE  LET f == clamp_to(r, sz)
         IN  /\ f \in AnyRect /\ f.cols >= MIN_COLS /\ f.rows >= MIN_ROWS
             /\ sz.cols >= MIN_COLS => f.col + f.cols <= sz.cols
             /\ sz.rows >= MIN_ROWS => f.row + f.rows <= sz.rows
<1> DEFINE cols == Clamp(r.cols, MIN_COLS, AtLeast(sz.cols, MIN_COLS))
           rows == Clamp(r.rows, MIN_ROWS, AtLeast(sz.rows, MIN_ROWS))
           f    == clamp_to(r, sz)
<1>1. /\ r.col \in Nat /\ r.row \in Nat /\ r.cols \in Nat /\ r.rows \in Nat
      /\ sz.cols \in Nat /\ sz.rows \in Nat
  BY DEF AnyRect, AnySize
<1>2. /\ cols \in Nat /\ cols >= MIN_COLS /\ (sz.cols >= MIN_COLS => cols <= sz.cols)
      /\ rows \in Nat /\ rows >= MIN_ROWS /\ (sz.rows >= MIN_ROWS => rows <= sz.rows)
  BY <1>1 DEF Clamp, AtMost, AtLeast, MIN_COLS, MIN_ROWS
<1>3. f = Rect(AtMost(r.col, AtLeast(sz.cols - cols, 0)),
               AtMost(r.row, AtLeast(sz.rows - rows, 0)), cols, rows)
  BY DEF clamp_to
<1> HIDE DEF cols, rows
<1>4. /\ f = [col |-> f.col, row |-> f.row, cols |-> cols, rows |-> rows]
      /\ f.col = AtMost(r.col, AtLeast(sz.cols - cols, 0))
      /\ f.row = AtMost(r.row, AtLeast(sz.rows - rows, 0))
  BY <1>3 DEF Rect
<1> HIDE DEF f
<1>5. /\ f.col \in Nat /\ (sz.cols >= MIN_COLS => f.col + cols <= sz.cols)
      /\ f.row \in Nat /\ (sz.rows >= MIN_ROWS => f.row + rows <= sz.rows)
  BY <1>1, <1>2, <1>4 DEF AtMost, AtLeast
<1>6. f \in AnyRect /\ f.cols = cols /\ f.rows = rows
  BY <1>2, <1>4, <1>5 DEF AnyRect
<1> QED BY <1>2, <1>5, <1>6 DEF f

\* Clamping is settled after one step: a pane that has been clamped stays where it
\* is until the window or the request changes (resize_all_panes clamps every
\* floating pane again on every resize).
THEOREM ClampingSettles ==
  ASSUME NEW r \in AnyRect, NEW sz \in AnySize
  PROVE  clamp_to(clamp_to(r, sz), sz) = clamp_to(r, sz)
<1> DEFINE C == AtLeast(sz.cols, MIN_COLS)
           R == AtLeast(sz.rows, MIN_ROWS)
           f == clamp_to(r, sz)
<1>1. /\ C \in Nat /\ C >= MIN_COLS /\ R \in Nat /\ R >= MIN_ROWS
      /\ sz.cols \in Nat /\ sz.rows \in Nat /\ r.col \in Nat /\ r.row \in Nat
      /\ r.cols \in Nat /\ r.rows \in Nat
  BY DEF AnyRect, AnySize, AtLeast, MIN_COLS, MIN_ROWS
<1>2. /\ f.cols = Clamp(r.cols, MIN_COLS, C) /\ f.rows = Clamp(r.rows, MIN_ROWS, R)
      /\ f.col = AtMost(r.col, AtLeast(sz.cols - f.cols, 0))
      /\ f.row = AtMost(r.row, AtLeast(sz.rows - f.rows, 0))
      /\ f = Rect(f.col, f.row, f.cols, f.rows)
  BY DEF clamp_to, Rect
<1>3. clamp_to(f, sz) =
        Rect(AtMost(f.col, AtLeast(sz.cols - Clamp(f.cols, MIN_COLS, C), 0)),
             AtMost(f.row, AtLeast(sz.rows - Clamp(f.rows, MIN_ROWS, R), 0)),
             Clamp(f.cols, MIN_COLS, C), Clamp(f.rows, MIN_ROWS, R))
  BY DEF clamp_to
<1> HIDE DEF C, R, f
<1>4. /\ f.cols \in MIN_COLS .. C /\ f.rows \in MIN_ROWS .. R
      /\ f.cols \in Int /\ f.rows \in Int
  <2>1. Clamp(r.cols, MIN_COLS, C) \in MIN_COLS .. C
    BY <1>1 DEF Clamp, AtMost, AtLeast, MIN_COLS
  <2>2. Clamp(r.rows, MIN_ROWS, R) \in MIN_ROWS .. R
    BY <1>1 DEF Clamp, AtMost, AtLeast, MIN_ROWS
  <2> QED BY <1>1, <1>2, <2>1, <2>2 DEF MIN_COLS, MIN_ROWS
<1>5. Clamp(f.cols, MIN_COLS, C) = f.cols /\ Clamp(f.rows, MIN_ROWS, R) = f.rows
  BY <1>1, <1>4 DEF Clamp, AtMost, AtLeast, MIN_COLS, MIN_ROWS
<1>6. /\ AtMost(f.col, AtLeast(sz.cols - f.cols, 0)) = f.col
      /\ AtMost(f.row, AtLeast(sz.rows - f.rows, 0)) = f.row
  BY <1>1, <1>2, <1>4 DEF AtMost, AtLeast
<1>7. clamp_to(f, sz) = f
  BY <1>2, <1>3, <1>5, <1>6
<1> QED BY <1>7 DEF f

-----------------------------------------------------------------------------
(***************************************************************************)
(* The ways of a tree.                                                     *)
(***************************************************************************)

LEMMA OtherSplit ==
  ASSUME NEW s \in Splits
  PROVE  /\ Other(s) \in Splits /\ Other(s) # s /\ Other(Other(s)) = s
         /\ Other(s).dir = s.dir /\ Other(s).ratio = s.ratio /\ Other(s).second = ~ s.second
BY DEF Splits, Other

\* The tree of a new window.
LEMMA LeafTree ==
  ASSUME NEW p
  PROVE  TreeOK(Leaf(p)) /\ DOMAIN Leaf(p) = {p} /\ Leaf(p)[p] = <<>>
<1>1. DOMAIN Leaf(p) = {p} /\ Leaf(p)[p] = <<>>
  BY DEF Leaf
<1>2. <<>> \in Seq(Splits) /\ Len(<<>>) = 0
  OBVIOUS
<1> QED BY <1>1, <1>2 DEF TreeOK

\* The ways in u of p and q go on from the ones in t of a and b.
LEMMA LongerWaysPart ==
  ASSUME NEW v \in Seq(Splits), NEW w \in Seq(Splits), NEW v2 \in Seq(Splits),
         NEW w2 \in Seq(Splits),
         Len(v) <= Len(v2), \A k \in 1 .. Len(v) : v2[k] = v[k],
         Len(w) <= Len(w2), \A k \in 1 .. Len(w) : w2[k] = w[k],
         NEW k \in 1 .. Len(v), Apart(v, w, k)
  PROVE  k \in 1 .. Len(v2) /\ Apart(v2, w2, k)
<1>1. Len(v) \in Nat /\ Len(w) \in Nat /\ Len(v2) \in Nat /\ Len(w2) \in Nat /\ k \in Nat
      /\ k <= Len(w)
  BY DEF Apart
<1>2. k \in 1 .. Len(v2) /\ k <= Len(v2) /\ k <= Len(w2) /\ k \in 1 .. Len(w)
  BY <1>1
<1>3. w2[k] = Other(v2[k])
  BY <1>2 DEF Apart
<1>4. ASSUME NEW j \in 1 .. k - 1 PROVE v2[j] = w2[j]
  <2>1. j \in 1 .. Len(v) /\ j \in 1 .. Len(w)
    BY <1>1
  <2> QED BY <2>1 DEF Apart
<1> QED BY <1>2, <1>3, <1>4 DEF Apart

\* A pane that is split.
LEMMA InsertAfterTree ==
  ASSUME NEW t, TreeOK(t), NEW target \in DOMAIN t, NEW new, new \notin DOMAIN t,
         NEW dir \in Directions
  PROVE  /\ TreeOK(insert_after(t, target, new, dir))
         /\ DOMAIN insert_after(t, target, new, dir) = DOMAIN t \cup {new}
<1> DEFINE u == insert_after(t, target, new, dir)
           w == t[target]
           n == Len(w)
           a == SplitNode(dir, 5, FALSE)
           b == SplitNode(dir, 5, TRUE)
           old(p) == IF p = new THEN target ELSE p
<1>1. w \in Seq(Splits) /\ n \in Nat /\ \A p \in DOMAIN t : t[p] \in Seq(Splits)
  BY DEF TreeOK
<1>2. a \in Splits /\ b \in Splits /\ b = Other(a) /\ a = Other(b)
  <2>1. a \in Splits /\ b \in Splits
    BY DEF SplitNode, Splits
  <2>2. Other(a) = [dir |-> dir, ratio |-> 5, second |-> ~ FALSE]
    BY DEF SplitNode, Other
  <2>3. Other(b) = [dir |-> dir, ratio |-> 5, second |-> ~ TRUE]
    BY DEF SplitNode, Other
  <2> QED BY <2>1, <2>2, <2>3 DEF SplitNode
<1>3. /\ DOMAIN u = DOMAIN t \cup {new}
      /\ u[new] = Append(w, b) /\ u[target] = Append(w, a)
      /\ \A p \in DOMAIN t : p # target => u[p] = t[p]
  BY DEF insert_after
<1> HIDE DEF a, b, u
<1>4. /\ Append(w, a) \in Seq(Splits) /\ Append(w, b) \in Seq(Splits)
      /\ Len(Append(w, a)) = n + 1 /\ Len(Append(w, b)) = n + 1
      /\ \A k \in 1 .. n : Append(w, a)[k] = w[k] /\ Append(w, b)[k] = w[k]
      /\ Append(w, a)[n + 1] = a /\ Append(w, b)[n + 1] = b
  BY <1>1, <1>2, AppendProperties
<1>5. ASSUME NEW p \in DOMAIN u
      PROVE  /\ u[p] \in Seq(Splits) /\ old(p) \in DOMAIN t
             /\ Len(t[old(p)]) <= Len(u[p])
             /\ \A k \in 1 .. Len(t[old(p)]) : u[p][k] = t[old(p)][k]
  <2>1. CASE p = new \/ p = target
    <3>1. old(p) = target /\ t[old(p)] = w /\ u[p] \in {Append(w, a), Append(w, b)}
      BY <1>3, <2>1
    <3> HIDE DEF w, n, old
    <3>2. Len(w) = n
      BY DEF n
    <3> QED BY <1>1, <1>4, <3>1, <3>2
  <2>2. CASE p # new /\ p # target
    <3>1. p \in DOMAIN t /\ u[p] = t[p] /\ old(p) = p /\ Len(t[p]) \in Nat
      BY <1>1, <1>3, <2>2
    <3> QED BY <1>1, <3>1
  <2> QED BY <2>1, <2>2
<1>6. Apart(u[target], u[new], n + 1) /\ Apart(u[new], u[target], n + 1)
  <2>1. \A j \in 1 .. n + 1 - 1 : j \in 1 .. n
    BY <1>1
  <2> HIDE DEF w, n
  <2>2. u[target][n + 1] = a /\ u[new][n + 1] = b
    BY <1>3, <1>4
  <2>3. \A j \in 1 .. n + 1 - 1 : u[target][j] = u[new][j]
    BY <1>3, <1>4, <2>1
  <2>4. n + 1 <= Len(u[target]) /\ n + 1 <= Len(u[new])
    BY <1>1, <1>3, <1>4
  <2> DEFINE v == u[target]
             x == u[new]
  <2>5. x[n + 1] = Other(v[n + 1]) /\ v[n + 1] = Other(x[n + 1])
    BY <1>2, <2>2
  <2> HIDE DEF v, x
  <2>6. Apart(v, x, n + 1)
    BY <1>1, <2>3, <2>4, <2>5 DEF Apart, v, x
  <2>7. Apart(x, v, n + 1)
    BY <1>1, <2>3, <2>4, <2>5 DEF Apart, v, x
  <2> QED BY <2>6, <2>7 DEF v, x
<1>7. ASSUME NEW p \in DOMAIN u, NEW q \in DOMAIN u, NEW k \in 1 .. Len(t[old(p)]),
             Apart(t[old(p)], t[old(q)], k)
      PROVE  k \in 1 .. Len(u[p]) /\ Apart(u[p], u[q], k)
  <2> DEFINE v  == t[old(p)]
             x  == t[old(q)]
             v2 == u[p]
             x2 == u[q]
  <2>1. /\ v \in Seq(Splits) /\ v2 \in Seq(Splits) /\ Len(v) <= Len(v2)
        /\ \A j \in 1 .. Len(v) : v2[j] = v[j]
    BY <1>1, <1>5
  <2>2. /\ x \in Seq(Splits) /\ x2 \in Seq(Splits) /\ Len(x) <= Len(x2)
        /\ \A j \in 1 .. Len(x) : x2[j] = x[j]
    BY <1>1, <1>5
  <2>3. k \in 1 .. Len(v) /\ Apart(v, x, k)
    BY <1>7
  <2> HIDE DEF v, x, v2, x2
  <2>4. k \in 1 .. Len(v2) /\ Apart(v2, x2, k)
    BY <2>1, <2>2, <2>3, LongerWaysPart
  <2> QED BY <2>4 DEF v2, x2
<1>8. ASSUME NEW p \in DOMAIN u, NEW q \in DOMAIN u, p # q
      PROVE  \E k \in 1 .. Len(u[p]) : Apart(u[p], u[q], k)
  <2>1. CASE old(p) # old(q)
    <3>1. old(p) \in DOMAIN t /\ old(q) \in DOMAIN t
      BY <1>5
    <3>2. PICK k \in 1 .. Len(t[old(p)]) : Apart(t[old(p)], t[old(q)], k)
      BY <2>1, <3>1 DEF TreeOK
    <3> HIDE DEF old
    <3> QED BY <1>7, <3>2
  <2>2. CASE old(p) = old(q)
    <3>1. p \in {new, target} /\ q \in {new, target}
      BY <1>8, <2>2
    <3>2. n + 1 \in 1 .. Len(u[p])
      BY <1>1, <1>3, <1>4, <3>1
    <3> QED BY <1>6, <1>8, <3>1, <3>2
  <2> QED BY <2>1, <2>2
<1>9. ASSUME NEW p \in DOMAIN u, NEW k \in 1 .. Len(u[p])
      PROVE  \E q \in DOMAIN u : Apart(u[p], u[q], k)
  <2>1. CASE k <= Len(t[old(p)])
    <3>1. k \in 1 .. Len(t[old(p)]) /\ old(p) \in DOMAIN t
      BY <1>1, <1>5, <2>1
    <3>2. PICK q \in DOMAIN t : Apart(t[old(p)], t[q], k)
      BY <3>1 DEF TreeOK
    <3>3. q \in DOMAIN u /\ old(q) = q
      BY <1>3
    <3> HIDE DEF old
    <3> QED BY <1>7, <3>1, <3>2, <3>3
  <2>2. CASE ~(k <= Len(t[old(p)]))
    <3>1. p \in {new, target}
      BY <1>1, <1>3, <2>2
    <3>2. k = n + 1
      BY <1>1, <1>3, <1>4, <2>2, <3>1
    <3> QED BY <1>3, <1>6, <3>1, <3>2
  <2> QED BY <2>1, <2>2
<1> QED BY <1>3, <1>5, <1>8, <1>9 DEF TreeOK, u

\* Two panes that trade places.
LEMMA SwapIdsTree ==
  ASSUME NEW t, TreeOK(t), NEW a \in DOMAIN t, NEW b \in DOMAIN t
  PROVE  TreeOK(swap_ids(t, a, b)) /\ DOMAIN swap_ids(t, a, b) = DOMAIN t
<1> DEFINE u == swap_ids(t, a, b)
           old(p) == IF p = a THEN b ELSE IF p = b THEN a ELSE p
<1>1. DOMAIN u = DOMAIN t /\ \A p \in DOMAIN t : u[p] = t[old(p)]
  BY DEF swap_ids
<1>2. /\ \A p \in DOMAIN t : old(p) \in DOMAIN t /\ old(old(p)) = p
      /\ \A p, q \in DOMAIN t : p # q => old(p) # old(q)
  OBVIOUS
<1> HIDE DEF u, old
<1>3. \A p \in DOMAIN u : u[p] \in Seq(Splits)
  BY <1>1, <1>2 DEF TreeOK
<1>4. ASSUME NEW p \in DOMAIN u, NEW q \in DOMAIN u, p # q
      PROVE  \E k \in 1 .. Len(u[p]) : Apart(u[p], u[q], k)
  <2>1. old(p) \in DOMAIN t /\ old(q) \in DOMAIN t /\ old(p) # old(q)
    BY <1>1, <1>2, <1>4
  <2> QED BY <1>1, <2>1 DEF TreeOK
<1>5. ASSUME NEW p \in DOMAIN u, NEW k \in 1 .. Len(u[p])
      PROVE  \E q \in DOMAIN u : Apart(u[p], u[q], k)
  <2>1. old(p) \in DOMAIN t /\ k \in 1 .. Len(t[old(p)])
    BY <1>1, <1>2
  <2>2. PICK q \in DOMAIN t : Apart(t[old(p)], t[q], k)
    BY <2>1 DEF TreeOK
  <2>3. old(q) \in DOMAIN u /\ u[old(q)] = t[q]
    BY <1>1, <1>2
  <2> QED BY <1>1, <2>2, <2>3
<1> QED BY <1>1, <1>3, <1>4, <1>5 DEF TreeOK, u

\* The panes below the innermost split around a pane go the way to it, and all
\* but the pane itself on to the other child; they part from the rest before, and
\* from each other after.
LEMMA BelowWays ==
  ASSUME NEW t, TreeOK(t), NEW pane \in DOMAIN t, t[pane] # <<>>
  PROVE  LET n == Len(t[pane])
             below == Below(t, pane)
         IN  /\ n \in Nat \ {0} /\ pane \in below /\ below \subseteq DOMAIN t
             /\ \A p \in below : \A k \in 1 .. n - 1 : k <= Len(t[p]) /\ t[p][k] = t[pane][k]
             /\ \A p \in below : p # pane => n <= Len(t[p]) /\ t[p][n] = Other(t[pane][n])
             /\ \E p \in below : p # pane
             /\ \A p \in below, q \in DOMAIN t \ below : \A k \in 1 .. Len(t[p]) :
                  Apart(t[p], t[q], k) => k < n
             /\ \A p \in DOMAIN t \ below, q \in below : \A k \in 1 .. Len(t[p]) :
                  Apart(t[p], t[q], k) => k < n
             /\ \A p, q \in below : \A k \in 1 .. Len(t[p]) : Apart(t[p], t[q], k) => k >= n
<1> DEFINE n == Len(t[pane])
           below == Below(t, pane)
<1>1. \A p \in DOMAIN t : t[p] \in Seq(Splits) /\ Len(t[p]) \in Nat
  BY DEF TreeOK
<1>2. n \in Nat \ {0} /\ n \in 1 .. n
  <2>1. Len(t[pane]) # 0
    BY <1>1
  <2> QED BY <1>1, <2>1
<1>3. below \subseteq DOMAIN t
      /\ \A p \in DOMAIN t : p \in below
           <=> \A k \in 1 .. n - 1 : k <= Len(t[p]) /\ t[p][k] = t[pane][k]
  BY DEF Below
<1> HIDE DEF below, n
<1>4. pane \in below
  BY <1>2, <1>3 DEF n
<1>5. ASSUME NEW p \in below, NEW q \in DOMAIN t, NEW k \in 1 .. Len(t[p]), k >= n,
             Apart(t[p], t[q], k)
      PROVE  q \in below
  <2>1. p \in DOMAIN t /\ Len(t[p]) \in Nat /\ Len(t[q]) \in Nat
    BY <1>1, <1>3
  <2>2. ASSUME NEW j \in 1 .. n - 1 PROVE j <= Len(t[q]) /\ t[q][j] = t[pane][j]
    <3>1. j \in 1 .. k - 1 /\ j <= Len(t[q])
      BY <1>2, <1>5, <2>1 DEF Apart
    <3>2. t[p][j] = t[q][j]
      BY <1>5, <3>1 DEF Apart
    <3> QED BY <1>3, <3>1, <3>2
  <2> QED BY <1>3, <2>2
<1>6. ASSUME NEW p \in DOMAIN t, NEW q \in below, NEW k \in 1 .. Len(t[p]), k >= n,
             Apart(t[p], t[q], k)
      PROVE  p \in below
  <2>1. Len(t[p]) \in Nat
    BY <1>1
  <2>2. ASSUME NEW j \in 1 .. n - 1 PROVE j <= Len(t[p]) /\ t[p][j] = t[pane][j]
    <3>1. j \in 1 .. k - 1 /\ j <= Len(t[p])
      BY <1>2, <1>6, <2>1
    <3>2. t[p][j] = t[q][j]
      BY <1>6, <3>1 DEF Apart
    <3> QED BY <1>3, <3>1, <3>2
  <2> QED BY <1>3, <2>2
<1>7. ASSUME NEW p \in below, NEW q \in below, NEW k \in 1 .. Len(t[p]),
             Apart(t[p], t[q], k)
      PROVE  k >= n
  <2> SUFFICES ASSUME k < n PROVE FALSE
    BY <1>2
  <2>1. k \in 1 .. n - 1
    BY <1>2
  <2>2. t[p][k] = t[pane][k] /\ t[q][k] = t[pane][k]
    BY <1>3, <2>1
  <2>3. p \in DOMAIN t /\ t[p][k] \in Splits /\ t[q][k] = Other(t[p][k])
    BY <1>1, <1>3, <1>7 DEF Apart
  <2> QED BY <2>2, <2>3, OtherSplit
<1>8. ASSUME NEW p \in below, p # pane
      PROVE  n <= Len(t[p]) /\ t[p][n] = Other(t[pane][n])
  <2>1. PICK k \in 1 .. Len(t[pane]) : Apart(t[pane], t[p], k)
    BY <1>3, <1>8 DEF TreeOK
  <2>2. k >= n
    BY <1>4, <1>7, <2>1
  <2>3. k = n
    BY <1>2, <2>1, <2>2 DEF n
  <2> QED BY <2>1, <2>3 DEF Apart
<1>9. \E p \in below : p # pane
  <2>1. PICK p \in DOMAIN t : Apart(t[pane], t[p], n)
    BY <1>2 DEF TreeOK, n
  <2>2. p \in below
    BY <1>2, <1>4, <1>5, <2>1 DEF n
  <2>3. t[pane][n] \in Splits /\ t[p][n] = Other(t[pane][n])
    BY <1>1, <1>2, <2>1 DEF n, Apart
  <2>4. p # pane
    BY <2>3, OtherSplit
  <2> QED BY <2>2, <2>4
<1>10. ASSUME NEW p \in below, NEW q \in DOMAIN t \ below, NEW k \in 1 .. Len(t[p]),
              Apart(t[p], t[q], k)
       PROVE  k < n
  BY <1>2, <1>5, <1>10
<1>11. ASSUME NEW p \in DOMAIN t \ below, NEW q \in below, NEW k \in 1 .. Len(t[p]),
              Apart(t[p], t[q], k)
       PROVE  k < n
  BY <1>2, <1>6, <1>11
<1> QED BY <1>2, <1>3, <1>4, <1>7, <1>8, <1>9, <1>10, <1>11 DEF n, below

\* A ratio that changes, on every way through its split.
LEMMA AdjustRatioTree ==
  ASSUME NEW t, TreeOK(t), NEW target \in DOMAIN t, t[target] # <<>>, NEW delta \in Int
  PROVE  /\ TreeOK(adjust_ratio_for(t, target, delta))
         /\ DOMAIN adjust_ratio_for(t, target, delta) = DOMAIN t
<1> DEFINE u == adjust_ratio_for(t, target, delta)
           n == Len(t[target])
           below == Below(t, target)
           change == IF t[target][n].second THEN -delta ELSE delta
           Turned(s) == [s EXCEPT !.ratio = NewRatio(@, change)]
<1>1. /\ DOMAIN u = DOMAIN t
      /\ \A p \in below : u[p] = [t[p] EXCEPT ![n] = Turned(@)]
      /\ \A p \in DOMAIN t \ below : u[p] = t[p]
  BY DEF adjust_ratio_for, Below
<1>2. \A p \in DOMAIN t : t[p] \in Seq(Splits) /\ Len(t[p]) \in Nat
  BY DEF TreeOK
<1>3. /\ n \in Nat \ {0} /\ target \in below /\ below \subseteq DOMAIN t
      /\ \A p \in below : \A k \in 1 .. n - 1 : k <= Len(t[p]) /\ t[p][k] = t[target][k]
      /\ \A p \in below : p # target => n <= Len(t[p]) /\ t[p][n] = Other(t[target][n])
      /\ \A p \in below, q \in DOMAIN t \ below : \A k \in 1 .. Len(t[p]) :
           Apart(t[p], t[q], k) => k < n
      /\ \A p \in DOMAIN t \ below, q \in below : \A k \in 1 .. Len(t[p]) :
           Apart(t[p], t[q], k) => k < n
      /\ \A p, q \in below : \A k \in 1 .. Len(t[p]) : Apart(t[p], t[q], k) => k >= n
  BY BelowWays
<1>4. ASSUME NEW s \in Splits
      PROVE  Turned(s) \in Splits /\ Turned(Other(s)) = Other(Turned(s))
  <2>1. change \in Int
    OBVIOUS
  <2>2. s.dir \in Directions /\ s.ratio \in 1 .. 9 /\ s.second \in BOOLEAN
        /\ s = [dir |-> s.dir, ratio |-> s.ratio, second |-> s.second]
    BY DEF Splits
  <2> HIDE DEF change
  <2>3. NewRatio(s.ratio, change) \in 1 .. 9
    BY <2>1, <2>2 DEF NewRatio, Clamp, AtMost, AtLeast
  <2>4. Turned(s) = [dir |-> s.dir, ratio |-> NewRatio(s.ratio, change), second |-> s.second]
    BY <2>2
  <2>5. Other(s) = [dir |-> s.dir, ratio |-> s.ratio, second |-> ~ s.second]
    BY <2>2 DEF Other
  <2>6. Turned(Other(s)) =
          [dir |-> s.dir, ratio |-> NewRatio(s.ratio, change), second |-> ~ s.second]
    BY <2>5
  <2>7. Other(Turned(s)) =
          [dir |-> s.dir, ratio |-> NewRatio(s.ratio, change), second |-> ~ s.second]
    <3> DEFINE turned == Turned(s)
    <3>1. turned = [dir |-> s.dir, ratio |-> NewRatio(s.ratio, change), second |-> s.second]
      BY <2>4
    <3> HIDE DEF turned
    <3>2. Other(turned) =
            [dir |-> s.dir, ratio |-> NewRatio(s.ratio, change), second |-> ~ s.second]
      BY <3>1 DEF Other
    <3> QED BY <3>2 DEF turned
  <2> QED BY <2>2, <2>3, <2>4, <2>6, <2>7 DEF Splits
<1> HIDE DEF u, n, below, Turned, change
<1>5. ASSUME NEW p \in DOMAIN t
      PROVE  /\ u[p] \in Seq(Splits) /\ Len(u[p]) = Len(t[p])
             /\ \A k \in 1 .. Len(t[p]) :
                  u[p][k] = IF p \in below /\ k = n THEN Turned(t[p][k]) ELSE t[p][k]
  <2>1. CASE p \in below
    <3>1. u[p] = [t[p] EXCEPT ![n] = Turned(@)] /\ t[p] \in Seq(Splits)
      BY <1>1, <1>2, <2>1
    <3>2. n \in DOMAIN t[p]
      <4>1. n <= Len(t[p])
        BY <1>2, <1>3, <2>1 DEF n
      <4> QED BY <1>2, <1>3, <4>1
    <3>3. Turned(t[p][n]) \in Splits
      BY <1>4, <3>1, <3>2
    <3>4. u[p] = [k \in 1 .. Len(t[p]) |-> IF k = n THEN Turned(t[p][k]) ELSE t[p][k]]
      BY <3>1
    <3>5. \A k \in 1 .. Len(t[p]) : (IF k = n THEN Turned(t[p][k]) ELSE t[p][k]) \in Splits
      BY <3>1, <3>3
    <3> QED BY <1>2, <2>1, <3>4, <3>5
  <2>2. CASE p \notin below
    BY <1>1, <1>2, <2>2
  <2> QED BY <2>1, <2>2
<1>6. ASSUME NEW p \in DOMAIN t, NEW q \in DOMAIN t, NEW k \in 1 .. Len(t[p]),
             Apart(t[p], t[q], k)
      PROVE  k \in 1 .. Len(u[p]) /\ Apart(u[p], u[q], k)
  <2>1. /\ k <= Len(t[p]) /\ k <= Len(t[q]) /\ k \in Nat /\ k \in 1 .. Len(t[q])
        /\ t[q][k] = Other(t[p][k]) /\ \A j \in 1 .. k - 1 : t[p][j] = t[q][j]
    BY <1>2, <1>6 DEF Apart
  <2>2. t[p][k] \in Splits
    BY <1>2
  <2>3. \/ p \in below /\ q \in below
        \/ p \notin below /\ q \notin below
        \/ k < n
    BY <1>3, <1>6
  <2>4. ASSUME NEW j \in 1 .. k - 1 PROVE u[p][j] = u[q][j]
    <3>1. j \in 1 .. Len(t[p]) /\ j \in 1 .. Len(t[q]) /\ t[p][j] = t[q][j]
      BY <1>2, <2>1
    <3>2. (p \in below <=> q \in below) \/ j # n
      BY <1>3, <2>1, <2>3
    <3> QED BY <1>5, <3>1, <3>2
  <2>5. u[q][k] = Other(u[p][k])
    <3>1. (p \in below <=> q \in below) \/ k # n
      BY <1>3, <2>1, <2>3
    <3>2. CASE p \in below /\ k = n
      <4>1. u[q][k] = Turned(t[q][k]) /\ u[p][k] = Turned(t[p][k])
        BY <1>5, <2>1, <3>1, <3>2
      <4>2. Turned(Other(t[p][k])) = Other(Turned(t[p][k]))
        BY <1>4, <2>2
      <4> QED BY <2>1, <4>1, <4>2
    <3>3. CASE ~(p \in below /\ k = n)
      <4>1. u[q][k] = t[q][k] /\ u[p][k] = t[p][k]
        BY <1>5, <2>1, <3>1, <3>3
      <4> QED BY <2>1, <4>1
    <3> QED BY <3>2, <3>3
  <2>6. k <= Len(u[p]) /\ k <= Len(u[q])
    BY <1>5, <2>1
  <2> QED BY <1>5, <2>4, <2>5, <2>6 DEF Apart
<1>7. ASSUME NEW p \in DOMAIN u, NEW q \in DOMAIN u, p # q
      PROVE  \E k \in 1 .. Len(u[p]) : Apart(u[p], u[q], k)
  <2>1. PICK k \in 1 .. Len(t[p]) : Apart(t[p], t[q], k)
    BY <1>1, <1>7 DEF TreeOK
  <2> QED BY <1>1, <1>6, <2>1
<1>8. ASSUME NEW p \in DOMAIN u, NEW k \in 1 .. Len(u[p])
      PROVE  \E q \in DOMAIN u : Apart(u[p], u[q], k)
  <2>1. p \in DOMAIN t /\ k \in 1 .. Len(t[p])
    BY <1>1, <1>5
  <2>2. PICK q \in DOMAIN t : Apart(t[p], t[q], k)
    BY <2>1 DEF TreeOK
  <2> QED BY <1>1, <1>6, <2>1, <2>2
<1> QED BY <1>1, <1>5, <1>7, <1>8 DEF TreeOK, u

\* A pane that is taken out: the ways of the other panes below its split are one
\* shorter.
LEMMA RemoveTree ==
  ASSUME NEW t, TreeOK(t), NEW target \in DOMAIN t, t[target] # <<>>
  PROVE  /\ TreeOK(remove(t, target))
         /\ DOMAIN remove(t, target) = DOMAIN t \ {target}
<1> DEFINE u == remove(t, target)
           n == Len(t[target])
           below == Below(t, target)
<1>1. /\ DOMAIN u = DOMAIN t \ {target}
      /\ \A p \in below : p # target => u[p] = RemoveAt(t[p], n)
      /\ \A p \in DOMAIN t \ below : p # target => u[p] = t[p]
  BY DEF remove, Below
<1>2. \A p \in DOMAIN t : t[p] \in Seq(Splits) /\ Len(t[p]) \in Nat
  BY DEF TreeOK
<1>3. /\ n \in Nat \ {0} /\ target \in below /\ below \subseteq DOMAIN t
      /\ \A p \in below : \A k \in 1 .. n - 1 : k <= Len(t[p]) /\ t[p][k] = t[target][k]
      /\ \A p \in below : p # target => n <= Len(t[p]) /\ t[p][n] = Other(t[target][n])
      /\ \E p \in below : p # target
      /\ \A p \in below, q \in DOMAIN t \ below : \A k \in 1 .. Len(t[p]) :
           Apart(t[p], t[q], k) => k < n
      /\ \A p \in DOMAIN t \ below, q \in below : \A k \in 1 .. Len(t[p]) :
           Apart(t[p], t[q], k) => k < n
      /\ \A p, q \in below : \A k \in 1 .. Len(t[p]) : Apart(t[p], t[q], k) => k >= n
  BY BelowWays
<1> HIDE DEF u, n, below
<1>4. ASSUME NEW p \in below \ {target}
      PROVE  /\ p \in DOMAIN t /\ n <= Len(t[p]) /\ t[p][n] \in Splits
             /\ t[p][n] = Other(t[target][n])
             /\ u[p] \in Seq(Splits) /\ Len(u[p]) = Len(t[p]) - 1
             /\ \A k \in 1 .. Len(t[p]) - 1 : u[p][k] = IF k < n THEN t[p][k] ELSE t[p][k + 1]
  <2>1. /\ p \in DOMAIN t /\ n <= Len(t[p]) /\ n \in 1 .. Len(t[p])
        /\ t[p][n] = Other(t[target][n])
    BY <1>2, <1>3
  <2>2. t[p] \in Seq(Splits) /\ u[p] = RemoveAt(t[p], n)
    BY <1>1, <1>2, <2>1
  <2> QED BY <2>1, <2>2, RemoveAtElements
<1>5. ASSUME NEW p \in DOMAIN u PROVE u[p] \in Seq(Splits) /\ p \in DOMAIN t /\ p # target
  BY <1>1, <1>2, <1>4
\* Two panes that part before the split, or outside of it.
<1>6. ASSUME NEW p \in DOMAIN u, NEW q \in DOMAIN u, NEW k \in 1 .. Len(t[p]),
             Apart(t[p], t[q], k), k < n \/ (p \notin below /\ q \notin below)
      PROVE  k \in 1 .. Len(u[p]) /\ Apart(u[p], u[q], k)
  <2>1. /\ k <= Len(t[p]) /\ k <= Len(t[q]) /\ k \in Nat /\ k # 0
        /\ t[q][k] = Other(t[p][k]) /\ \A j \in 1 .. k - 1 : t[p][j] = t[q][j]
    BY <1>2, <1>6 DEF Apart
  <2>2. ASSUME NEW r \in {p, q}
        PROVE  k <= Len(u[r]) /\ Len(u[r]) \in Nat /\ \A j \in 1 .. k : u[r][j] = t[r][j]
    <3>1. CASE r \in below
      <4>1. k < n /\ r \in below \ {target} /\ n <= Len(t[r]) /\ Len(t[r]) \in Nat
        BY <1>2, <1>4, <1>5, <1>6, <3>1
      <4>2. k <= Len(t[r]) - 1 /\ \A j \in 1 .. k : j \in 1 .. Len(t[r]) - 1 /\ j < n
        BY <1>3, <2>1, <4>1
      <4> QED BY <1>4, <2>1, <4>1, <4>2
    <3>2. CASE r \notin below
      <4>1. u[r] = t[r]
        BY <1>1, <1>5, <3>2
      <4> QED BY <1>2, <1>5, <2>1, <4>1
    <3> QED BY <3>1, <3>2
  <2>3. k \in 1 .. k /\ \A j \in 1 .. k - 1 : j \in 1 .. k
    BY <2>1
  <2>4. u[q][k] = Other(u[p][k])
    BY <2>1, <2>2, <2>3
  <2>5. \A j \in 1 .. k - 1 : u[p][j] = u[q][j]
    BY <2>1, <2>2, <2>3
  <2>6. k \in 1 .. Len(u[p]) /\ k <= Len(u[p]) /\ k <= Len(u[q])
    BY <2>1, <2>2
  <2> QED BY <2>4, <2>5, <2>6 DEF Apart
\* Two panes that part after the split.
<1>7. ASSUME NEW p \in below \ {target}, NEW q \in below \ {target}, NEW k \in 1 .. Len(t[p]),
             Apart(t[p], t[q], k), k > n
      PROVE  k - 1 \in 1 .. Len(u[p]) /\ Apart(u[p], u[q], k - 1)
  <2>1. /\ k <= Len(t[p]) /\ k <= Len(t[q]) /\ k \in Nat
        /\ t[q][k] = Other(t[p][k]) /\ \A j \in 1 .. k - 1 : t[p][j] = t[q][j]
        /\ Len(t[p]) \in Nat /\ Len(t[q]) \in Nat
    BY <1>2, <1>4, <1>7 DEF Apart
  <2>2. Len(u[p]) = Len(t[p]) - 1 /\ Len(u[q]) = Len(t[q]) - 1
    BY <1>4
  <2>3. k - 1 \in 1 .. Len(t[p]) - 1 /\ k - 1 \in 1 .. Len(t[q]) - 1 /\ ~(k - 1 < n)
        /\ k - 1 + 1 = k
    BY <1>3, <1>7, <2>1
  <2>4. u[p][k - 1] = t[p][k] /\ u[q][k - 1] = t[q][k]
    BY <1>4, <2>3
  <2>5. ASSUME NEW j \in 1 .. (k - 1) - 1 PROVE u[p][j] = u[q][j]
    <3>1. j \in 1 .. Len(t[p]) - 1 /\ j \in 1 .. Len(t[q]) - 1 /\ j \in 1 .. k - 1
          /\ j + 1 \in 1 .. k - 1
      BY <2>1
    <3>2. t[p][j] = t[q][j] /\ t[p][j + 1] = t[q][j + 1]
      BY <2>1, <3>1
    <3> QED BY <1>4, <3>1, <3>2
  <2>6. k - 1 \in 1 .. Len(u[p]) /\ k - 1 <= Len(u[p]) /\ k - 1 <= Len(u[q])
    BY <2>1, <2>2, <2>3
  <2> QED BY <2>1, <2>4, <2>5, <2>6 DEF Apart
<1>8. ASSUME NEW p \in below \ {target}, NEW q \in below \ {target}, NEW k \in 1 .. Len(t[p]),
             Apart(t[p], t[q], k)
      PROVE  k > n
  <2>1. k >= n /\ k \in Nat
    BY <1>3, <1>8
  <2>2. k # n
    <3> SUFFICES ASSUME k = n PROVE FALSE
      OBVIOUS
    <3>1. t[q][n] = Other(t[p][n])
      BY <1>8 DEF Apart
    <3>2. t[q][n] = t[p][n] /\ t[p][n] \in Splits
      BY <1>4
    <3> QED BY <3>1, <3>2, OtherSplit
  <2> QED BY <1>3, <2>1, <2>2
<1>9. ASSUME NEW p \in DOMAIN u, NEW q \in DOMAIN u, p # q
      PROVE  \E k \in 1 .. Len(u[p]) : Apart(u[p], u[q], k)
  <2>1. PICK k \in 1 .. Len(t[p]) : Apart(t[p], t[q], k)
    BY <1>5, <1>9 DEF TreeOK
  <2>2. CASE p \in below /\ q \in below
    BY <1>5, <1>7, <1>8, <2>1, <2>2
  <2>3. CASE ~(p \in below /\ q \in below)
    <3>1. k < n \/ (p \notin below /\ q \notin below)
      BY <1>3, <1>5, <2>1, <2>3
    <3> QED BY <1>6, <2>1, <3>1
  <2> QED BY <2>2, <2>3
<1>10. ASSUME NEW p \in DOMAIN u, NEW k \in 1 .. Len(u[p])
       PROVE  \E q \in DOMAIN u : Apart(u[p], u[q], k)
  <2>1. p \in DOMAIN t /\ p # target /\ Len(u[p]) \in Nat /\ Len(t[p]) \in Nat
    BY <1>2, <1>5
  <2>2. CASE p \in below /\ k >= n
    <3>1. k + 1 \in 1 .. Len(t[p]) /\ k + 1 > n /\ k + 1 - 1 = k
      BY <1>3, <1>4, <2>1, <2>2
    <3>2. PICK q \in DOMAIN t : Apart(t[p], t[q], k + 1)
      BY <2>1, <3>1 DEF TreeOK
    <3>3. q \in below
      <4> SUFFICES ASSUME q \notin below PROVE FALSE
        OBVIOUS
      <4>1. k + 1 < n
        BY <1>3, <2>2, <3>1, <3>2
      <4> QED BY <1>3, <3>1, <4>1
    <3>4. q # target
      <4> SUFFICES ASSUME q = target PROVE FALSE
        OBVIOUS
      <4>1. k + 1 <= n
        BY <3>2 DEF Apart, n
      <4> QED BY <1>3, <3>1, <4>1
    <3>5. Apart(u[p], u[q], k)
      BY <1>7, <2>1, <2>2, <3>1, <3>2, <3>3, <3>4
    <3> QED BY <1>1, <1>3, <3>3, <3>4, <3>5
  <2>3. CASE p \notin below \/ k < n
    <3>1. k \in 1 .. Len(t[p])
      <4>1. CASE p \in below
        BY <1>4, <2>1, <4>1
      <4>2. CASE p \notin below
        BY <1>1, <2>1, <4>2
      <4> QED BY <4>1, <4>2
    <3>2. PICK q0 \in DOMAIN t : Apart(t[p], t[q0], k)
      BY <2>1, <3>1 DEF TreeOK
    <3>3. CASE q0 # target
      <4>1. q0 \in DOMAIN u /\ (k < n \/ (p \notin below /\ q0 \notin below))
        BY <1>1, <1>3, <2>3, <3>1, <3>2, <3>3
      <4> QED BY <1>6, <3>1, <3>2, <4>1
    <3>4. CASE q0 = target
      <4>1. p \notin below /\ k < n
        BY <1>3, <2>1, <2>3, <3>1, <3>2, <3>4
      <4>2. PICK q \in below : q # target
        BY <1>3
      <4>3. q \in DOMAIN u /\ n <= Len(t[q]) /\ Len(t[q]) \in Nat
            /\ \A j \in 1 .. n - 1 : t[q][j] = t[target][j]
        BY <1>1, <1>2, <1>3, <4>2
      <4>4. k \in 1 .. n - 1 /\ k <= Len(t[q]) /\ \A j \in 1 .. k - 1 : j \in 1 .. n - 1
        BY <1>3, <3>1, <4>1, <4>3
      <4>5. /\ k <= Len(t[p]) /\ t[target][k] = Other(t[p][k])
            /\ \A j \in 1 .. k - 1 : t[p][j] = t[target][j]
        BY <3>2, <3>4 DEF Apart
      <4>6. Apart(t[p], t[q], k)
        BY <3>1, <4>3, <4>4, <4>5 DEF Apart
      <4> QED BY <1>6, <3>1, <4>1, <4>3, <4>6
    <3> QED BY <3>3, <3>4
  <2> QED BY <1>3, <2>1, <2>2, <2>3
<1> QED BY <1>1, <1>5, <1>9, <1>10 DEF TreeOK, u

-----------------------------------------------------------------------------
(***************************************************************************)
(* The rectangles on a way.                                                *)
(***************************************************************************)

\* RectsOn is defined: its rectangles are the parts of parts of r.
LEMMA RectsOnWay ==
  ASSUME NEW way, Len(way) \in Nat, NEW r
  PROVE  /\ RectsOn(way, r)[0] = r
         /\ \A k \in 1 .. Len(way) : RectsOn(way, r)[k] = Part(way[k], RectsOn(way, r)[k - 1])
<1> DEFINE N == Len(way)
           Defines(m, f) == f = [k \in 0 .. m |-> IF k = 0 THEN r ELSE Part(way[k], f[k - 1])]
           K == {m \in 0 .. N : \E f : Defines(m, f)}
<1>1. 0 \in K
  <2> DEFINE f == [k \in 0 .. 0 |-> r]
  <2>1. f = [k \in 0 .. 0 |-> IF k = 0 THEN r ELSE Part(way[k], f[k - 1])]
    OBVIOUS
  <2> HIDE DEF f
  <2>2. Defines(0, f) /\ 0 \in 0 .. N
    BY <2>1
  <2> QED BY <2>2
<1>2. ASSUME NEW m \in 0 .. N, m \in K, m < N PROVE m + 1 \in K
  <2>1. PICK f : Defines(m, f)
    BY <1>2
  <2> DEFINE g == [k \in 0 .. m + 1 |-> IF k = m + 1 THEN Part(way[m + 1], f[m]) ELSE f[k]]
  <2>2. \A k \in 0 .. m + 1 : g[k] = IF k = 0 THEN r ELSE Part(way[k], g[k - 1])
    <3> SUFFICES ASSUME NEW k \in 0 .. m + 1
                 PROVE  g[k] = IF k = 0 THEN r ELSE Part(way[k], g[k - 1])
      OBVIOUS
    <3>1. CASE k = m + 1
      <4>1. g[k] = Part(way[k], f[m]) /\ k # 0 /\ k - 1 = m /\ g[k - 1] = f[m]
        BY <3>1
      <4> QED BY <4>1
    <3>2. CASE k # m + 1 /\ k = 0
      <4>1. g[k] = f[0] /\ f[0] = r
        BY <2>1, <3>2
      <4> QED BY <3>2, <4>1
    <3>3. CASE k # m + 1 /\ k # 0
      <4>1. k \in 0 .. m /\ k - 1 \in 0 .. m + 1 /\ k - 1 # m + 1
        BY <3>3
      <4>2. g[k] = f[k] /\ g[k - 1] = f[k - 1]
        BY <3>3, <4>1
      <4>3. f[k] = Part(way[k], f[k - 1])
        BY <2>1, <3>3, <4>1
      <4> QED BY <3>3, <4>2, <4>3
    <3> QED BY <3>1, <3>2, <3>3
  <2>3. DOMAIN g = 0 .. m + 1 /\ g = [k \in 0 .. m + 1 |-> g[k]]
    OBVIOUS
  <2> HIDE DEF g
  <2>4. Defines(m + 1, g)
    BY <2>2, <2>3
  <2>5. m + 1 \in 0 .. N
    BY <1>2
  <2> QED BY <2>4, <2>5
<1>3. N \in K
  <2> HIDE DEF K
  <2>1. N \in Nat /\ N \in 0 .. N
    OBVIOUS
  <2> QED BY <1>1, <1>2, <2>1, Counting
<1>4. Defines(N, RectsOn(way, r))
  <2>1. \E f : Defines(N, f)
    BY <1>3
  <2> QED BY <2>1 DEF RectsOn
<1> DEFINE rect == RectsOn(way, r)
<1> HIDE DEF rect
<1>5. rect = [k \in 0 .. N |-> IF k = 0 THEN r ELSE Part(way[k], rect[k - 1])]
  BY <1>4 DEF rect
<1>6. rect[0] = r
  BY <1>5
<1>7. ASSUME NEW k \in 1 .. N PROVE rect[k] = Part(way[k], rect[k - 1])
  <2>1. k \in 0 .. N /\ k # 0
    OBVIOUS
  <2> QED BY <1>5, <2>1
<1> QED BY <1>6, <1>7 DEF rect

\* a lies in b.
Within(a, b) ==
  /\ b.col <= a.col /\ a.col + a.cols <= b.col + b.cols
  /\ b.row <= a.row /\ a.row + a.rows <= b.row + b.rows

LEMMA WithinSteps ==
  ASSUME NEW a \in AnyRect, NEW b \in AnyRect, NEW c \in AnyRect
  PROVE  /\ Within(a, a) /\ (Within(a, b) /\ Within(b, c) => Within(a, c))
         /\ Disjoint(a, b) => Disjoint(b, a)
         /\ Within(a, b) /\ Disjoint(b, c) => Disjoint(a, c)
         /\ \A cell \in Nat \X Nat :
              /\ Within(a, b) /\ Holds(a, cell) => Holds(b, cell)
              /\ Holds(a, cell) /\ Holds(b, cell) => ~ Disjoint(a, b)
BY DEF AnyRect, Within, Disjoint, Holds

\* The two children of a split and the separator are a partition of its rectangle.
LEMMA SplitParts ==
  ASSUME NEW s \in Splits, NEW r \in AnyRect
  PROVE  LET a == FirstRect(s, r)
             b == SecondRect(s, r)
             m == SeparatorRect(s, r)
         IN  /\ a \in AnyRect /\ b \in AnyRect /\ m \in AnyRect
             /\ Within(a, r) /\ Within(b, r) /\ Within(m, r)
             /\ Disjoint(a, b) /\ Disjoint(a, m) /\ Disjoint(b, m)
             /\ \A cell \in Nat \X Nat :
                  Holds(r, cell) => Holds(a, cell) \/ Holds(b, cell) \/ Holds(m, cell)
<1> DEFINE a == FirstRect(s, r)
           b == SecondRect(s, r)
           m == SeparatorRect(s, r)
<1>1. s.dir \in {"vertical", "horizontal"} /\ s.ratio \in Int
  BY DEF Splits, Directions
<1>2. r.col \in Nat /\ r.row \in Nat /\ r.cols \in Nat /\ r.rows \in Nat
  BY DEF AnyRect
<1>3. CASE s.dir = "vertical"
  <2> DEFINE x == FirstExtent(r.cols, s.ratio)
             y == SecondExtent(r.cols, s.ratio)
             z == Separator(r.cols)
  <2>1. x \in Nat /\ y \in Nat /\ x + z + y = r.cols
    BY <1>1, <1>2, SplitFits
  <2>2. z \in Nat
    BY DEF Separator
  <2>3. /\ a = Rect(r.col, r.row, x, r.rows) /\ b = Rect(r.col + x + z, r.row, y, r.rows)
        /\ m = Rect(r.col + x, r.row, z, r.rows)
    BY <1>3 DEF FirstRect, SecondRect, SeparatorRect
  <2> HIDE DEF x, y, z, a, b, m
  <2>4. /\ a \in AnyRect /\ a.col = r.col /\ a.row = r.row /\ a.cols = x /\ a.rows = r.rows
        /\ b \in AnyRect /\ b.col = r.col + x + z /\ b.row = r.row /\ b.cols = y
        /\ b.rows = r.rows
        /\ m \in AnyRect /\ m.col = r.col + x /\ m.row = r.row /\ m.cols = z /\ m.rows = r.rows
    BY <1>2, <2>1, <2>2, <2>3 DEF Rect, AnyRect
  <2>5. Within(a, r) /\ Within(b, r) /\ Within(m, r)
    BY <1>2, <2>1, <2>2, <2>4 DEF Within
  <2>6. Disjoint(a, b) /\ Disjoint(a, m) /\ Disjoint(b, m)
    BY <1>2, <2>1, <2>2, <2>4 DEF Disjoint
  <2>7. \A cell \in Nat \X Nat :
          Holds(r, cell) => Holds(a, cell) \/ Holds(b, cell) \/ Holds(m, cell)
    BY <1>2, <2>1, <2>2, <2>4 DEF Holds
  <2> QED BY <2>4, <2>5, <2>6, <2>7 DEF a, b, m
<1>4. CASE s.dir # "vertical"
  <2> DEFINE x == FirstExtent(r.rows, s.ratio)
             y == SecondExtent(r.rows, s.ratio)
             z == Separator(r.rows)
  <2>1. x \in Nat /\ y \in Nat /\ x + z + y = r.rows
    BY <1>1, <1>2, SplitFits
  <2>2. z \in Nat
    BY DEF Separator
  <2>3. /\ a = Rect(r.col, r.row, r.cols, x) /\ b = Rect(r.col, r.row + x + z, r.cols, y)
        /\ m = Rect(r.col, r.row + x, r.cols, z)
    BY <1>4 DEF FirstRect, SecondRect, SeparatorRect
  <2> HIDE DEF x, y, z, a, b, m
  <2>4. /\ a \in AnyRect /\ a.col = r.col /\ a.row = r.row /\ a.cols = r.cols /\ a.rows = x
        /\ b \in AnyRect /\ b.col = r.col /\ b.row = r.row + x + z /\ b.cols = r.cols
        /\ b.rows = y
        /\ m \in AnyRect /\ m.col = r.col /\ m.row = r.row + x /\ m.cols = r.cols /\ m.rows = z
    BY <1>2, <2>1, <2>2, <2>3 DEF Rect, AnyRect
  <2>5. Within(a, r) /\ Within(b, r) /\ Within(m, r)
    BY <1>2, <2>1, <2>2, <2>4 DEF Within
  <2>6. Disjoint(a, b) /\ Disjoint(a, m) /\ Disjoint(b, m)
    BY <1>2, <2>1, <2>2, <2>4 DEF Disjoint
  <2>7. \A cell \in Nat \X Nat :
          Holds(r, cell) => Holds(a, cell) \/ Holds(b, cell) \/ Holds(m, cell)
    BY <1>2, <2>1, <2>2, <2>4 DEF Holds
  <2> QED BY <2>4, <2>5, <2>6, <2>7 DEF a, b, m
<1> QED BY <1>3, <1>4

\* The same of the part of a split and of the other one.
LEMMA PartsOfSplit ==
  ASSUME NEW s \in Splits, NEW r \in AnyRect
  PROVE  LET a == Part(s, r)
             b == Part(Other(s), r)
             m == SeparatorRect(s, r)
         IN  /\ a \in AnyRect /\ b \in AnyRect /\ m \in AnyRect
             /\ Within(a, r) /\ Within(b, r) /\ Within(m, r)
             /\ Disjoint(a, b) /\ Disjoint(a, m) /\ Disjoint(b, m)
             /\ SeparatorRect(Other(s), r) = m
             /\ \A cell \in Nat \X Nat :
                  Holds(r, cell) => Holds(a, cell) \/ Holds(b, cell) \/ Holds(m, cell)
<1> DEFINE o == Other(s)
           x == FirstRect(s, r)
           y == SecondRect(s, r)
           m == SeparatorRect(s, r)
<1>1. /\ x \in AnyRect /\ y \in AnyRect /\ m \in AnyRect
      /\ Within(x, r) /\ Within(y, r) /\ Within(m, r)
      /\ Disjoint(x, y) /\ Disjoint(x, m) /\ Disjoint(y, m)
      /\ \A cell \in Nat \X Nat :
           Holds(r, cell) => Holds(x, cell) \/ Holds(y, cell) \/ Holds(m, cell)
  BY SplitParts
<1>2. Disjoint(y, x)
  BY <1>1 DEF Disjoint
<1>3. o.dir = s.dir /\ o.ratio = s.ratio /\ o.second = ~ s.second /\ s.second \in BOOLEAN
  BY OtherSplit DEF Splits
<1> HIDE DEF o
<1>4. FirstRect(o, r) = x /\ SecondRect(o, r) = y /\ SeparatorRect(o, r) = m
  BY <1>3 DEF FirstRect, SecondRect, SeparatorRect
<1>5. \/ Part(s, r) = x /\ Part(o, r) = y
      \/ Part(s, r) = y /\ Part(o, r) = x
  <2>1. CASE s.second
    BY <1>3, <1>4, <2>1 DEF Part
  <2>2. CASE ~ s.second
    BY <1>3, <1>4, <2>2 DEF Part
  <2> QED BY <2>1, <2>2
<1> HIDE DEF x, y, m
<1> QED BY <1>1, <1>2, <1>4, <1>5 DEF o, m

\* The rectangles on a way get smaller and smaller.
LEMMA RectsShrink ==
  ASSUME NEW way \in Seq(Splits), NEW r \in AnyRect
  PROVE  \A k \in 0 .. Len(way) :
           /\ RectsOn(way, r)[k] \in AnyRect
           /\ \A j \in 0 .. k : Within(RectsOn(way, r)[k], RectsOn(way, r)[j])
<1> DEFINE rect == RectsOn(way, r)
           N == Len(way)
           K == {k \in 0 .. N :
                   \A j \in 0 .. k : rect[j] \in AnyRect /\ Within(rect[k], rect[j])}
<1>1. N \in Nat /\ rect[0] = r /\ \A k \in 1 .. N : rect[k] = Part(way[k], rect[k - 1])
  BY RectsOnWay
<1> HIDE DEF rect
<1>2. 0 \in K
  <2>1. Within(r, r) /\ \A j \in 0 .. 0 : j = 0
    BY WithinSteps
  <2> HIDE DEF N
  <2> QED BY <1>1, <2>1
<1>3. ASSUME NEW k \in 0 .. N, k \in K, k < N PROVE k + 1 \in K
  <2>1. k + 1 \in 1 .. N /\ k + 1 \in 0 .. N /\ k + 1 - 1 = k
    BY <1>1, <1>3
  <2>2. rect[k + 1] = Part(way[k + 1], rect[k]) /\ way[k + 1] \in Splits /\ rect[k] \in AnyRect
    <3>1. k \in 0 .. k
      BY <1>1
    <3> QED BY <1>1, <1>3, <2>1, <3>1
  <2>3. rect[k + 1] \in AnyRect /\ Within(rect[k + 1], rect[k])
    BY <2>2, PartsOfSplit
  <2>4. ASSUME NEW j \in 0 .. k + 1 PROVE rect[j] \in AnyRect /\ Within(rect[k + 1], rect[j])
    <3>1. CASE j = k + 1
      BY <2>3, <3>1, WithinSteps
    <3>2. CASE j # k + 1
      <4>1. j \in 0 .. k /\ j \in 0 .. N
        BY <1>1, <3>2
      <4>2. rect[j] \in AnyRect /\ Within(rect[k], rect[j])
        BY <1>3, <4>1
      <4> QED BY <2>2, <2>3, <4>2, WithinSteps
    <3> QED BY <3>1, <3>2
  <2> QED BY <2>1, <2>3, <2>4
<1>4. \A k \in 0 .. N : k \in K
  <2> HIDE DEF K, N
  <2> QED BY <1>1, <1>2, <1>3, Counting
<1>5. \A k \in 0 .. N : k \in 0 .. k
  BY <1>1
<1> QED BY <1>4, <1>5 DEF rect

\* Two ways that start alike go through the same rectangles.
LEMMA SameWaySameRects ==
  ASSUME NEW v \in Seq(Splits), NEW w \in Seq(Splits), NEW r, NEW n \in Nat,
         n <= Len(v), n <= Len(w), \A j \in 1 .. n : v[j] = w[j]
  PROVE  \A k \in 0 .. n : RectsOn(v, r)[k] = RectsOn(w, r)[k]
<1> DEFINE a == RectsOn(v, r)
           b == RectsOn(w, r)
           K == {k \in 0 .. n : a[k] = b[k]}
<1>1. /\ Len(v) \in Nat /\ a[0] = r /\ \A k \in 1 .. Len(v) : a[k] = Part(v[k], a[k - 1])
      /\ Len(w) \in Nat /\ b[0] = r /\ \A k \in 1 .. Len(w) : b[k] = Part(w[k], b[k - 1])
  BY RectsOnWay
<1> HIDE DEF a, b
<1>2. 0 \in K
  BY <1>1
<1>3. ASSUME NEW k \in 0 .. n, k \in K, k < n PROVE k + 1 \in K
  <2>1. k + 1 \in 1 .. Len(v) /\ k + 1 \in 1 .. Len(w) /\ k + 1 \in 1 .. n /\ k + 1 - 1 = k
        /\ k + 1 \in 0 .. n
    BY <1>1, <1>3
  <2>2. a[k + 1] = Part(v[k + 1], a[k]) /\ b[k + 1] = Part(w[k + 1], b[k])
    BY <1>1, <2>1
  <2> QED BY <1>3, <2>1, <2>2
<1>4. \A k \in 0 .. n : k \in K
  <2> HIDE DEF K
  <2> QED BY <1>2, <1>3, Counting
<1> QED BY <1>4 DEF a, b

\* Where two ways part, their rectangles are the two parts of the same one.
LEMMA PartingRects ==
  ASSUME NEW v \in Seq(Splits), NEW w \in Seq(Splits), NEW r \in AnyRect,
         NEW k \in 1 .. Len(v), Apart(v, w, k)
  PROVE  /\ k \in 1 .. Len(w) /\ v[k] \in Splits
         /\ RectsOn(v, r)[k - 1] \in AnyRect
         /\ RectsOn(w, r)[k - 1] = RectsOn(v, r)[k - 1]
         /\ RectsOn(v, r)[k] = Part(v[k], RectsOn(v, r)[k - 1])
         /\ RectsOn(w, r)[k] = Part(Other(v[k]), RectsOn(v, r)[k - 1])
         /\ Disjoint(RectsOn(v, r)[k], RectsOn(w, r)[k])
<1>1. /\ Len(v) \in Nat /\ Len(w) \in Nat /\ k \in Nat /\ k <= Len(v) /\ k <= Len(w)
      /\ \A j \in 1 .. k - 1 : v[j] = w[j]
      /\ w[k] = Other(v[k])
  BY DEF Apart
<1>2. k \in 1 .. Len(w) /\ v[k] \in Splits /\ k - 1 \in Nat /\ k - 1 \in 0 .. Len(v)
      /\ k - 1 \in 0 .. k - 1 /\ k - 1 <= Len(v) /\ k - 1 <= Len(w)
  BY <1>1
<1>3. RectsOn(v, r)[k - 1] \in AnyRect
  BY <1>2, RectsShrink
<1>4. RectsOn(w, r)[k - 1] = RectsOn(v, r)[k - 1]
  BY <1>1, <1>2, SameWaySameRects
<1>5. /\ RectsOn(v, r)[k] = Part(v[k], RectsOn(v, r)[k - 1])
      /\ RectsOn(w, r)[k] = Part(w[k], RectsOn(w, r)[k - 1])
  BY <1>1, <1>2, RectsOnWay
<1>6. Disjoint(Part(v[k], RectsOn(v, r)[k - 1]), Part(Other(v[k]), RectsOn(v, r)[k - 1]))
  BY <1>2, <1>3, PartsOfSplit
<1> QED BY <1>1, <1>2, <1>3, <1>4, <1>5, <1>6

\* The ways of a finite tree are bounded.
LEMMA DepthOfTree ==
  ASSUME NEW t, TreeOK(t), IsFiniteSet(DOMAIN t)
  PROVE  \E N \in Nat : \A p \in DOMAIN t : Len(t[p]) <= N
<1>1. \A p \in DOMAIN t : Len(t[p]) \in Nat
  BY DEF TreeOK
<1>2. PICK n \in Nat : ExistsSurjection(1 .. n, DOMAIN t)
  BY FS_NatSurjection
<1>3. PICK f \in [1 .. n -> DOMAIN t] : \A p \in DOMAIN t : \E i \in 1 .. n : f[i] = p
  BY <1>2 DEF ExistsSurjection, Surjection
<1> DEFINE K == {k \in 0 .. n : \E N \in Nat : \A i \in 1 .. k : Len(t[f[i]]) <= N}
<1>4. 0 \in K
  OBVIOUS
<1>5. ASSUME NEW k \in 0 .. n, k \in K, k < n PROVE k + 1 \in K
  <2>1. PICK N \in Nat : \A i \in 1 .. k : Len(t[f[i]]) <= N
    BY <1>5
  <2> DEFINE M == N + Len(t[f[k + 1]])
  <2>2. k + 1 \in 1 .. n /\ k + 1 \in 0 .. n /\ Len(t[f[k + 1]]) \in Nat
    BY <1>1, <1>3, <1>5
  <2>3. M \in Nat /\ N <= M /\ Len(t[f[k + 1]]) <= M
    BY <2>2
  <2> HIDE DEF M
  <2>4. ASSUME NEW i \in 1 .. k + 1 PROVE Len(t[f[i]]) <= M
    <3>1. CASE i = k + 1
      BY <2>3, <3>1
    <3>2. CASE i # k + 1
      <4>1. i \in 1 .. k /\ i \in 1 .. n
        BY <1>5, <3>2
      <4>2. Len(t[f[i]]) \in Nat /\ Len(t[f[i]]) <= N
        BY <1>1, <1>3, <2>1, <4>1
      <4> QED BY <2>3, <4>2
    <3> QED BY <3>1, <3>2
  <2> QED BY <2>2, <2>3, <2>4
<1>6. n \in K
  <2> HIDE DEF K
  <2>1. n \in 0 .. n
    OBVIOUS
  <2> QED BY <1>4, <1>5, <2>1, Counting
<1>7. PICK N \in Nat : \A i \in 1 .. n : Len(t[f[i]]) <= N
  BY <1>6
<1>8. \A p \in DOMAIN t : Len(t[p]) <= N
  BY <1>3, <1>7
<1> QED BY <1>8

\* The tiles of a split tree and the separators between them are a partition of its
\* rectangle (window/bsp.rs, compute).
LEMMA TreePartitions ==
  ASSUME NEW t, TreeOK(t), IsFiniteSet(DOMAIN t), DOMAIN t # {}, NEW r \in AnyRect
  PROVE  LET tiles == compute(t, r)
         IN  /\ \A p \in DOMAIN t : tiles[p] \in AnyRect /\ Within(tiles[p], r)
             /\ \A p, q \in DOMAIN t : p # q => Disjoint(tiles[p], tiles[q])
             /\ \A cell \in Nat \X Nat : Holds(r, cell) =>
                  ((\E p \in DOMAIN t : Holds(tiles[p], cell))
                     <=> ~ \E m \in Separators(t, r) : Holds(m, cell))
<1> DEFINE tiles == compute(t, r)
           rect(p, k) == RectsOn(t[p], r)[k]
           n(p) == Len(t[p])
<1>1. \A p \in DOMAIN t : t[p] \in Seq(Splits) /\ n(p) \in Nat
  BY DEF TreeOK
<1>2. \A p \in DOMAIN t : tiles[p] = rect(p, n(p))
  BY DEF compute
<1>3. ASSUME NEW p \in DOMAIN t, NEW k \in 0 .. n(p)
      PROVE  /\ rect(p, k) \in AnyRect /\ Within(rect(p, k), r)
             /\ \A j \in 0 .. k : rect(p, j) \in AnyRect /\ Within(rect(p, k), rect(p, j))
  <2>1. 0 \in 0 .. k /\ \A j \in 0 .. k : j \in 0 .. n(p)
    BY <1>1
  <2>2. RectsOn(t[p], r)[0] = r
    BY <1>1, RectsOnWay
  <2> QED BY <1>1, <2>1, <2>2, RectsShrink
\* Two panes part.
<1>4. ASSUME NEW p \in DOMAIN t, NEW q \in DOMAIN t, NEW k \in 1 .. n(p),
             Apart(t[p], t[q], k)
      PROVE  /\ k \in 1 .. n(q) /\ t[p][k] \in Splits /\ rect(p, k - 1) \in AnyRect
             /\ rect(q, k - 1) = rect(p, k - 1)
             /\ rect(p, k) = Part(t[p][k], rect(p, k - 1))
             /\ rect(q, k) = Part(Other(t[p][k]), rect(p, k - 1))
             /\ Disjoint(rect(p, k), rect(q, k))
  BY <1>1, <1>4, PartingRects
<1>5. Separators(t, r) =
        UNION {{SeparatorRect(t[p][k], rect(p, k - 1)) : k \in 1 .. n(p)} : p \in DOMAIN t}
  BY DEF Separators
<1> HIDE DEF tiles, rect, n
<1>6. \A p \in DOMAIN t : tiles[p] \in AnyRect /\ Within(tiles[p], r)
  <2>1. \A p \in DOMAIN t : n(p) \in 0 .. n(p)
    BY <1>1
  <2> QED BY <1>2, <1>3, <2>1
<1>7. ASSUME NEW p \in DOMAIN t, NEW q \in DOMAIN t, p # q
      PROVE  Disjoint(tiles[p], tiles[q])
  <2>1. PICK k \in 1 .. n(p) : Apart(t[p], t[q], k)
    BY <1>7 DEF TreeOK, n
  <2>2. k \in 1 .. n(q) /\ Disjoint(rect(p, k), rect(q, k))
    BY <1>4, <2>1
  <2>3. k \in 0 .. n(p) /\ n(p) \in 0 .. n(p) /\ k \in 0 .. n(q) /\ n(q) \in 0 .. n(q)
    BY <1>1, <2>2
  <2>4. /\ rect(p, k) \in AnyRect /\ rect(q, k) \in AnyRect
        /\ tiles[p] \in AnyRect /\ Within(tiles[p], rect(p, k))
        /\ tiles[q] \in AnyRect /\ Within(tiles[q], rect(q, k))
    BY <1>2, <1>3, <2>3
  <2>5. Disjoint(rect(q, k), tiles[p])
    <3>1. Disjoint(tiles[p], rect(q, k))
      BY <2>2, <2>4, WithinSteps
    <3> QED BY <2>4, <3>1, WithinSteps
  <2>6. Disjoint(tiles[q], tiles[p])
    BY <2>4, <2>5, WithinSteps
  <2> QED BY <2>4, <2>6, WithinSteps
\* A cell on a separator is in no tile.
<1>8. ASSUME NEW cell \in Nat \X Nat, NEW p \in DOMAIN t, Holds(tiles[p], cell),
             NEW q \in DOMAIN t, NEW k \in 1 .. n(q),
             Holds(SeparatorRect(t[q][k], rect(q, k - 1)), cell)
      PROVE  FALSE
  <2> DEFINE m == SeparatorRect(t[q][k], rect(q, k - 1))
  <2>1. k \in 0 .. n(q) /\ k - 1 \in 0 .. n(q) /\ k \in Nat /\ n(p) \in 0 .. n(p)
        /\ t[q][k] \in Splits
    BY <1>1 DEF n
  <2>2. rect(q, k - 1) \in AnyRect
    BY <1>3, <2>1
  <2>3. m \in AnyRect /\ Within(m, rect(q, k - 1)) /\ Holds(m, cell)
    BY <1>8, <2>1, <2>2, PartsOfSplit
  \* The way of p goes through the same split.
  <2>4. ASSUME k <= n(p), t[p][k] \in {t[q][k], Other(t[q][k])},
               rect(p, k - 1) = rect(q, k - 1)
        PROVE  FALSE
    <3>1. k \in 1 .. n(p) /\ k \in 0 .. n(p)
      BY <1>1, <2>1, <2>4
    <3>2. rect(p, k) = Part(t[p][k], rect(q, k - 1))
      BY <1>1, <2>4, <3>1, RectsOnWay DEF rect, n
    <3>3. Disjoint(rect(p, k), m) /\ rect(p, k) \in AnyRect
      BY <2>1, <2>2, <2>4, <3>2, PartsOfSplit
    <3>4. Within(tiles[p], rect(p, k)) /\ tiles[p] \in AnyRect
      BY <1>2, <1>3, <2>1, <3>1
    <3>5. Holds(rect(p, k), cell)
      BY <1>8, <3>3, <3>4, WithinSteps
    <3> QED BY <2>3, <3>3, <3>5, WithinSteps
  <2> HIDE DEF m
  <2>5. CASE p = q
    BY <1>1, <2>1, <2>4, <2>5
  <2>6. CASE p # q
    <3>1. PICK j \in 1 .. n(q) : Apart(t[q], t[p], j)
      BY <2>6 DEF TreeOK, n
    <3>2. /\ j \in 1 .. n(p) /\ t[q][j] \in Splits /\ rect(p, j - 1) = rect(q, j - 1)
          /\ Disjoint(rect(q, j), rect(p, j))
      BY <1>4, <3>1
    <3>3. /\ t[p][j] = Other(t[q][j]) /\ j \in Nat /\ j # 0
          /\ \A i \in 1 .. j - 1 : t[q][i] = t[p][i]
      BY <3>1 DEF Apart
    <3>4. CASE j = k
      BY <1>1, <2>4, <3>2, <3>3, <3>4
    <3>5. CASE k < j
      <4>1. k \in 1 .. j - 1 /\ k <= n(p) /\ k - 1 \in 0 .. k - 1 /\ k - 1 \in Nat
            /\ k - 1 <= n(p) /\ k - 1 <= n(q)
        BY <1>1, <2>1, <3>2, <3>3, <3>5
      <4>2. t[p][k] = t[q][k] /\ \A i \in 1 .. k - 1 : t[p][i] = t[q][i]
        <5>1. \A i \in 1 .. k - 1 : i \in 1 .. j - 1
          BY <2>1, <3>3, <3>5
        <5> QED BY <3>3, <4>1, <5>1
      <4>3. rect(p, k - 1) = rect(q, k - 1)
        <5> DEFINE v == t[p]
                   w == t[q]
        <5>1. /\ v \in Seq(Splits) /\ w \in Seq(Splits) /\ k - 1 <= Len(v) /\ k - 1 <= Len(w)
              /\ \A i \in 1 .. k - 1 : v[i] = w[i]
          BY <1>1, <4>1, <4>2 DEF n
        <5> HIDE DEF v, w
        <5>2. RectsOn(v, r)[k - 1] = RectsOn(w, r)[k - 1]
          BY <4>1, <5>1, SameWaySameRects
        <5> QED BY <5>2 DEF v, w, rect
      <4> QED BY <2>4, <4>1, <4>2, <4>3
    <3>6. CASE j < k
      <4>1. j \in 0 .. k - 1 /\ j \in 0 .. n(q) /\ j \in 0 .. n(p)
        BY <1>1, <2>1, <3>2, <3>3, <3>6
      <4>2. /\ rect(q, j) \in AnyRect /\ Within(rect(q, k - 1), rect(q, j))
            /\ rect(p, j) \in AnyRect /\ Within(tiles[p], rect(p, j)) /\ tiles[p] \in AnyRect
        BY <1>2, <1>3, <2>1, <4>1
      <4>3. Holds(rect(q, k - 1), cell)
        BY <2>2, <2>3, WithinSteps
      <4>4. Holds(rect(q, j), cell)
        BY <2>2, <4>2, <4>3, WithinSteps
      <4>5. Holds(rect(p, j), cell)
        BY <1>8, <4>2, WithinSteps
      <4> QED BY <3>2, <4>2, <4>4, <4>5, WithinSteps
    <3> QED BY <2>1, <3>3, <3>4, <3>5, <3>6
  <2> QED BY <2>5, <2>6
\* A cell on no separator is in a tile: down the tree, by the part it is in.
<1>9. ASSUME NEW cell \in Nat \X Nat, Holds(r, cell),
             ~ \E m \in Separators(t, r) : Holds(m, cell)
      PROVE  \E p \in DOMAIN t : Holds(tiles[p], cell)
  <2>1. PICK N \in Nat : \A p \in DOMAIN t : n(p) <= N
    BY DepthOfTree DEF n
  <2> DEFINE down(p, k) == IF k <= n(p) THEN k ELSE n(p)
             K == {k \in 0 .. N : \E p \in DOMAIN t : Holds(rect(p, down(p, k)), cell)}
  <2>2. 0 \in K
    <3>1. PICK p \in DOMAIN t : TRUE
      OBVIOUS
    <3>2. rect(p, 0) = r /\ down(p, 0) = 0
      BY <1>1, RectsOnWay DEF rect, n
    <3>3. 0 \in 0 .. N
      BY <2>1
    <3> QED BY <1>9, <3>2, <3>3
  <2>3. ASSUME NEW k \in 0 .. N, k \in K, k < N PROVE k + 1 \in K
    <3>1. PICK p \in DOMAIN t : Holds(rect(p, down(p, k)), cell)
      BY <2>3
    <3>2. k + 1 \in 0 .. N /\ k \in Nat /\ n(p) \in Nat
      BY <1>1, <2>1, <2>3
    <3>3. CASE n(p) <= k
      <4>1. down(p, k) = n(p) /\ down(p, k + 1) = n(p)
        BY <3>2, <3>3
      <4> HIDE DEF down
      <4> QED BY <3>1, <3>2, <4>1
    <3>4. CASE k < n(p)
      <4> DEFINE s == t[p][k + 1]
      <4>1. /\ k + 1 \in 1 .. n(p) /\ k \in 0 .. n(p) /\ down(p, k) = k /\ down(p, k + 1) = k + 1
            /\ k + 1 - 1 = k
        BY <3>2, <3>4
      <4>2. /\ s \in Splits /\ rect(p, k) \in AnyRect /\ Holds(rect(p, k), cell)
            /\ rect(p, k + 1) = Part(s, rect(p, k))
        <5>1. s \in Splits
          BY <1>1, <4>1 DEF n
        <5>2. rect(p, k) \in AnyRect
          BY <1>3, <4>1
        <5>3. rect(p, k + 1) = Part(s, rect(p, k))
          BY <1>1, <4>1, RectsOnWay DEF rect, n
        <5> QED BY <3>1, <4>1, <5>1, <5>2, <5>3
      <4>3. ~ Holds(SeparatorRect(s, rect(p, k)), cell)
        <5>1. SeparatorRect(s, rect(p, k)) \in Separators(t, r)
          BY <1>5, <4>1
        <5> QED BY <1>9, <5>1
      <4> HIDE DEF s, down
      <4>4. Holds(Part(s, rect(p, k)), cell) \/ Holds(Part(Other(s), rect(p, k)), cell)
        BY <4>2, <4>3, PartsOfSplit
      <4>5. CASE Holds(Part(s, rect(p, k)), cell)
        BY <3>2, <4>1, <4>2, <4>5
      <4>6. CASE Holds(Part(Other(s), rect(p, k)), cell)
        <5>1. PICK q \in DOMAIN t : Apart(t[p], t[q], k + 1)
          BY <4>1 DEF TreeOK, n
        <5>2. k + 1 \in 1 .. n(q) /\ rect(q, k + 1) = Part(Other(s), rect(p, k))
          BY <1>4, <4>1, <5>1 DEF s
        <5>3. down(q, k + 1) = k + 1
          BY <1>1, <5>2 DEF down
        <5> QED BY <3>2, <4>6, <5>2, <5>3
      <4> QED BY <4>4, <4>5, <4>6
    <3> QED BY <3>2, <3>3, <3>4
  <2>4. N \in K
    <3> HIDE DEF K
    <3>1. N \in 0 .. N
      BY <2>1
    <3> QED BY <2>1, <2>2, <2>3, <3>1, Counting
  <2>5. PICK p \in DOMAIN t : Holds(rect(p, down(p, N)), cell)
    BY <2>4
  <2>6. down(p, N) = n(p)
    BY <1>1, <2>1
  <2> HIDE DEF down
  <2> QED BY <1>2, <2>5, <2>6
<1>10. \A cell \in Nat \X Nat : Holds(r, cell) =>
         ((\E p \in DOMAIN t : Holds(tiles[p], cell))
            <=> ~ \E m \in Separators(t, r) : Holds(m, cell))
  BY <1>5, <1>8, <1>9
<1> QED BY <1>6, <1>7, <1>10 DEF tiles

-----------------------------------------------------------------------------
(***************************************************************************)
(* The tiling layout.                                                      *)
(***************************************************************************)

LEMMA Products ==
  ASSUME NEW a \in Nat, NEW b \in Nat, NEW q \in Nat
  PROVE  /\ a * q \in Nat /\ q * a = a * q /\ (a + 1) * q = a * q + q
         /\ 0 * q = 0 /\ 1 * q = q
         /\ a <= b => a * q <= b * q
OBVIOUS

LEMMA Division ==
  ASSUME NEW a \in Nat, NEW n \in Nat \ {0}
  PROVE  a \div n \in Nat /\ a % n \in 0 .. n - 1 /\ a = n * (a \div n) + (a % n)
<1>1. a \div n \in Int
  OBVIOUS
<1>2. a % n \in 0 .. n - 1
  OBVIOUS
<1>3. a = n * (a \div n) + (a % n)
  OBVIOUS
<1>4. a \div n >= 0
  OBVIOUS
<1> QED BY <1>1, <1>2, <1>3, <1>4

\* The shares of a length that has one for everybody.
LEMMA Shares ==
  ASSUME NEW n \in Nat \ {0}, NEW total \in Nat, total >= n
  PROVE  /\ \A i \in 0 .. n : ShareStart(i, total, n) \in Nat
         /\ ShareStart(0, total, n) = 0 /\ ShareStart(n, total, n) = total
         /\ \A i \in 0 .. n - 1 :
              /\ ShareStart(i, total, n) < ShareStart(i + 1, total, n)
              /\ ShareLength(i, total, n) = ShareStart(i + 1, total, n) - ShareStart(i, total, n)
<1>1. ASSUME NEW i \in 0 .. n
      PROVE  ShareStart(i, total, n) \in Nat /\ i * total \in Nat
  <2>1. i * total \in Nat
    BY Products
  <2> QED BY <2>1, Division DEF ShareStart
<1>2. ShareStart(0, total, n) = 0
  <2>1. 0 * total = 0
    OBVIOUS
  <2>2. 0 \div n = 0
    OBVIOUS
  <2> QED BY <2>1, <2>2 DEF ShareStart
<1>3. ShareStart(n, total, n) = total
  <2> DEFINE q == (n * total) \div n
             r == (n * total) % n
  <2>1. n * total \in Nat
    BY Products
  <2>2. q \in Nat /\ r \in 0 .. n - 1 /\ n * total = n * q + r
    BY <2>1, Division
  <2>3. ShareStart(n, total, n) = q
    BY DEF ShareStart
  <2> HIDE DEF q, r
  <2>4. CASE q < total
    <3>1. (q + 1) * n <= total * n /\ (q + 1) * n = q * n + n /\ q * n = n * q
          /\ total * n = n * total
      BY <2>2, <2>4
    <3> QED BY <2>1, <2>2, <3>1
  <2>5. CASE q > total
    <3>1. (total + 1) * n <= q * n /\ (total + 1) * n = total * n + n /\ q * n = n * q
          /\ total * n = n * total
      BY <2>2, <2>5
    <3> QED BY <2>1, <2>2, <3>1
  <2> QED BY <2>2, <2>3, <2>4, <2>5
<1>4. ASSUME NEW i \in 0 .. n - 1
      PROVE  ShareStart(i, total, n) < ShareStart(i + 1, total, n)
  <2> DEFINE a == i * total
             b == (i + 1) * total
             q == a \div n
             p == b \div n
  <2>1. a \in Nat /\ b \in Nat /\ b = a + total
    BY Products
  <2>2. ShareStart(i, total, n) = q /\ ShareStart(i + 1, total, n) = p
    BY DEF ShareStart
  <2> HIDE DEF a, b
  <2>3. /\ q \in Nat /\ a % n \in 0 .. n - 1 /\ a = n * q + (a % n)
        /\ p \in Nat /\ b % n \in 0 .. n - 1 /\ b = n * p + (b % n)
    BY <2>1, Division
  <2> HIDE DEF q, p
  <2>4. ~ (p <= q)
    <3> SUFFICES ASSUME p <= q PROVE FALSE
      OBVIOUS
    <3>1. n * p <= n * q /\ n * p \in Nat /\ n * q \in Nat
      <4>1. p * n <= q * n /\ p * n = n * p /\ q * n = n * q /\ p * n \in Nat /\ q * n \in Nat
        BY <2>3, Products
      <4> QED BY <4>1
    <3> QED BY <2>1, <2>3, <3>1
  <2> QED BY <2>2, <2>3, <2>4
<1>5. ASSUME NEW i \in 0 .. n - 1
      PROVE  ShareLength(i, total, n) = ShareStart(i + 1, total, n) - ShareStart(i, total, n)
  <2>1. i \in 0 .. n /\ i + 1 \in 0 .. n
    OBVIOUS
  <2>2. /\ ShareStart(i, total, n) \in Nat /\ ShareStart(i + 1, total, n) \in Nat
        /\ ShareStart(i, total, n) < ShareStart(i + 1, total, n)
    BY <1>1, <1>4, <2>1
  <2> QED BY <2>2 DEF ShareLength, AtLeast
<1> QED BY <1>1, <1>2, <1>3, <1>4, <1>5

\* Two steps of a staircase do not overlap.
LEMMA SeparateSteps ==
  ASSUME NEW n \in Nat, NEW s, \A i \in 0 .. n : s[i] \in Nat, s[0] = 0,
         \A i \in 0 .. n - 1 : s[i] <= s[i + 1]
  PROVE  \A i, j \in 0 .. n - 1 : i # j => s[i + 1] <= s[j] \/ s[j + 1] <= s[i]
<1>1. \A i, j \in 0 .. n : i <= j => s[i] <= s[j]
  BY Staircase
<1> SUFFICES ASSUME NEW i \in 0 .. n - 1, NEW j \in 0 .. n - 1, i # j
             PROVE  s[i + 1] <= s[j] \/ s[j + 1] <= s[i]
  OBVIOUS
<1>2. /\ i \in 0 .. n /\ j \in 0 .. n /\ i + 1 \in 0 .. n /\ j + 1 \in 0 .. n
      /\ (i + 1 <= j \/ j + 1 <= i)
  OBVIOUS
<1> QED BY <1>1, <1>2

\* The grid of the tiling has a column at least and at most one for each pane.
LEMMA ColumnsOfTiling ==
  ASSUME NEW n \in Nat \ {0}
  PROVE  TilingColumns(n) \in 1 .. n
<1> DEFINE T == {k \in Nat : k * k >= n}
<1>1. n \in T /\ T \in SUBSET Nat
  <2>1. 1 * n <= n * n /\ 1 * n = n
    BY Products
  <2> QED BY <2>1
<1> HIDE DEF T
<1>2. Min(T) \in T /\ \A y \in T : Min(T) <= y
  BY <1>1, MinProperty
<1>3. PICK m \in Nat : m \in T /\ \A y \in T : m <= y
  BY <1>1, <1>2
<1>4. m * m >= n /\ m <= n
  BY <1>1, <1>3 DEF T
<1>5. m # 0
  BY <1>4
<1>6. (m - 1) * (m - 1) < n
  <2>1. m - 1 \in Nat /\ ~ (m <= m - 1)
    BY <1>5
  <2>2. m - 1 \notin T
    BY <1>3, <2>1
  <2>3. (m - 1) * (m - 1) \in Nat
    BY <2>1, Products
  <2> QED BY <2>1, <2>2, <2>3 DEF T
<1>7. m \in 1 .. n
  BY <1>4, <1>5
<1> QED BY <1>4, <1>6, <1>7 DEF TilingColumns

\* The panes in the columns before column c.
PanesBefore(n, c) == c * (n \div TilingColumns(n)) + AtMost(c, n % TilingColumns(n))

\* The columns share the panes out, and none stays empty.
LEMMA PanesOfColumns ==
  ASSUME NEW n \in Nat \ {0}
  PROVE  LET k == TilingColumns(n)
         IN  /\ \A c \in 0 .. k : PanesBefore(n, c) \in Nat
             /\ PanesBefore(n, 0) = 0 /\ PanesBefore(n, k) = n
             /\ \A c \in 0 .. k - 1 :
                  /\ PanesInColumn(n, c) \in 1 .. n
                  /\ PanesBefore(n, c + 1) = PanesBefore(n, c) + PanesInColumn(n, c)
<1> DEFINE k == TilingColumns(n)
           q == n \div k
           e == n % k
<1>1. k \in 1 .. n
  BY ColumnsOfTiling
<1>2. /\ \A c : PanesBefore(n, c) = c * q + AtMost(c, e)
      /\ \A c : PanesInColumn(n, c) = q + (IF c < e THEN 1 ELSE 0)
  BY DEF PanesBefore, PanesInColumn
<1> HIDE DEF k
<1>3. k \in Nat \ {0}
  BY <1>1
<1>4. q \in Nat /\ e \in 0 .. k - 1 /\ n = k * q + e
  BY <1>3, Division
<1> HIDE DEF q, e
<1>5. q # 0
  BY <1>1, <1>4
<1>6. ASSUME NEW c \in 0 .. k
      PROVE  PanesBefore(n, c) \in Nat /\ c * q \in Nat
  BY <1>2, <1>3, <1>4, Products DEF AtMost
<1>7. PanesBefore(n, 0) = 0 /\ PanesBefore(n, k) = n
  <2>1. 0 * q = 0 /\ k * q \in Nat
    BY <1>3, <1>4, Products
  <2> QED BY <1>2, <1>3, <1>4, <2>1 DEF AtMost
<1>8. ASSUME NEW c \in 0 .. k - 1
      PROVE  /\ PanesInColumn(n, c) \in Nat /\ PanesInColumn(n, c) >= 1
             /\ PanesBefore(n, c + 1) = PanesBefore(n, c) + PanesInColumn(n, c)
  <2>1. (c + 1) * q = c * q + q /\ c * q \in Nat
    BY <1>4, Products
  <2>2. PanesBefore(n, c) = c * q + AtMost(c, e)
        /\ PanesBefore(n, c + 1) = c * q + q + AtMost(c + 1, e)
    BY <1>2, <2>1
  <2>3. AtMost(c, e) \in Nat /\ AtMost(c + 1, e) = AtMost(c, e) + (IF c < e THEN 1 ELSE 0)
    BY <1>4 DEF AtMost
  <2> HIDE DEF k
  <2> QED BY <1>2, <1>4, <1>5, <2>1, <2>2, <2>3
<1>9. ASSUME NEW c \in 0 .. k - 1 PROVE PanesInColumn(n, c) \in 1 .. n
  <2> DEFINE s == [d \in 0 .. k |-> PanesBefore(n, d)]
  <2>1. /\ \A d \in 0 .. k : s[d] \in Nat
        /\ s[0] = 0 /\ s[k] = n
    BY <1>3, <1>6, <1>7
  <2>2. \A d \in 0 .. k - 1 : s[d] <= s[d + 1]
    <3> TAKE d \in 0 .. k - 1
    <3>1. d \in 0 .. k /\ d + 1 \in 0 .. k
      BY <1>3
    <3> QED BY <1>6, <1>8, <3>1
  <2>3. c \in 0 .. k /\ c + 1 \in 0 .. k /\ k \in 0 .. k /\ c + 1 <= k
    BY <1>3
  <2>4. s[c + 1] = PanesBefore(n, c + 1)
    BY <2>3
  <2> HIDE DEF s
  <2>5. s[c + 1] <= s[k]
    BY <1>3, <2>1, <2>2, <2>3, Staircase
  <2> QED BY <1>6, <1>8, <2>1, <2>3, <2>4, <2>5
<1> QED BY <1>6, <1>7, <1>8, <1>9 DEF k

\* The panes one by one down the columns: each has a place in the grid of its own, and
\* every place in the grid has a pane.
LEMMA PlacesOfPanes ==
  ASSUME NEW n \in Nat \ {0}
  PROVE  LET k == TilingColumns(n)
         IN  /\ \A i \in 0 .. n - 1 :
                  /\ ColumnOf(n, i) \in 0 .. k - 1
                  /\ RowOf(n, i) \in 0 .. PanesInColumn(n, ColumnOf(n, i)) - 1
                  /\ i = PanesBefore(n, ColumnOf(n, i)) + RowOf(n, i)
             /\ \A c \in 0 .. k - 1 : \A r \in 0 .. PanesInColumn(n, c) - 1 :
                  \E i \in 0 .. n - 1 : ColumnOf(n, i) = c /\ RowOf(n, i) = r
<1> DEFINE k == TilingColumns(n)
           s == [d \in 0 .. k |-> PanesBefore(n, d)]
<1>1. k \in 1 .. n /\ k \in Nat
  BY ColumnsOfTiling
<1>2. /\ \A c \in 0 .. k : PanesBefore(n, c) \in Nat
      /\ PanesBefore(n, 0) = 0 /\ PanesBefore(n, k) = n
      /\ \A c \in 0 .. k - 1 :
           /\ PanesInColumn(n, c) \in 1 .. n
           /\ PanesBefore(n, c + 1) = PanesBefore(n, c) + PanesInColumn(n, c)
  BY PanesOfColumns
<1>3. \A i : ColumnOf(n, i) = CHOOSE c \in 0 .. k - 1 :
          PanesBefore(n, c) <= i /\ i < PanesBefore(n, c) + PanesInColumn(n, c)
  BY DEF ColumnOf, PanesBefore
<1>4. \A i : RowOf(n, i) = i - PanesBefore(n, ColumnOf(n, i))
  BY DEF RowOf, PanesBefore
<1> HIDE DEF k
<1>5. /\ \A c \in 0 .. k : s[c] = PanesBefore(n, c) /\ s[c] \in Nat
      /\ s[0] = 0 /\ s[k] = n
  BY <1>1, <1>2
<1> HIDE DEF s
<1>6. \A c \in 0 .. k - 1 : /\ c \in 0 .. k /\ c + 1 \in 0 .. k /\ s[c] = PanesBefore(n, c)
                            /\ s[c + 1] = PanesBefore(n, c) + PanesInColumn(n, c)
                            /\ s[c] <= s[c + 1]
  <2> TAKE c \in 0 .. k - 1
  <2>1. c \in 0 .. k /\ c + 1 \in 0 .. k
    BY <1>1
  <2>2. PanesInColumn(n, c) \in 1 .. n /\ s[c] \in Nat
    BY <1>2, <1>5, <2>1
  <2> QED BY <1>2, <1>5, <2>1, <2>2
<1>7. \A x \in 0 .. n - 1 : \E i \in 0 .. k - 1 : s[i] <= x /\ x < s[i + 1]
  BY <1>1, <1>5, <1>6, Staircase
<1>8. \A i, j \in 0 .. k - 1 : i # j => s[i + 1] <= s[j] \/ s[j + 1] <= s[i]
  BY <1>1, <1>5, <1>6, SeparateSteps
<1>9. ASSUME NEW i \in 0 .. n - 1
      PROVE  /\ ColumnOf(n, i) \in 0 .. k - 1
             /\ RowOf(n, i) \in 0 .. PanesInColumn(n, ColumnOf(n, i)) - 1
             /\ i = PanesBefore(n, ColumnOf(n, i)) + RowOf(n, i)
  <2>1. \E c \in 0 .. k - 1 :
          PanesBefore(n, c) <= i /\ i < PanesBefore(n, c) + PanesInColumn(n, c)
    BY <1>6, <1>7
  <2>2. /\ ColumnOf(n, i) \in 0 .. k - 1
        /\ PanesBefore(n, ColumnOf(n, i)) <= i
        /\ i < PanesBefore(n, ColumnOf(n, i)) + PanesInColumn(n, ColumnOf(n, i))
    BY <1>3, <2>1
  <2>3. /\ PanesBefore(n, ColumnOf(n, i)) \in Nat /\ PanesInColumn(n, ColumnOf(n, i)) \in Nat
    BY <1>2, <1>6, <2>2
  <2> QED BY <1>4, <2>2, <2>3
<1>10. ASSUME NEW c \in 0 .. k - 1, NEW r \in 0 .. PanesInColumn(n, c) - 1
       PROVE  \E i \in 0 .. n - 1 : ColumnOf(n, i) = c /\ RowOf(n, i) = r
  <2> DEFINE i == PanesBefore(n, c) + r
             d == ColumnOf(n, i)
  <2>1. PanesBefore(n, c) \in Nat /\ PanesInColumn(n, c) \in 1 .. n /\ r \in Nat /\ i \in Nat
    BY <1>2, <1>6
  <2>2. i >= s[c] /\ i < s[c + 1] /\ s[c] \in Nat /\ s[c + 1] \in Nat
    BY <1>5, <1>6, <2>1
  <2>3. s[c + 1] <= s[k]
    <3>1. c + 1 \in 0 .. k /\ k \in 0 .. k /\ c + 1 <= k
      BY <1>1
    <3> QED BY <1>1, <1>5, <1>6, <3>1, Staircase
  <2>4. i \in 0 .. n - 1
    BY <1>5, <2>1, <2>2, <2>3
  <2> HIDE DEF i
  <2>5. /\ d \in 0 .. k - 1 /\ RowOf(n, i) \in 0 .. PanesInColumn(n, d) - 1
        /\ i = PanesBefore(n, d) + RowOf(n, i)
    BY <1>9, <2>4
  <2> HIDE DEF d
  <2>6. s[d] <= i /\ i < s[d + 1] /\ s[d] \in Nat /\ s[d + 1] \in Nat
    <3>1. PanesInColumn(n, d) \in 1 .. n /\ s[d] \in Nat /\ s[d + 1] \in Nat
      BY <1>2, <1>5, <1>6, <2>5
    <3> QED BY <1>6, <2>5, <3>1
  <2>7. d = c
    BY <1>8, <2>1, <2>2, <2>5, <2>6
  <2>8. RowOf(n, i) = r
    BY <2>1, <2>5, <2>7 DEF i
  <2> QED BY <2>4, <2>7, <2>8 DEF d
<1> QED BY <1>9, <1>10 DEF k

\* The tile at a place in the grid, by the shares at which it starts and ends.
TileAt(n, c, r, sz) ==
  Rect(ShareStart(c, sz.cols, TilingColumns(n)), ShareStart(r, sz.rows, PanesInColumn(n, c)),
       ShareLength(c, sz.cols, TilingColumns(n)), ShareLength(r, sz.rows, PanesInColumn(n, c)))

LEMMA TileAtPlace ==
  ASSUME NEW n \in Nat \ {0}, NEW sz \in AnySize, sz.cols >= TilingColumns(n), sz.rows >= n,
         NEW c \in 0 .. TilingColumns(n) - 1, NEW r \in 0 .. PanesInColumn(n, c) - 1
  PROVE  LET tile == TileAt(n, c, r, sz)
             k == TilingColumns(n)
             m == PanesInColumn(n, c)
         IN  /\ tile \in AnyRect /\ Within(tile, Full(sz))
             /\ tile.col = ShareStart(c, sz.cols, k)
             /\ tile.col + tile.cols = ShareStart(c + 1, sz.cols, k)
             /\ tile.row = ShareStart(r, sz.rows, m)
             /\ tile.row + tile.rows = ShareStart(r + 1, sz.rows, m)
<1> DEFINE tile == TileAt(n, c, r, sz)
           k == TilingColumns(n)
           m == PanesInColumn(n, c)
           C(x) == ShareStart(x, sz.cols, k)
           R(x) == ShareStart(x, sz.rows, m)
<1>1. k \in Nat \ {0} /\ m \in Nat \ {0} /\ m <= n /\ c \in 0 .. k - 1 /\ r \in 0 .. m - 1
  BY ColumnsOfTiling, PanesOfColumns
<1>2. sz.cols \in Nat /\ sz.rows \in Nat /\ sz.cols >= k /\ sz.rows >= m
  BY <1>1 DEF AnySize
<1>3. /\ tile.col = C(c) /\ tile.cols = ShareLength(c, sz.cols, k)
      /\ tile.row = R(r) /\ tile.rows = ShareLength(r, sz.rows, m)
      /\ tile = [col |-> tile.col, row |-> tile.row, cols |-> tile.cols, rows |-> tile.rows]
  BY DEF TileAt, Rect
<1> HIDE DEF tile, k, m
<1>4. /\ \A x \in 0 .. k : C(x) \in Nat
      /\ C(0) = 0 /\ C(k) = sz.cols
      /\ \A x \in 0 .. k - 1 : C(x) < C(x + 1) /\ ShareLength(x, sz.cols, k) = C(x + 1) - C(x)
  BY <1>1, <1>2, Shares
<1>5. /\ \A x \in 0 .. m : R(x) \in Nat
      /\ R(0) = 0 /\ R(m) = sz.rows
      /\ \A x \in 0 .. m - 1 : R(x) < R(x + 1) /\ ShareLength(x, sz.rows, m) = R(x + 1) - R(x)
  BY <1>1, <1>2, Shares
<1> HIDE DEF C, R
<1>6. C(c) \in Nat /\ C(c + 1) \in Nat /\ C(c) < C(c + 1) /\ C(c + 1) <= sz.cols
  <2> DEFINE s == [x \in 0 .. k |-> C(x)]
  <2>1. c \in 0 .. k /\ c + 1 \in 0 .. k /\ k \in 0 .. k /\ c + 1 <= k /\ 0 \in 0 .. k
    BY <1>1
  <2>2. \A x \in 0 .. k : s[x] = C(x)
    OBVIOUS
  <2> HIDE DEF s
  <2>3. /\ \A x \in 0 .. k : s[x] \in Nat
        /\ s[0] = 0 /\ s[k] = sz.cols /\ s[c + 1] = C(c + 1)
    BY <1>4, <2>1, <2>2
  <2>4. \A x \in 0 .. k - 1 : s[x] <= s[x + 1]
    <3> TAKE x \in 0 .. k - 1
    <3>1. x \in 0 .. k /\ x + 1 \in 0 .. k
      BY <1>1
    <3> QED BY <1>4, <2>2, <3>1
  <2>5. s[c + 1] <= s[k]
    BY <1>1, <2>1, <2>3, <2>4, Staircase
  <2> QED BY <1>1, <1>4, <2>1, <2>3, <2>5
<1>7. R(r) \in Nat /\ R(r + 1) \in Nat /\ R(r) < R(r + 1) /\ R(r + 1) <= sz.rows
  <2> DEFINE s == [x \in 0 .. m |-> R(x)]
  <2>1. r \in 0 .. m /\ r + 1 \in 0 .. m /\ m \in 0 .. m /\ r + 1 <= m /\ 0 \in 0 .. m
    BY <1>1
  <2>2. \A x \in 0 .. m : s[x] = R(x)
    OBVIOUS
  <2> HIDE DEF s
  <2>3. /\ \A x \in 0 .. m : s[x] \in Nat
        /\ s[0] = 0 /\ s[m] = sz.rows /\ s[r + 1] = R(r + 1)
    BY <1>5, <2>1, <2>2
  <2>4. \A x \in 0 .. m - 1 : s[x] <= s[x + 1]
    <3> TAKE x \in 0 .. m - 1
    <3>1. x \in 0 .. m /\ x + 1 \in 0 .. m
      BY <1>1
    <3> QED BY <1>5, <2>2, <3>1
  <2>5. s[r + 1] <= s[m]
    BY <1>1, <2>1, <2>3, <2>4, Staircase
  <2> QED BY <1>1, <1>5, <2>1, <2>3, <2>5
<1>8. /\ tile.cols = C(c + 1) - C(c) /\ tile.rows = R(r + 1) - R(r)
  BY <1>1, <1>3, <1>4, <1>5
<1>9. /\ tile.col \in Nat /\ tile.cols \in Nat /\ tile.col + tile.cols = C(c + 1)
      /\ tile.row \in Nat /\ tile.rows \in Nat /\ tile.row + tile.rows = R(r + 1)
  BY <1>3, <1>6, <1>7, <1>8
<1>10. tile \in AnyRect
  BY <1>3, <1>9 DEF AnyRect
<1>11. Within(tile, Full(sz))
  <2>1. Full(sz).col = 0 /\ Full(sz).row = 0 /\ Full(sz).cols = sz.cols /\ Full(sz).rows = sz.rows
    BY DEF Full, Rect
  <2> QED BY <1>2, <1>6, <1>7, <1>9, <2>1 DEF Within
<1> QED BY <1>3, <1>9, <1>10, <1>11 DEF tile, k, m, C, R

\* The tiles at the places of the grid are a partition of the window.
LEMMA GridPartitions ==
  ASSUME NEW n \in Nat \ {0}, NEW sz \in AnySize, sz.cols >= TilingColumns(n), sz.rows >= n
  PROVE  LET k == TilingColumns(n)
         IN  /\ \A c, d \in 0 .. k - 1 : \A r \in 0 .. PanesInColumn(n, c) - 1 :
                  \A u \in 0 .. PanesInColumn(n, d) - 1 :
                    c # d \/ r # u => Disjoint(TileAt(n, c, r, sz), TileAt(n, d, u, sz))
             /\ \A cell \in Nat \X Nat : Holds(Full(sz), cell) =>
                  \E c \in 0 .. k - 1 : \E r \in 0 .. PanesInColumn(n, c) - 1 :
                    Holds(TileAt(n, c, r, sz), cell)
<1> DEFINE k == TilingColumns(n)
           m(c) == PanesInColumn(n, c)
           C == [x \in 0 .. k |-> ShareStart(x, sz.cols, k)]
           R(c) == [x \in 0 .. m(c) |-> ShareStart(x, sz.rows, m(c))]
<1>1. k \in Nat \ {0} /\ \A c \in 0 .. k - 1 : m(c) \in Nat \ {0} /\ m(c) <= n
  BY ColumnsOfTiling, PanesOfColumns
<1>2. sz.cols \in Nat /\ sz.rows \in Nat /\ sz.cols >= k
      /\ \A c \in 0 .. k - 1 : sz.rows >= m(c)
  BY <1>1 DEF AnySize
<1>3. ASSUME NEW c \in 0 .. k - 1, NEW r \in 0 .. m(c) - 1
      PROVE  LET tile == TileAt(n, c, r, sz)
             IN  /\ tile.col = C[c] /\ tile.col + tile.cols = C[c + 1]
                 /\ tile.row = R(c)[r] /\ tile.row + tile.rows = R(c)[r + 1]
  <2>1. c \in 0 .. k /\ c + 1 \in 0 .. k /\ r \in 0 .. m(c) /\ r + 1 \in 0 .. m(c)
    BY <1>1
  <2> QED BY <2>1, TileAtPlace
<1> HIDE DEF k, m
<1>4. /\ \A x \in 0 .. k : C[x] \in Nat
      /\ C[0] = 0 /\ C[k] = sz.cols
      /\ \A x \in 0 .. k - 1 : C[x] <= C[x + 1]
  <2>1. /\ \A x \in 0 .. k : ShareStart(x, sz.cols, k) \in Nat
        /\ ShareStart(0, sz.cols, k) = 0 /\ ShareStart(k, sz.cols, k) = sz.cols
        /\ \A x \in 0 .. k - 1 : ShareStart(x, sz.cols, k) < ShareStart(x + 1, sz.cols, k)
    BY <1>1, <1>2, Shares
  <2>2. 0 \in 0 .. k /\ k \in 0 .. k /\ \A x \in 0 .. k - 1 : x \in 0 .. k /\ x + 1 \in 0 .. k
    BY <1>1
  <2> QED BY <2>1, <2>2
<1>5. ASSUME NEW c \in 0 .. k - 1
      PROVE  /\ \A x \in 0 .. m(c) : R(c)[x] \in Nat
             /\ R(c)[0] = 0 /\ R(c)[m(c)] = sz.rows
             /\ \A x \in 0 .. m(c) - 1 : R(c)[x] <= R(c)[x + 1]
  <2>1. /\ \A x \in 0 .. m(c) : ShareStart(x, sz.rows, m(c)) \in Nat
        /\ ShareStart(0, sz.rows, m(c)) = 0 /\ ShareStart(m(c), sz.rows, m(c)) = sz.rows
        /\ \A x \in 0 .. m(c) - 1 : ShareStart(x, sz.rows, m(c)) < ShareStart(x + 1, sz.rows, m(c))
    BY <1>1, <1>2, Shares
  <2>2. /\ 0 \in 0 .. m(c) /\ m(c) \in 0 .. m(c)
        /\ \A x \in 0 .. m(c) - 1 : x \in 0 .. m(c) /\ x + 1 \in 0 .. m(c)
    BY <1>1
  <2> QED BY <2>1, <2>2
<1> HIDE DEF C, R
<1>6. ASSUME NEW c \in 0 .. k - 1, NEW d \in 0 .. k - 1, NEW r \in 0 .. m(c) - 1,
             NEW u \in 0 .. m(d) - 1, c # d \/ r # u
      PROVE  Disjoint(TileAt(n, c, r, sz), TileAt(n, d, u, sz))
  <2>1. CASE c # d
    <3>1. C[c + 1] <= C[d] \/ C[d + 1] <= C[c]
      BY <1>1, <1>4, <2>1, SeparateSteps
    <3> QED BY <1>3, <3>1 DEF Disjoint
  <2>2. CASE c = d /\ r # u
    <3>1. u \in 0 .. m(c) - 1
      BY <2>2
    <3>2. R(c)[r + 1] <= R(c)[u] \/ R(c)[u + 1] <= R(c)[r]
      BY <1>1, <1>5, <2>2, <3>1, SeparateSteps
    <3> QED BY <1>3, <2>2, <3>1, <3>2 DEF Disjoint
  <2> QED BY <1>6, <2>1, <2>2
<1>7. ASSUME NEW cell \in Nat \X Nat, Holds(Full(sz), cell)
      PROVE  \E c \in 0 .. k - 1 : \E r \in 0 .. m(c) - 1 : Holds(TileAt(n, c, r, sz), cell)
  <2>1. cell[1] \in 0 .. sz.cols - 1 /\ cell[2] \in 0 .. sz.rows - 1
    BY <1>2, <1>7 DEF Holds, Full, Rect
  <2>2. PICK c \in 0 .. k - 1 : C[c] <= cell[1] /\ cell[1] < C[c + 1]
    BY <1>1, <1>4, <2>1, Staircase
  <2>3. PICK r \in 0 .. m(c) - 1 : R(c)[r] <= cell[2] /\ cell[2] < R(c)[r + 1]
    BY <1>1, <1>5, <2>1, Staircase
  <2>4. Holds(TileAt(n, c, r, sz), cell)
    BY <1>3, <2>2, <2>3 DEF Holds
  <2> QED BY <2>4
<1> QED BY <1>6, <1>7 DEF k, m

\* The tiles of any panes are a partition of a window with room for the grid.
LEMMA TilingPartitions ==
  ASSUME NEW ids \in SUBSET Nat, IsFiniteSet(ids), ids # {}, NEW sz \in AnySize,
         sz.cols >= TilingColumns(Cardinality(ids)), sz.rows >= Cardinality(ids)
  PROVE  LET tiles == compute_tiling_layouts(ids, sz)
         IN  /\ \A p \in ids : tiles[p] \in AnyRect /\ Within(tiles[p], Full(sz))
             /\ \A p, q \in ids : p # q => Disjoint(tiles[p], tiles[q])
             /\ \A cell \in Nat \X Nat :
                  Holds(Full(sz), cell) => \E p \in ids : Holds(tiles[p], cell)
<1> DEFINE tiles == compute_tiling_layouts(ids, sz)
           n == Cardinality(ids)
           k == TilingColumns(n)
           number == [p \in ids |-> Cardinality({x \in ids : x < p})]
           c(p) == ColumnOf(n, number[p])
           r(p) == RowOf(n, number[p])
<1>1. n \in Nat \ {0}
  BY FS_CardinalityType, FS_EmptySet
<1>2. IsNumbering(number, ids, n)
  <2> DEFINE rank == [x \in ids |-> x]
  <2>1. IsRanking(rank, ids)
    BY DEF IsRanking
  <2>2. CountsBelow(number, rank, ids)
    <3>1. \A p \in ids : {x \in ids : x < p} = {x \in ids : rank[x] < rank[p]}
      OBVIOUS
    <3> QED BY <3>1, Zenon DEF CountsBelow
  <2> HIDE DEF rank, number
  <2> QED BY <2>1, <2>2, CountBelow
<1>3. /\ \A p \in ids : number[p] \in 0 .. n - 1
      /\ \A p, q \in ids : number[p] = number[q] => p = q
      /\ \A i \in 0 .. n - 1 : \E p \in ids : number[p] = i
  BY <1>2 DEF IsNumbering
<1>4. \A p \in ids : tiles[p] = IF n = 1 THEN Full(sz) ELSE TileAt(n, c(p), r(p), sz)
  BY DEF compute_tiling_layouts, TileAt
<1>5. sz.cols \in Nat /\ sz.rows \in Nat /\ sz.cols >= k /\ sz.rows >= n
  BY DEF AnySize
<1> HIDE DEF tiles, n, number
<1>6. CASE n = 1
  <2>1. \A p \in ids : tiles[p] = Full(sz)
    BY <1>4, <1>6
  <2>2. \A p, q \in ids : p = q
    BY <1>3, <1>6
  <2>3. Full(sz) \in AnyRect /\ Within(Full(sz), Full(sz))
    BY <1>5 DEF Full, Rect, AnyRect, Within
  <2>4. ids # {}
    OBVIOUS
  <2> QED BY <2>1, <2>2, <2>3, <2>4 DEF tiles
<1>7. CASE n # 1
  <2>1. \A p \in ids : tiles[p] = TileAt(n, c(p), r(p), sz)
    BY <1>4, <1>7
  <2>2. \A p \in ids : /\ c(p) \in 0 .. k - 1 /\ r(p) \in 0 .. PanesInColumn(n, c(p)) - 1
                       /\ number[p] = PanesBefore(n, c(p)) + r(p)
    BY <1>1, <1>3, PlacesOfPanes
  <2>3. \A p, q \in ids : p # q => c(p) # c(q) \/ r(p) # r(q)
    BY <1>3, <2>2
  <2>4. \A d \in 0 .. k - 1 : \A u \in 0 .. PanesInColumn(n, d) - 1 :
          \E p \in ids : c(p) = d /\ r(p) = u
    <3> TAKE d \in 0 .. k - 1
    <3> TAKE u \in 0 .. PanesInColumn(n, d) - 1
    <3>1. PICK i \in 0 .. n - 1 : ColumnOf(n, i) = d /\ RowOf(n, i) = u
      BY <1>1, PlacesOfPanes
    <3>2. PICK p \in ids : number[p] = i
      BY <1>3
    <3> QED BY <3>1, <3>2
  <2> HIDE DEF c, r, k
  <2>5. ASSUME NEW p \in ids PROVE tiles[p] \in AnyRect /\ Within(tiles[p], Full(sz))
    <3>1. c(p) \in 0 .. TilingColumns(n) - 1 /\ r(p) \in 0 .. PanesInColumn(n, c(p)) - 1
      BY <2>2 DEF k
    <3>2. TileAt(n, c(p), r(p), sz) \in AnyRect /\ Within(TileAt(n, c(p), r(p), sz), Full(sz))
      BY <1>1, <1>5, <3>1, TileAtPlace DEF k
    <3> QED BY <2>1, <3>2
  <2>6. /\ \A a, d \in 0 .. k - 1 : \A v \in 0 .. PanesInColumn(n, a) - 1 :
             \A u \in 0 .. PanesInColumn(n, d) - 1 :
               a # d \/ v # u => Disjoint(TileAt(n, a, v, sz), TileAt(n, d, u, sz))
        /\ \A cell \in Nat \X Nat : Holds(Full(sz), cell) =>
             \E d \in 0 .. k - 1 : \E u \in 0 .. PanesInColumn(n, d) - 1 :
               Holds(TileAt(n, d, u, sz), cell)
    BY <1>1, <1>5, GridPartitions DEF k
  <2>7. ASSUME NEW p \in ids, NEW q \in ids, p # q PROVE Disjoint(tiles[p], tiles[q])
    BY <2>1, <2>2, <2>3, <2>6, <2>7
  <2>8. ASSUME NEW cell \in Nat \X Nat, Holds(Full(sz), cell)
        PROVE  \E p \in ids : Holds(tiles[p], cell)
    <3>1. PICK d \in 0 .. k - 1 : \E u \in 0 .. PanesInColumn(n, d) - 1 :
            Holds(TileAt(n, d, u, sz), cell)
      BY <2>6, <2>8
    <3>2. PICK u \in 0 .. PanesInColumn(n, d) - 1 : Holds(TileAt(n, d, u, sz), cell)
      BY <3>1
    <3>3. PICK p \in ids : c(p) = d /\ r(p) = u
      BY <2>4
    <3> QED BY <2>1, <3>2, <3>3
  <2> QED BY <2>5, <2>7, <2>8 DEF tiles
<1> QED BY <1>6, <1>7

-----------------------------------------------------------------------------
(***************************************************************************)
(* One window under the operations of window/mod.rs.                       *)
(***************************************************************************)

\* Its tree has a leaf for each of its panes.
WindowOK(w) ==
  /\ w = [tree |-> w.tree, pty |-> w.pty, focus |-> w.focus, zoomed |-> w.zoomed,
          tiled |-> w.tiled, last |-> w.last, float |-> w.float, floatPty |-> w.floatPty]
  /\ TreeOK(w.tree) /\ DOMAIN w.tree = Panes(w)
  /\ Panes(w) \subseteq Nat /\ IsFiniteSet(Panes(w)) /\ w.focus \in Panes(w)
  /\ w.zoomed \in BOOLEAN /\ w.tiled \in BOOLEAN /\ w.last \in Sizes
  /\ w.float \in [DOMAIN w.float -> AnyRect] /\ DOMAIN w.floatPty = DOMAIN w.float

\* The PTYs of its tiles have the sizes of the tiles.
PtysFit(w, sz) == ~ w.zoomed => w.pty = TileSizes(w, sz)

\* Where a rectangle that was clamped to a size can be.
Settled(r, sz) ==
  /\ r \in AnyRect
  /\ r.cols \in MIN_COLS .. AtLeast(sz.cols, MIN_COLS)
  /\ r.rows \in MIN_ROWS .. AtLeast(sz.rows, MIN_ROWS)
  /\ Roomy(sz) => Inside(r, sz)

\* Its floating panes and their PTYs: MoveFloatingPane does not resize the PTY, which
\* is right because a settled rectangle keeps its size when it is clamped again.
FloatsSettled(w) ==
  \A p \in DOMAIN w.float :
    Settled(w.float[p], w.last) /\ w.floatPty[p] = Size(w.float[p].cols, w.float[p].rows)

SameFloats(v, w) == v.float = w.float /\ v.floatPty = w.floatPty /\ v.last = w.last

LEMMA SizesAreSizes ==
  /\ \A sz \in Sizes : sz \in AnySize /\ sz = Size(sz.cols, sz.rows)
  /\ \A r \in Rects : r \in AnyRect
BY LayoutAssumption DEF AnySize, AnyRect, Size

\* What clamping leads to.
LEMMA ClampedIsSettled ==
  ASSUME NEW r \in AnyRect, NEW sz \in AnySize
  PROVE  Settled(clamp_to(r, sz), sz)
<1> DEFINE f == clamp_to(r, sz)
<1>1. /\ f \in AnyRect /\ f.cols >= MIN_COLS /\ f.rows >= MIN_ROWS
      /\ sz.cols >= MIN_COLS => f.col + f.cols <= sz.cols
      /\ sz.rows >= MIN_ROWS => f.row + f.rows <= sz.rows
  BY FloatingPaneFits
<1>2. /\ f.cols = Clamp(r.cols, MIN_COLS, AtLeast(sz.cols, MIN_COLS))
      /\ f.rows = Clamp(r.rows, MIN_ROWS, AtLeast(sz.rows, MIN_ROWS))
  BY DEF clamp_to, Rect
<1>3. r.cols \in Nat /\ r.rows \in Nat /\ sz.cols \in Nat /\ sz.rows \in Nat
  BY DEF AnyRect, AnySize
<1> HIDE DEF f
<1>4. /\ f.cols \in MIN_COLS .. AtLeast(sz.cols, MIN_COLS)
      /\ f.rows \in MIN_ROWS .. AtLeast(sz.rows, MIN_ROWS)
  BY <1>2, <1>3 DEF Clamp, AtMost, AtLeast, MIN_COLS, MIN_ROWS
<1>5. Settled(f, sz)
  BY <1>1, <1>4 DEF Settled, Roomy, Inside
<1> QED BY <1>5 DEF f

\* A settled rectangle that is moved keeps its size.
LEMMA MovedKeepsSize ==
  ASSUME NEW sz \in AnySize, NEW f, Settled(f, sz), NEW r \in AnyRect
  PROVE  LET g == clamp_to([f EXCEPT !.col = r.col, !.row = r.row], sz)
         IN  Settled(g, sz) /\ g.cols = f.cols /\ g.rows = f.rows
<1> DEFINE m == [f EXCEPT !.col = r.col, !.row = r.row]
           g == clamp_to(m, sz)
<1>1. f \in AnyRect /\ r.col \in Nat /\ r.row \in Nat
  BY DEF Settled, AnyRect
<1>2. m \in AnyRect /\ m.cols = f.cols /\ m.rows = f.rows
  BY <1>1 DEF AnyRect
<1> HIDE DEF m
<1>3. Settled(g, sz)
  BY <1>2, ClampedIsSettled
<1>4. /\ f.cols \in MIN_COLS .. AtLeast(sz.cols, MIN_COLS)
      /\ f.rows \in MIN_ROWS .. AtLeast(sz.rows, MIN_ROWS)
      /\ sz.cols \in Nat /\ sz.rows \in Nat
  BY DEF Settled, AnySize
<1>5. /\ g.cols = Clamp(f.cols, MIN_COLS, AtLeast(sz.cols, MIN_COLS))
      /\ g.rows = Clamp(f.rows, MIN_ROWS, AtLeast(sz.rows, MIN_ROWS))
  BY <1>2 DEF clamp_to, Rect
<1>6. g.cols = f.cols /\ g.rows = f.rows
  BY <1>4, <1>5 DEF Clamp, AtMost, AtLeast, MIN_COLS, MIN_ROWS
<1> QED BY <1>3, <1>6 DEF m

\* The sizes of the tiles of a window depend on its panes, and on its tree unless it
\* is tiled.
LEMMA SameTiles ==
  ASSUME NEW v, NEW w, NEW sz, Panes(v) = Panes(w), v.tiled = w.tiled,
         w.tiled \/ v.tree = w.tree
  PROVE  TileSizes(v, sz) = TileSizes(w, sz)
<1>1. compute_layouts(v, sz) = compute_layouts(w, sz)
  BY DEF compute_layouts
<1> QED BY <1>1 DEF TileSizes

\* LaidOut.
LEMMA LaidOutWindow ==
  ASSUME NEW w, WindowOK(w), NEW sz
  PROVE  LET v == LaidOut(w, sz)
         IN  /\ WindowOK(v) /\ v.pty = TileSizes(v, sz) /\ Panes(v) = Panes(w)
             /\ SameFloats(v, w) /\ v.zoomed = w.zoomed
<1> DEFINE v == LaidOut(w, sz)
           sizes == TileSizes(w, sz)
<1>1. DOMAIN sizes = Panes(w)
  BY DEF TileSizes
<1> HIDE DEF sizes
<1>2. v = [w EXCEPT !.pty = sizes]
  BY DEF LaidOut, sizes
<1> HIDE DEF v
<1>3. /\ v = [tree |-> v.tree, pty |-> v.pty, focus |-> v.focus, zoomed |-> v.zoomed,
              tiled |-> v.tiled, last |-> v.last, float |-> v.float, floatPty |-> v.floatPty]
      /\ v.tree = w.tree /\ v.pty = sizes /\ v.focus = w.focus /\ v.zoomed = w.zoomed
      /\ v.tiled = w.tiled /\ v.last = w.last /\ v.float = w.float /\ v.floatPty = w.floatPty
  BY <1>2 DEF WindowOK
<1>4. Panes(v) = Panes(w)
  BY <1>1, <1>3 DEF Panes
<1>5. v.pty = TileSizes(v, sz)
  BY <1>3, <1>4, SameTiles DEF sizes
<1>6. WindowOK(v)
  BY <1>3, <1>4 DEF WindowOK
<1> QED BY <1>3, <1>4, <1>5, <1>6 DEF v, SameFloats

\* resize_all_panes.
LEMMA ResizedWindow ==
  ASSUME NEW w, WindowOK(w), NEW sz \in Sizes
  PROVE  LET v == resize_all_panes(w, sz)
         IN  /\ WindowOK(v) /\ v.pty = TileSizes(v, sz) /\ Panes(v) = Panes(w)
             /\ FloatsSettled(v) /\ DOMAIN v.float = DOMAIN w.float /\ v.zoomed = w.zoomed
<1> DEFINE u == LaidOut(w, sz)
           v == resize_all_panes(w, sz)
           float == [p \in DOMAIN w.float |-> clamp_to(w.float[p], sz)]
           floatPty == [p \in DOMAIN float |-> Size(float[p].cols, float[p].rows)]
<1>1. WindowOK(u) /\ u.pty = TileSizes(u, sz) /\ Panes(u) = Panes(w) /\ u.zoomed = w.zoomed
  BY LaidOutWindow
<1>2. v = [u EXCEPT !.last = sz, !.float = float, !.floatPty = floatPty]
  BY DEF resize_all_panes
<1>3. \A p \in DOMAIN w.float : Settled(float[p], sz)
  <2> SUFFICES ASSUME NEW p \in DOMAIN w.float PROVE Settled(clamp_to(w.float[p], sz), sz)
    OBVIOUS
  <2>1. w.float[p] \in AnyRect
    BY DEF WindowOK
  <2> QED BY <2>1, SizesAreSizes, ClampedIsSettled
<1>4. DOMAIN float = DOMAIN w.float /\ float \in [DOMAIN w.float -> AnyRect]
  BY <1>3 DEF Settled
<1>5. /\ DOMAIN floatPty = DOMAIN w.float
      /\ \A p \in DOMAIN w.float : floatPty[p] = Size(float[p].cols, float[p].rows)
  BY <1>4
<1> HIDE DEF u, v, float, floatPty
<1>6. /\ v = [tree |-> v.tree, pty |-> v.pty, focus |-> v.focus, zoomed |-> v.zoomed,
              tiled |-> v.tiled, last |-> v.last, float |-> v.float, floatPty |-> v.floatPty]
      /\ v.tree = u.tree /\ v.pty = u.pty /\ v.focus = u.focus /\ v.zoomed = u.zoomed
      /\ v.tiled = u.tiled /\ v.last = sz /\ v.float = float /\ v.floatPty = floatPty
  BY <1>1, <1>2 DEF WindowOK
<1>7. Panes(v) = Panes(u)
  BY <1>6 DEF Panes
<1>8. v.pty = TileSizes(v, sz)
  BY <1>1, <1>6, <1>7, SameTiles
<1>9. WindowOK(v)
  BY <1>1, <1>4, <1>5, <1>6, <1>7 DEF WindowOK
<1>10. FloatsSettled(v)
  BY <1>3, <1>4, <1>5, <1>6 DEF FloatsSettled
<1> QED BY <1>1, <1>4, <1>6, <1>7, <1>8, <1>9, <1>10 DEF v

LEMMA WithElements ==
  ASSUME NEW f, NEW x, NEW y
  PROVE  /\ DOMAIN With(f, x, y) = DOMAIN f \cup {x} /\ With(f, x, y)[x] = y
         /\ \A z \in DOMAIN f : z # x => With(f, x, y)[z] = f[z]
BY DEF With

\* A window with one pane more.
LEMMA GrownWindow ==
  ASSUME NEW w, WindowOK(w), NEW p \in Nat, p \notin Panes(w), NEW dir \in Directions, NEW sz
  PROVE  LET v == Grown(w, p, dir, sz)
         IN  /\ WindowOK(v) /\ Panes(v) = Panes(w) \cup {p}
             /\ SameFloats(v, w) /\ v.zoomed = w.zoomed
<1> DEFINE tree == insert_after(w.tree, w.focus, p, dir)
           pty == With(w.pty, p, sz)
           u == [w EXCEPT !.tree = tree, !.pty = pty, !.focus = p]
<1>1. /\ Grown(w, p, dir, sz) = u
      /\ u = [w EXCEPT !.tree = tree, !.pty = pty, !.focus = p]
  BY DEF Grown
<1>2. TreeOK(tree) /\ DOMAIN tree = Panes(w) \cup {p}
  <2>1. TreeOK(w.tree) /\ w.focus \in DOMAIN w.tree /\ p \notin DOMAIN w.tree
        /\ DOMAIN w.tree = Panes(w)
    BY DEF WindowOK
  <2> DEFINE t == w.tree
             target == w.focus
  <2>2. TreeOK(t) /\ target \in DOMAIN t /\ p \notin DOMAIN t
    BY <2>1
  <2> HIDE DEF t, target
  <2>3. TreeOK(insert_after(t, target, p, dir))
        /\ DOMAIN insert_after(t, target, p, dir) = DOMAIN t \cup {p}
    BY <2>2, InsertAfterTree
  <2> QED BY <2>1, <2>3 DEF t, target
<1>3. DOMAIN pty = Panes(w) \cup {p}
  BY WithElements DEF Panes
<1>4. IsFiniteSet(Panes(w) \cup {p}) /\ Panes(w) \cup {p} \subseteq Nat
  <2>1. Panes(w) \subseteq Nat /\ IsFiniteSet(Panes(w))
    BY DEF WindowOK
  <2> HIDE DEF tree, pty
  <2>2. IsFiniteSet(Panes(w) \cup {p})
    BY <2>1, FS_AddElement
  <2> QED BY <2>1, <2>2
<1> HIDE DEF tree, pty, u
<1>5. /\ u = [tree |-> u.tree, pty |-> u.pty, focus |-> u.focus, zoomed |-> u.zoomed,
              tiled |-> u.tiled, last |-> u.last, float |-> u.float, floatPty |-> u.floatPty]
      /\ u.tree = tree /\ u.pty = pty /\ u.focus = p /\ u.zoomed = w.zoomed
      /\ u.tiled = w.tiled /\ u.last = w.last /\ u.float = w.float /\ u.floatPty = w.floatPty
  BY <1>1 DEF WindowOK
<1>6. Panes(u) = Panes(w) \cup {p}
  BY <1>3, <1>5 DEF Panes
<1>7. WindowOK(u)
  BY <1>2, <1>4, <1>5, <1>6 DEF WindowOK
<1>8. SameFloats(u, w)
  BY <1>5 DEF SameFloats
<1> QED BY <1>1, <1>5, <1>6, <1>7, <1>8

\* A window whose PTYs get other sizes.
LEMMA OtherPtys ==
  ASSUME NEW w, WindowOK(w), NEW pty, DOMAIN pty = Panes(w)
  PROVE  LET v == [w EXCEPT !.pty = pty]
         IN  WindowOK(v) /\ Panes(v) = Panes(w) /\ SameFloats(v, w) /\ v.zoomed = w.zoomed
<1> DEFINE v == [w EXCEPT !.pty = pty]
<1>1. v = [w EXCEPT !.pty = pty]
  OBVIOUS
<1> HIDE DEF v
<1>2. /\ v = [tree |-> v.tree, pty |-> v.pty, focus |-> v.focus, zoomed |-> v.zoomed,
              tiled |-> v.tiled, last |-> v.last, float |-> v.float, floatPty |-> v.floatPty]
      /\ v.tree = w.tree /\ v.pty = pty /\ v.focus = w.focus /\ v.zoomed = w.zoomed
      /\ v.tiled = w.tiled /\ v.last = w.last /\ v.float = w.float /\ v.floatPty = w.floatPty
  BY <1>1 DEF WindowOK
<1>3. Panes(v) = Panes(w)
  BY <1>2 DEF Panes
<1>4. WindowOK(v)
  BY <1>2, <1>3 DEF WindowOK
<1> QED BY <1>2, <1>3, <1>4 DEF SameFloats, v

\* add_pane_with_options.  Unless the window is tiled, its PTYs then fit.
LEMMA AddedPane ==
  ASSUME NEW w, WindowOK(w), NEW p \in Nat, p \notin Panes(w), NEW dir \in Directions, NEW sz
  PROVE  LET v == add_pane(w, p, dir, sz)
         IN  /\ WindowOK(v) /\ Panes(v) = Panes(w) \cup {p}
             /\ SameFloats(v, w) /\ v.zoomed = w.zoomed
             /\ ~ w.tiled => v.pty = TileSizes(v, sz)
<1> DEFINE u == Grown(w, p, dir, sz)
           a == LaidOut(u, sz)
           pty == With(TileSizes(w, sz), p, sz)
           b == [u EXCEPT !.pty = pty]
<1>1. /\ WindowOK(u) /\ Panes(u) = Panes(w) \cup {p}
      /\ SameFloats(u, w) /\ u.zoomed = w.zoomed
  BY GrownWindow
<1>2. DOMAIN pty = Panes(u)
  <2>1. DOMAIN TileSizes(w, sz) = Panes(w)
    BY DEF TileSizes
  <2> QED BY <1>1, <2>1, WithElements
<1>3. add_pane(w, p, dir, sz) = IF w.tiled THEN b ELSE a
  BY DEF add_pane
<1> HIDE DEF u, pty
<1>4. /\ WindowOK(a) /\ a.pty = TileSizes(a, sz) /\ Panes(a) = Panes(u)
      /\ SameFloats(a, u) /\ a.zoomed = u.zoomed
  BY <1>1, LaidOutWindow
<1>5. WindowOK(b) /\ Panes(b) = Panes(u) /\ SameFloats(b, u) /\ b.zoomed = u.zoomed
  BY <1>1, <1>2, OtherPtys
<1> HIDE DEF a, b
<1>6. SameFloats(a, w) /\ SameFloats(b, w)
  BY <1>1, <1>4, <1>5 DEF SameFloats
<1> QED BY <1>1, <1>3, <1>4, <1>5, <1>6

\* A window with a second pane has a split around each of its panes.
LEMMA SecondPane ==
  ASSUME NEW w, WindowOK(w), NEW p \in Panes(w), NEW q \in Panes(w), p # q
  PROVE  w.tree[p] # <<>>
<1>1. PICK k \in 1 .. Len(w.tree[p]) : Apart(w.tree[p], w.tree[q], k)
  BY DEF WindowOK, TreeOK
<1>2. 1 .. Len(<<>>) = {}
  OBVIOUS
<1> QED BY <1>1, <1>2

LEMMA MoreThanOne ==
  ASSUME NEW w, WindowOK(w), Cardinality(Panes(w)) > 1, NEW p \in Panes(w)
  PROVE  \E q \in Panes(w) : q # p
<1> SUFFICES ASSUME \A q \in Panes(w) : q = p PROVE FALSE
  OBVIOUS
<1>1. Panes(w) = {p}
  OBVIOUS
<1>2. Cardinality({p}) = 1
  BY FS_Singleton
<1> QED BY <1>1, <1>2

\* Without a pane that is not the only one.
LEMMA WithoutPane ==
  ASSUME NEW w, WindowOK(w), NEW p \in Panes(w), \E q \in Panes(w) : q # p
  PROVE  LET v == Without(w, p)
         IN  /\ WindowOK(v) /\ Panes(v) = Panes(w) \ {p}
             /\ SameFloats(v, w) /\ v.zoomed = w.zoomed
<1> DEFINE tree == remove(w.tree, p)
           pty == [x \in Panes(w) \ {p} |-> w.pty[x]]
           focus == IF w.focus = p THEN Min(DOMAIN pty) ELSE w.focus
           v == Without(w, p)
<1>1. v = [w EXCEPT !.tree = tree, !.pty = pty, !.focus = focus]
  BY DEF Without
<1>2. TreeOK(tree) /\ DOMAIN tree = Panes(w) \ {p}
  <2>1. w.tree[p] # <<>>
    BY SecondPane
  <2> QED BY <2>1, RemoveTree DEF WindowOK
<1>3. DOMAIN pty = Panes(w) \ {p}
  OBVIOUS
<1>4. IsFiniteSet(Panes(w) \ {p}) /\ Panes(w) \ {p} \in SUBSET Nat /\ Panes(w) \ {p} # {}
  BY FS_RemoveElement DEF WindowOK
<1>5. focus \in Panes(w) \ {p}
  <2>1. CASE w.focus = p
    BY <1>3, <1>4, <2>1, MinProperty
  <2>2. CASE w.focus # p
    BY <2>2 DEF WindowOK
  <2> QED BY <2>1, <2>2
<1> HIDE DEF tree, pty, focus, v
<1>6. /\ v = [tree |-> v.tree, pty |-> v.pty, focus |-> v.focus, zoomed |-> v.zoomed,
              tiled |-> v.tiled, last |-> v.last, float |-> v.float, floatPty |-> v.floatPty]
      /\ v.tree = tree /\ v.pty = pty /\ v.focus = focus /\ v.zoomed = w.zoomed
      /\ v.tiled = w.tiled /\ v.last = w.last /\ v.float = w.float /\ v.floatPty = w.floatPty
  BY <1>1 DEF WindowOK
<1>7. Panes(v) = Panes(w) \ {p}
  BY <1>3, <1>6 DEF Panes
<1>8. WindowOK(v)
  BY <1>2, <1>4, <1>5, <1>6, <1>7 DEF WindowOK
<1> QED BY <1>6, <1>7, <1>8 DEF v, SameFloats

\* take_pane: also remove_focused_pane but for the zoom.
LEMMA TakenPane ==
  ASSUME NEW w, WindowOK(w), NEW p \in Panes(w), \E q \in Panes(w) : q # p, NEW sz,
         NEW zoomed \in BOOLEAN
  PROVE  LET v == LaidOut([Without(w, p) EXCEPT !.zoomed = zoomed], sz)
         IN  /\ WindowOK(v) /\ v.pty = TileSizes(v, sz) /\ Panes(v) = Panes(w) \ {p}
             /\ SameFloats(v, w) /\ v.zoomed = zoomed
<1> DEFINE r == Without(w, p)
           u == [r EXCEPT !.zoomed = zoomed]
           v == LaidOut(u, sz)
<1>1. WindowOK(r) /\ Panes(r) = Panes(w) \ {p} /\ SameFloats(r, w)
  BY WithoutPane
<1> HIDE DEF r
<1>2. /\ u = [tree |-> u.tree, pty |-> u.pty, focus |-> u.focus, zoomed |-> u.zoomed,
              tiled |-> u.tiled, last |-> u.last, float |-> u.float, floatPty |-> u.floatPty]
      /\ u.tree = r.tree /\ u.pty = r.pty /\ u.focus = r.focus /\ u.zoomed = zoomed
      /\ u.tiled = r.tiled /\ u.last = r.last /\ u.float = r.float /\ u.floatPty = r.floatPty
  BY <1>1 DEF WindowOK
<1> HIDE DEF u
<1>3. Panes(u) = Panes(r)
  BY <1>2 DEF Panes
<1>4. WindowOK(u) /\ SameFloats(u, w)
  BY <1>1, <1>2, <1>3 DEF WindowOK, SameFloats
<1>5. /\ WindowOK(v) /\ v.pty = TileSizes(v, sz) /\ Panes(v) = Panes(u)
      /\ SameFloats(v, u) /\ v.zoomed = u.zoomed
  BY <1>4, LaidOutWindow
<1> HIDE DEF v
<1>6. SameFloats(v, w)
  BY <1>4, <1>5 DEF SameFloats
<1> QED BY <1>1, <1>2, <1>3, <1>5, <1>6 DEF v, u, r

\* insert_pane.
LEMMA InsertedPane ==
  ASSUME NEW w, WindowOK(w), NEW p \in Nat, p \notin Panes(w), NEW sz
  PROVE  LET v == insert_pane(w, p, sz)
         IN  /\ WindowOK(v) /\ v.pty = TileSizes(v, sz) /\ Panes(v) = Panes(w) \cup {p}
             /\ SameFloats(v, w)
<1> DEFINE u == Grown(w, p, "vertical", sz)
           z == [u EXCEPT !.zoomed = FALSE]
           v == LaidOut(z, sz)
<1>1. /\ WindowOK(u) /\ Panes(u) = Panes(w) \cup {p} /\ SameFloats(u, w)
  <2>1. "vertical" \in Directions
    BY DEF Directions
  <2> QED BY <2>1, GrownWindow
<1>2. z = [u EXCEPT !.zoomed = FALSE] /\ insert_pane(w, p, sz) = v
  BY DEF insert_pane
<1> HIDE DEF u, z
<1>3. /\ z = [tree |-> z.tree, pty |-> z.pty, focus |-> z.focus, zoomed |-> z.zoomed,
              tiled |-> z.tiled, last |-> z.last, float |-> z.float, floatPty |-> z.floatPty]
      /\ z.tree = u.tree /\ z.pty = u.pty /\ z.focus = u.focus /\ z.zoomed = FALSE
      /\ z.tiled = u.tiled /\ z.last = u.last /\ z.float = u.float /\ z.floatPty = u.floatPty
  BY <1>1, <1>2 DEF WindowOK
<1>4. Panes(z) = Panes(u)
  BY <1>3 DEF Panes
<1>5. WindowOK(z) /\ SameFloats(z, w)
  BY <1>1, <1>3, <1>4 DEF WindowOK, SameFloats
<1>6. /\ WindowOK(v) /\ v.pty = TileSizes(v, sz) /\ Panes(v) = Panes(z) /\ SameFloats(v, z)
  BY <1>5, LaidOutWindow
<1> HIDE DEF v
<1>7. SameFloats(v, w)
  BY <1>5, <1>6 DEF SameFloats
<1> QED BY <1>1, <1>2, <1>4, <1>6, <1>7

\* A new window.
LEMMA NewWindowFits ==
  ASSUME NEW p \in Nat, NEW sz \in Sizes
  PROVE  LET v == NewWindow(p, sz)
         IN  /\ WindowOK(v) /\ v.pty = TileSizes(v, sz) /\ Panes(v) = {p}
             /\ FloatsSettled(v) /\ DOMAIN v.float = {}
<1> DEFINE v == NewWindow(p, sz)
           tree == Leaf(p)
           pty == Only(p, Size(sz.cols, sz.rows))
           float == [x \in {} |-> Full(sz)]
           floatPty == [x \in {} |-> sz]
<1>1. v = [tree |-> tree, pty |-> pty, focus |-> p, zoomed |-> FALSE, tiled |-> FALSE,
           last |-> sz, float |-> float, floatPty |-> floatPty]
  BY DEF NewWindow
<1>2. TreeOK(tree) /\ DOMAIN tree = {p} /\ tree[p] = <<>>
  BY LeafTree
<1>3. DOMAIN pty = {p} /\ pty = [x \in {p} |-> Size(sz.cols, sz.rows)]
  BY DEF Only
<1>4. DOMAIN float = {} /\ DOMAIN floatPty = {} /\ float \in [{} -> AnyRect]
  OBVIOUS
<1>5. IsFiniteSet({p}) /\ {p} \subseteq Nat
  BY FS_Singleton
<1>6. compute(tree, Full(sz))[p] = Full(sz)
  <2>1. RectsOn(<<>>, Full(sz))[0] = Full(sz)
    <3> DEFINE way == <<>>
    <3>1. Len(way) \in Nat
      OBVIOUS
    <3> HIDE DEF way
    <3>2. RectsOn(way, Full(sz))[0] = Full(sz)
      BY <3>1, RectsOnWay
    <3> QED BY <3>2 DEF way
  <2>2. Len(tree[p]) = 0 /\ p \in DOMAIN tree
    BY <1>2
  <2>3. compute(tree, Full(sz))[p] = RectsOn(tree[p], Full(sz))[Len(tree[p])]
    <3> HIDE DEF tree
    <3> QED BY <2>2 DEF compute
  <2> HIDE DEF tree
  <2> QED BY <1>2, <2>1, <2>2, <2>3
<1> HIDE DEF v, tree, pty, float, floatPty
<1>7. Panes(v) = {p} /\ v.tiled = FALSE /\ v.tree = tree /\ v.pty = pty
  BY <1>1, <1>3 DEF Panes
<1>8. WindowOK(v) /\ FloatsSettled(v)
  BY <1>1, <1>2, <1>4, <1>5, <1>7 DEF WindowOK, FloatsSettled
<1>9. compute_layouts(v, sz)[p] = Full(sz)
  BY <1>6, <1>7 DEF compute_layouts
<1>10. TileSizes(v, sz) = [x \in {p} |-> Size(sz.cols, sz.rows)]
  <2>1. Full(sz).cols = sz.cols /\ Full(sz).rows = sz.rows
    BY DEF Full, Rect
  <2> DEFINE tiles == compute_layouts(v, sz)
  <2>2. TileSizes(v, sz) = [x \in Panes(v) |-> Size(tiles[x].cols, tiles[x].rows)]
    BY DEF TileSizes
  <2> HIDE DEF tiles
  <2>3. tiles[p] = Full(sz)
    BY <1>9 DEF tiles
  <2>4. \A x \in {p} : Size(tiles[x].cols, tiles[x].rows) = Size(sz.cols, sz.rows)
    BY <2>1, <2>3
  <2> QED BY <1>7, <2>2, <2>4
<1>11. v.float = float /\ v.pty = TileSizes(v, sz)
  BY <1>1, <1>3, <1>7, <1>10
<1> QED BY <1>4, <1>7, <1>8, <1>11 DEF v

-----------------------------------------------------------------------------
(***************************************************************************)
(* The session.                                                            *)
(***************************************************************************)

\* Of a window: why it may be off, and that it is not if there is no reason.
Explained(w, why, sz, next) ==
  /\ WindowOK(w) /\ why \subseteq {"split", "size", "swap", "float"}
  /\ why \subseteq {"float"} => PtysFit(w, sz)
  /\ "float" \notin why => FloatsSettled(w)
  /\ \A p \in Panes(w) \cup DOMAIN w.float : p \in Nat /\ p < next

\* The inductive invariant: every window is explained, and no pane has two.
LayoutInv ==
  /\ focused \in Windows /\ size \in Sizes /\ nextPane \in Nat /\ nextWindow \in Nat
  /\ windows = [i \in Windows |-> windows[i]] /\ off = [i \in Windows |-> off[i]]
  /\ \A i \in Windows :
       i \in Nat /\ i < nextWindow /\ Explained(windows[i], off[i], size, nextPane)
  /\ \A i, j \in Windows : i # j => Panes(windows[i]) \cap Panes(windows[j]) = {}

\* What the properties say follows.
LEMMA ExplainedFits ==
  ASSUME LayoutInv
  PROVE  TypeOK /\ PtyFitsTile /\ FloatsFit
<1> USE DEF LayoutInv, Explained
<1>1. TypeOK
  BY DEF TypeOK, WindowOK
<1>2. PtyFitsTile
  BY DEF PtyFitsTile, PtysFit, layout_changed
<1>3. FloatsFit
  BY DEF FloatsFit, FloatsSettled, Settled
<1> QED BY <1>1, <1>2, <1>3

LEMMA LaterPanes ==
  ASSUME NEW w, NEW why, NEW sz, NEW next \in Nat, NEW later \in Nat, next <= later,
         Explained(w, why, sz, next)
  PROVE  Explained(w, why, sz, later)
BY DEF Explained

LEMMA InitiallyExplained == Init => LayoutInv
<1> SUFFICES ASSUME Init PROVE LayoutInv
  OBVIOUS
<1>1. Initial \in Sizes
  BY LayoutAssumption DEF Initial
<1> DEFINE w == NewWindow(1, Initial)
<1>2. WindowOK(w) /\ w.pty = TileSizes(w, Initial) /\ Panes(w) = {1}
      /\ FloatsSettled(w) /\ DOMAIN w.float = {}
  BY <1>1, NewWindowFits
<1> HIDE DEF w
<1>3. Explained(w, {}, Initial, 2)
  BY <1>2 DEF Explained, PtysFit
<1>4. windows = [i \in {1} |-> w] /\ off = [i \in {1} |-> {}] /\ focused = 1
      /\ nextPane = 2 /\ nextWindow = 2 /\ size = Initial
  BY DEF Init, Only, w
<1> QED BY <1>1, <1>3, <1>4 DEF LayoutInv, Windows

\* A step that changes one window, w, which may get new panes.
LEMMA OneWindowChanges ==
  ASSUME LayoutInv, NEW i \in Windows, NEW w, NEW why,
         windows' = [windows EXCEPT ![i] = w], off' = [off EXCEPT ![i] = why],
         UNCHANGED <<focused, size, nextWindow>>, nextPane' \in Nat, nextPane <= nextPane',
         Explained(w, why, size, nextPane'),
         \A p \in Panes(w) : p \in Panes(windows[i]) \/ p = nextPane
  PROVE  LayoutInv'
<1>1. /\ Windows' = Windows /\ DOMAIN off' = Windows
      /\ windows'[i] = w /\ off'[i] = why
      /\ \A j \in Windows : j # i => windows'[j] = windows[j] /\ off'[j] = off[j]
      /\ windows' = [j \in Windows |-> windows'[j]] /\ off' = [j \in Windows |-> off'[j]]
  BY DEF LayoutInv, Windows
<1>2. \A j \in Windows : Explained(windows'[j], off'[j], size, nextPane')
  <2>1. ASSUME NEW j \in Windows, j # i PROVE Explained(windows[j], off[j], size, nextPane')
    <3>1. Explained(windows[j], off[j], size, nextPane) /\ nextPane \in Nat
      BY DEF LayoutInv
    <3> QED BY <3>1, LaterPanes
  <2> QED BY <1>1, <2>1
<1>3. ASSUME NEW j \in Windows, j # i
      PROVE  Panes(w) \cap Panes(windows[j]) = {}
  <2> SUFFICES ASSUME NEW p \in Panes(w), p \in Panes(windows[j]) PROVE FALSE
    OBVIOUS
  <2>1. p < nextPane /\ p \in Nat /\ nextPane \in Nat
    BY DEF LayoutInv, Explained
  <2>2. p \in Panes(windows[i])
    BY <2>1
  <2> QED BY <1>3, <2>2 DEF LayoutInv
<1>4. \A j, k \in Windows : j # k => Panes(windows'[j]) \cap Panes(windows'[k]) = {}
  BY <1>1, <1>3 DEF LayoutInv
<1> QED BY <1>1, <1>2, <1>4 DEF LayoutInv

\* The focused window is laid out again.
LEMMA FittedStep ==
  ASSUME LayoutInv, NEW w, Fitted(w),
         UNCHANGED <<focused, size, nextWindow>>, nextPane' \in Nat, nextPane <= nextPane',
         WindowOK(w), w.pty = TileSizes(w, size), SameFloats(w, F),
         \A p \in Panes(w) : p \in Panes(F) \/ (p = nextPane /\ nextPane < nextPane')
  PROVE  LayoutInv'
<1> DEFINE why == Tiled(off[focused])
<1>1. focused \in Windows /\ Explained(F, off[focused], size, nextPane) /\ nextPane \in Nat
  BY DEF LayoutInv, F
<1>2. why \subseteq {"float"} /\ ("float" \notin why => "float" \notin off[focused])
  BY <1>1 DEF Explained, Tiled
<1>3. "float" \notin why => FloatsSettled(w)
  BY <1>1, <1>2 DEF Explained, FloatsSettled, SameFloats
<1>4. \A p \in Panes(w) \cup DOMAIN w.float : p \in Nat /\ p < nextPane'
  BY <1>1 DEF Explained, SameFloats
<1>5. Explained(w, why, size, nextPane')
  BY <1>2, <1>3, <1>4 DEF Explained, PtysFit
<1>6. windows' = [windows EXCEPT ![focused] = w] /\ off' = [off EXCEPT ![focused] = why]
  BY DEF Fitted
<1>7. \A p \in Panes(w) : p \in Panes(windows[focused]) \/ p = nextPane
  BY DEF F
<1> HIDE DEF why
<1> QED BY <1>1, <1>5, <1>6, <1>7, OneWindowChanges

\* The focused window is resized.
LEMMA ResizedStep ==
  ASSUME LayoutInv, NEW w, WindowOK(w), Panes(w) = Panes(F), DOMAIN w.float = DOMAIN F.float,
         Resized(resize_all_panes(w, size)), UNCHANGED session
  PROVE  LayoutInv'
<1> DEFINE v == resize_all_panes(w, size)
<1>1. focused \in Windows /\ Explained(F, off[focused], size, nextPane) /\ nextPane \in Nat
      /\ size \in Sizes
  BY DEF LayoutInv, F
<1>2. /\ WindowOK(v) /\ v.pty = TileSizes(v, size) /\ Panes(v) = Panes(w)
      /\ FloatsSettled(v) /\ DOMAIN v.float = DOMAIN w.float
  BY <1>1, ResizedWindow
<1>3. windows' = [windows EXCEPT ![focused] = v] /\ off' = [off EXCEPT ![focused] = {}]
  BY DEF Resized
<1> HIDE DEF v
<1>4. Explained(v, {}, size, nextPane)
  BY <1>1, <1>2 DEF Explained, PtysFit
<1>5. /\ UNCHANGED <<focused, size, nextWindow>> /\ nextPane' \in Nat /\ nextPane <= nextPane'
      /\ Explained(v, {}, size, nextPane')
  BY <1>1, <1>4 DEF session
<1>6. \A p \in Panes(v) : p \in Panes(windows[focused])
  BY <1>2 DEF F
<1> QED BY <1>1, <1>3, <1>5, <1>6, OneWindowChanges

\* The focused window keeps its PTYs and its tiles, or there is a reason.
LEMMA UnfittedStep ==
  ASSUME LayoutInv, NEW w, NEW why \in SUBSET {"split", "size", "swap", "float"}, Unfitted(w, why),
         UNCHANGED <<focused, size, nextWindow>>, nextPane' \in Nat, nextPane <= nextPane',
         WindowOK(w), \A p \in Panes(w) : p \in Panes(F) \/ (p = nextPane /\ nextPane < nextPane'),
         why \subseteq {"float"} /\ PtysFit(F, size) => PtysFit(w, size),
         "float" \notin why /\ FloatsSettled(F) => FloatsSettled(w),
         \A p \in DOMAIN w.float : p \in DOMAIN F.float \/ (p = nextPane /\ nextPane < nextPane')
  PROVE  LayoutInv'
<1> DEFINE all == off[focused] \cup why
<1>1. focused \in Windows /\ Explained(F, off[focused], size, nextPane) /\ nextPane \in Nat
  BY DEF LayoutInv, F
<1>2. Explained(w, all, size, nextPane')
  <2>1. all \subseteq {"split", "size", "swap", "float"}
    BY <1>1 DEF Explained
  <2>2. all \subseteq {"float"} => PtysFit(w, size)
    BY <1>1 DEF Explained
  <2>3. "float" \notin all => FloatsSettled(w)
    BY <1>1 DEF Explained
  <2>4. \A p \in Panes(w) \cup DOMAIN w.float : p \in Nat /\ p < nextPane'
    BY <1>1 DEF Explained
  <2> HIDE DEF all
  <2> QED BY <2>1, <2>2, <2>3, <2>4 DEF Explained
<1>3. windows' = [windows EXCEPT ![focused] = w] /\ off' = [off EXCEPT ![focused] = all]
  BY DEF Unfitted
<1>4. \A p \in Panes(w) : p \in Panes(windows[focused]) \/ p = nextPane
  BY DEF F
<1> HIDE DEF all
<1> QED BY <1>1, <1>2, <1>3, <1>4, OneWindowChanges

\* A window with another tree over the same panes, zoomed and tiled as given.
LEMMA OtherTree ==
  ASSUME NEW w, WindowOK(w), NEW tree, TreeOK(tree), DOMAIN tree = DOMAIN w.tree
  PROVE  LET v == [w EXCEPT !.tree = tree]
         IN  /\ WindowOK(v) /\ Panes(v) = Panes(w) /\ SameFloats(v, w)
             /\ v.pty = w.pty /\ v.zoomed = w.zoomed /\ v.tiled = w.tiled
<1> DEFINE v == [w EXCEPT !.tree = tree]
<1>1. v = [w EXCEPT !.tree = tree]
  OBVIOUS
<1> HIDE DEF v
<1>2. /\ v = [tree |-> v.tree, pty |-> v.pty, focus |-> v.focus, zoomed |-> v.zoomed,
              tiled |-> v.tiled, last |-> v.last, float |-> v.float, floatPty |-> v.floatPty]
      /\ v.tree = tree /\ v.pty = w.pty /\ v.focus = w.focus /\ v.zoomed = w.zoomed
      /\ v.tiled = w.tiled /\ v.last = w.last /\ v.float = w.float /\ v.floatPty = w.floatPty
  BY <1>1 DEF WindowOK
<1>3. Panes(v) = Panes(w)
  BY <1>2 DEF Panes
<1>4. WindowOK(v)
  BY <1>2, <1>3 DEF WindowOK
<1> QED BY <1>2, <1>3, <1>4 DEF SameFloats, v

WithMode(w, zoomed, tiled, focus) ==
  [w EXCEPT !.zoomed = zoomed, !.tiled = tiled, !.focus = focus]

LEMMA OtherMode ==
  ASSUME NEW w, WindowOK(w), NEW zoomed \in BOOLEAN, NEW tiled \in BOOLEAN, NEW focus \in Panes(w),
         NEW v, v = WithMode(w, zoomed, tiled, focus)
  PROVE  /\ WindowOK(v) /\ Panes(v) = Panes(w) /\ SameFloats(v, w)
         /\ v.pty = w.pty /\ v.zoomed = zoomed /\ v.tiled = tiled /\ v.tree = w.tree
<1>1. /\ v = [tree |-> v.tree, pty |-> v.pty, focus |-> v.focus, zoomed |-> v.zoomed,
              tiled |-> v.tiled, last |-> v.last, float |-> v.float, floatPty |-> v.floatPty]
      /\ v.tree = w.tree /\ v.pty = w.pty /\ v.focus = focus /\ v.zoomed = zoomed
      /\ v.tiled = tiled /\ v.last = w.last /\ v.float = w.float /\ v.floatPty = w.floatPty
  BY DEF WindowOK, WithMode
<1>2. Panes(v) = Panes(w)
  BY <1>1 DEF Panes
<1>3. WindowOK(v)
  BY <1>1, <1>2 DEF WindowOK
<1> QED BY <1>1, <1>2, <1>3 DEF SameFloats

LEMMA FloatsKept ==
  ASSUME NEW v, NEW w, SameFloats(v, w), FloatsSettled(w)
  PROVE  FloatsSettled(v)
BY DEF SameFloats, FloatsSettled

\* The focused window of a session.
LEMMA FocusedWindow ==
  ASSUME LayoutInv
  PROVE  /\ focused \in Windows /\ WindowOK(F) /\ size \in Sizes /\ nextPane \in Nat
         /\ nextPane \notin Panes(F) /\ nextPane \notin DOMAIN F.float
<1>1. focused \in Windows /\ Explained(F, off[focused], size, nextPane) /\ size \in Sizes
      /\ nextPane \in Nat
  BY DEF LayoutInv, F
<1>2. WindowOK(F) /\ \A p \in Panes(F) \cup DOMAIN F.float : p \in Nat /\ p < nextPane
  BY <1>1 DEF Explained
<1>3. ~ (nextPane < nextPane)
  BY <1>1
<1> QED BY <1>1, <1>2, <1>3

\* The requests about panes.
LEMMA SplitStep ==
  ASSUME LayoutInv, NEW dir \in Dirs, Split(dir)
  PROVE  LayoutInv'
<1> DEFINE w == add_pane(F, nextPane, dir, size)
<1>1. WindowOK(F) /\ nextPane \in Nat /\ nextPane \notin Panes(F)
  BY FocusedWindow
<1>2. dir \in Directions
  BY LayoutAssumption
<1>3. /\ WindowOK(w) /\ Panes(w) = Panes(F) \cup {nextPane}
      /\ SameFloats(w, F)
      /\ ~ F.tiled => w.pty = TileSizes(w, size)
  BY <1>1, <1>2, AddedPane
<1>4. /\ IF F.tiled THEN Unfitted(w, {"split"}) ELSE Fitted(w)
      /\ UNCHANGED <<focused, size, nextWindow>> /\ nextPane' = nextPane + 1
  BY DEF Split
<1> HIDE DEF w
<1>5. /\ nextPane' \in Nat /\ nextPane <= nextPane'
      /\ \A p \in Panes(w) : p \in Panes(F) \/ (p = nextPane /\ nextPane < nextPane')
  BY <1>1, <1>3, <1>4
<1>6. CASE ~ F.tiled
  BY <1>3, <1>4, <1>5, <1>6, FittedStep
<1>7. CASE F.tiled
  <2> DEFINE why == {"split"}
  <2>1. Unfitted(w, why)
    BY <1>4, <1>7
  <2>2. why \in SUBSET {"split", "size", "swap", "float"} /\ ~ (why \subseteq {"float"})
    OBVIOUS
  <2>3. FloatsSettled(F) => FloatsSettled(w)
    BY <1>3, FloatsKept
  <2>4. \A p \in DOMAIN w.float : p \in DOMAIN F.float
    BY <1>3 DEF SameFloats
  <2> HIDE DEF why
  <2> QED BY <1>3, <1>4, <1>5, <2>1, <2>2, <2>3, <2>4, UnfittedStep
<1> QED BY <1>6, <1>7

LEMMA ClosePaneStep ==
  ASSUME LayoutInv, ClosePane
  PROVE  LayoutInv'
<1> DEFINE w == remove_focused_pane(F, size)
           r == Without(F, F.focus)
           v == LaidOut([r EXCEPT !.zoomed = F.zoomed], size)
<1>1. WindowOK(F) /\ nextPane \in Nat /\ F.focus \in Panes(F) /\ F.zoomed \in BOOLEAN
  BY FocusedWindow DEF WindowOK
<1>2. \E q \in Panes(F) : q # F.focus
  BY <1>1, MoreThanOne DEF ClosePane
<1>3. /\ WindowOK(v) /\ v.pty = TileSizes(v, size) /\ Panes(v) = Panes(F) \ {F.focus}
      /\ SameFloats(v, F)
  BY <1>1, <1>2, TakenPane
<1>4. w = v
  <2>1. WindowOK(r) /\ r.zoomed = F.zoomed
    BY <1>1, <1>2, WithoutPane
  <2> HIDE DEF r
  <2>2. [r EXCEPT !.zoomed = F.zoomed] = r
    BY <2>1 DEF WindowOK
  <2>3. w = LaidOut(r, size)
    BY DEF remove_focused_pane, r
  <2> HIDE DEF w
  <2> QED BY <2>2, <2>3
<1>5. Fitted(w) /\ UNCHANGED session
  BY DEF ClosePane
<1> HIDE DEF w, v, r
<1>6. /\ UNCHANGED <<focused, size, nextWindow>> /\ nextPane' \in Nat /\ nextPane <= nextPane'
      /\ \A p \in Panes(w) : p \in Panes(F)
  BY <1>1, <1>3, <1>4, <1>5 DEF session
<1> QED BY <1>3, <1>4, <1>5, <1>6, FittedStep

LEMMA ResizeSplitStep ==
  ASSUME LayoutInv, NEW delta \in Deltas, ResizeSplit(delta)
  PROVE  LayoutInv'
<1> DEFINE tree == adjust_ratio_for(F.tree, F.focus, delta)
           u == [F EXCEPT !.tree = tree]
           w == LaidOut(u, size)
<1>1. WindowOK(F) /\ nextPane \in Nat
  BY FocusedWindow
<1>2. TreeOK(tree) /\ DOMAIN tree = DOMAIN F.tree
  <2> DEFINE t == F.tree
             p == F.focus
  <2>1. TreeOK(t) /\ p \in DOMAIN t /\ t[p] # <<>> /\ delta \in Int
    BY <1>1, LayoutAssumption DEF WindowOK, ResizeSplit
  <2> HIDE DEF t, p
  <2>2. TreeOK(adjust_ratio_for(t, p, delta)) /\ DOMAIN adjust_ratio_for(t, p, delta) = DOMAIN t
    BY <2>1, AdjustRatioTree
  <2> QED BY <2>2 DEF t, p
<1>3. Fitted(w) /\ UNCHANGED session
  BY DEF ResizeSplit
<1> HIDE DEF tree
<1>4. WindowOK(u) /\ Panes(u) = Panes(F) /\ SameFloats(u, F)
  BY <1>1, <1>2, OtherTree
<1> HIDE DEF u
<1>5. WindowOK(w) /\ w.pty = TileSizes(w, size) /\ Panes(w) = Panes(u) /\ SameFloats(w, u)
  BY <1>4, LaidOutWindow
<1> HIDE DEF w
<1>6. /\ UNCHANGED <<focused, size, nextWindow>> /\ nextPane' \in Nat /\ nextPane <= nextPane'
      /\ \A p \in Panes(w) : p \in Panes(F)
      /\ SameFloats(w, F)
  BY <1>1, <1>3, <1>4, <1>5 DEF session, SameFloats
<1> QED BY <1>3, <1>5, <1>6, FittedStep

LEMMA ToggleZoomStep ==
  ASSUME LayoutInv, ToggleZoom
  PROVE  LayoutInv'
<1>1. WindowOK(F) /\ nextPane \in Nat /\ F.focus \in Panes(F) /\ F.tiled \in BOOLEAN
      /\ F.zoomed \in BOOLEAN
  BY FocusedWindow DEF WindowOK
<1>2. CASE F.zoomed
  <2> DEFINE w == [F EXCEPT !.zoomed = FALSE]
  <2>1. w = WithMode(F, FALSE, F.tiled, F.focus)
    BY <1>1 DEF WindowOK, WithMode
  <2>2. Resized(resize_all_panes(w, size)) /\ UNCHANGED session
    BY <1>2 DEF ToggleZoom, toggle_zoom
  <2> HIDE DEF w
  <2>3. WindowOK(w) /\ Panes(w) = Panes(F) /\ DOMAIN w.float = DOMAIN F.float
    <3> DEFINE no == FALSE
    <3>1. no \in BOOLEAN /\ w = WithMode(F, no, F.tiled, F.focus)
      BY <2>1
    <3> HIDE DEF no
    <3>2. WindowOK(w) /\ Panes(w) = Panes(F) /\ SameFloats(w, F)
      BY <1>1, <3>1, OtherMode
    <3> QED BY <3>2 DEF SameFloats
  <2> QED BY <2>2, <2>3, ResizedStep
<1>3. CASE ~ F.zoomed
  <2> DEFINE w == [F EXCEPT !.zoomed = TRUE, !.pty[F.focus] = size]
  <2>1. Unfitted(w, {}) /\ UNCHANGED session
    BY <1>3 DEF ToggleZoom, toggle_zoom
  <2>2. w = [F EXCEPT !.zoomed = TRUE, !.pty[F.focus] = size]
    OBVIOUS
  <2> HIDE DEF w
  <2>3. /\ w = [tree |-> w.tree, pty |-> w.pty, focus |-> w.focus, zoomed |-> w.zoomed,
                tiled |-> w.tiled, last |-> w.last, float |-> w.float, floatPty |-> w.floatPty]
        /\ w.tree = F.tree /\ DOMAIN w.pty = DOMAIN F.pty /\ w.focus = F.focus
        /\ w.zoomed = TRUE /\ w.tiled = F.tiled /\ w.last = F.last /\ w.float = F.float
        /\ w.floatPty = F.floatPty
    BY <1>1, <2>2 DEF WindowOK
  <2>4. Panes(w) = Panes(F)
    BY <2>3 DEF Panes
  <2>5. WindowOK(w) /\ SameFloats(w, F) /\ PtysFit(w, size)
    BY <1>1, <2>3, <2>4 DEF WindowOK, SameFloats, PtysFit
  <2>6. FloatsSettled(F) => FloatsSettled(w)
    BY <2>5, FloatsKept
  <2>7. /\ UNCHANGED <<focused, size, nextWindow>> /\ nextPane' \in Nat /\ nextPane <= nextPane'
    BY <1>1, <2>1 DEF session
  <2> QED BY <2>1, <2>3, <2>4, <2>5, <2>6, <2>7, UnfittedStep
<1> QED BY <1>1, <1>2, <1>3

LEMMA SetLayoutModeStep ==
  ASSUME LayoutInv, NEW tiled \in BOOLEAN, SetLayoutMode(tiled)
  PROVE  LayoutInv'
<1> DEFINE w == [F EXCEPT !.tiled = tiled]
<1>1. WindowOK(F) /\ F.focus \in Panes(F) /\ F.zoomed \in BOOLEAN
  BY FocusedWindow DEF WindowOK
<1>2. w = WithMode(F, F.zoomed, tiled, F.focus)
  BY <1>1 DEF WindowOK, WithMode
<1>3. Resized(resize_all_panes(w, size)) /\ UNCHANGED session
  BY DEF SetLayoutMode
<1> HIDE DEF w
<1>4. WindowOK(w) /\ Panes(w) = Panes(F) /\ DOMAIN w.float = DOMAIN F.float
  <2>1. WindowOK(w) /\ Panes(w) = Panes(F) /\ SameFloats(w, F)
    BY <1>1, <1>2, OtherMode
  <2> QED BY <2>1 DEF SameFloats
<1> QED BY <1>3, <1>4, ResizedStep

LEMMA FocusStep ==
  ASSUME LayoutInv, NEW p, Focus(p)
  PROVE  LayoutInv'
<1> DEFINE w == [F EXCEPT !.focus = p]
<1>1. WindowOK(F) /\ p \in Panes(F) /\ F.zoomed \in BOOLEAN /\ F.tiled \in BOOLEAN
      /\ nextPane \in Nat
  BY FocusedWindow DEF WindowOK, Focus
<1>2. w = WithMode(F, F.zoomed, F.tiled, p)
  BY <1>1 DEF WindowOK, WithMode
<1>3. Unfitted(w, {}) /\ UNCHANGED session
  BY DEF Focus
<1> HIDE DEF w
<1>4. WindowOK(w) /\ Panes(w) = Panes(F) /\ SameFloats(w, F) /\ w.pty = F.pty
      /\ w.zoomed = F.zoomed /\ w.tiled = F.tiled /\ w.tree = F.tree
  BY <1>1, <1>2, OtherMode
<1>5. TileSizes(w, size) = TileSizes(F, size)
  BY <1>4, SameTiles
<1>6. PtysFit(F, size) => PtysFit(w, size)
  BY <1>4, <1>5 DEF PtysFit
<1>7. FloatsSettled(F) => FloatsSettled(w)
  BY <1>4, FloatsKept
<1>8. /\ UNCHANGED <<focused, size, nextWindow>> /\ nextPane' \in Nat /\ nextPane <= nextPane'
      /\ DOMAIN w.float = DOMAIN F.float
  BY <1>1, <1>3, <1>4 DEF session, SameFloats
<1> QED BY <1>3, <1>4, <1>6, <1>7, <1>8, UnfittedStep

LEMMA SwapPaneStep ==
  ASSUME LayoutInv, NEW p, SwapPane(p)
  PROVE  LayoutInv'
<1> DEFINE tree == swap_ids(F.tree, F.focus, p)
           w == [F EXCEPT !.tree = tree]
           why == IF F.tiled THEN {} ELSE {"swap"}
<1>1. WindowOK(F) /\ p \in Panes(F) /\ nextPane \in Nat
  BY FocusedWindow DEF SwapPane
<1>2. TreeOK(tree) /\ DOMAIN tree = DOMAIN F.tree
  <2> DEFINE t == F.tree
             a == F.focus
  <2>1. TreeOK(t) /\ a \in DOMAIN t /\ p \in DOMAIN t
    BY <1>1 DEF WindowOK
  <2> HIDE DEF t, a
  <2>2. TreeOK(swap_ids(t, a, p)) /\ DOMAIN swap_ids(t, a, p) = DOMAIN t
    BY <2>1, SwapIdsTree
  <2> QED BY <2>2 DEF t, a
<1>3. Unfitted(w, why) /\ UNCHANGED session
  BY DEF SwapPane
<1> HIDE DEF tree
<1>4. WindowOK(w) /\ Panes(w) = Panes(F) /\ SameFloats(w, F) /\ w.pty = F.pty
      /\ w.zoomed = F.zoomed /\ w.tiled = F.tiled
  BY <1>1, <1>2, OtherTree
<1> HIDE DEF w
<1>5. F.tiled => TileSizes(w, size) = TileSizes(F, size)
  BY <1>4, SameTiles
<1>6. why \subseteq {"float"} /\ PtysFit(F, size) => PtysFit(w, size)
  BY <1>4, <1>5 DEF PtysFit
<1>7. FloatsSettled(F) => FloatsSettled(w)
  BY <1>4, FloatsKept
<1>8. /\ UNCHANGED <<focused, size, nextWindow>> /\ nextPane' \in Nat /\ nextPane <= nextPane'
      /\ DOMAIN w.float = DOMAIN F.float
  BY <1>1, <1>3, <1>4 DEF session, SameFloats
<1>9. why \in SUBSET {"split", "size", "swap", "float"}
  OBVIOUS
<1> HIDE DEF why
<1> QED BY <1>3, <1>4, <1>6, <1>7, <1>8, <1>9, UnfittedStep

\* A window with other floating panes.
WithFloats(w, last, float, floatPty) ==
  [w EXCEPT !.last = last, !.float = float, !.floatPty = floatPty]

LEMMA OtherFloats ==
  ASSUME NEW w, WindowOK(w), NEW last \in Sizes, NEW float, NEW floatPty,
         float \in [DOMAIN float -> AnyRect], DOMAIN floatPty = DOMAIN float,
         NEW v, v = WithFloats(w, last, float, floatPty)
  PROVE  /\ WindowOK(v) /\ Panes(v) = Panes(w) /\ v.last = last
         /\ v.float = float /\ v.floatPty = floatPty
         /\ \A sz : PtysFit(w, sz) => PtysFit(v, sz)
<1>1. /\ v = [tree |-> v.tree, pty |-> v.pty, focus |-> v.focus, zoomed |-> v.zoomed,
              tiled |-> v.tiled, last |-> v.last, float |-> v.float, floatPty |-> v.floatPty]
      /\ v.tree = w.tree /\ v.pty = w.pty /\ v.focus = w.focus /\ v.zoomed = w.zoomed
      /\ v.tiled = w.tiled /\ v.last = last /\ v.float = float /\ v.floatPty = floatPty
  BY DEF WindowOK, WithFloats
<1>2. Panes(v) = Panes(w)
  BY <1>1 DEF Panes
<1>3. WindowOK(v)
  BY <1>1, <1>2 DEF WindowOK
<1>4. ASSUME NEW sz PROVE TileSizes(v, sz) = TileSizes(w, sz)
  BY <1>1, <1>2, SameTiles
<1>5. \A sz : PtysFit(w, sz) => PtysFit(v, sz)
  BY <1>1, <1>4 DEF PtysFit
<1> QED BY <1>1, <1>2, <1>3, <1>5

LEMMA FloatStep ==
  ASSUME LayoutInv, NEW w, NEW why \in SUBSET {"split", "size", "swap", "float"}, Unfitted(w, why),
         UNCHANGED <<focused, size, nextWindow>>, nextPane' \in Nat, nextPane <= nextPane',
         NEW last \in Sizes, NEW float, NEW floatPty, w = WithFloats(F, last, float, floatPty),
         float \in [DOMAIN float -> AnyRect], DOMAIN floatPty = DOMAIN float,
         \A p \in DOMAIN float : p \in DOMAIN F.float \/ (p = nextPane /\ nextPane < nextPane'),
         "float" \notin why /\ FloatsSettled(F) =>
           \A p \in DOMAIN float :
             Settled(float[p], last) /\ floatPty[p] = Size(float[p].cols, float[p].rows)
  PROVE  LayoutInv'
<1>1. WindowOK(F)
  BY FocusedWindow
<1>2. /\ WindowOK(w) /\ Panes(w) = Panes(F) /\ w.last = last
      /\ w.float = float /\ w.floatPty = floatPty
      /\ \A sz : PtysFit(F, sz) => PtysFit(w, sz)
  BY <1>1, OtherFloats
<1>3. "float" \notin why /\ FloatsSettled(F) => FloatsSettled(w)
  BY <1>2 DEF FloatsSettled
<1>4. PtysFit(F, size) => PtysFit(w, size)
  BY <1>2
<1>5. \A p \in DOMAIN w.float : p \in DOMAIN F.float \/ (p = nextPane /\ nextPane < nextPane')
  BY <1>2
<1> QED BY <1>2, <1>3, <1>4, <1>5, UnfittedStep

LEMMA CentredIsSettled ==
  ASSUME NEW sz \in AnySize
  PROVE  Settled(Centred(sz), sz)
<1> DEFINE cols == (sz.cols * 6) \div 10
           rows == (sz.rows * 7) \div 10
           r == Rect((sz.cols - cols) \div 2, (sz.rows - rows) \div 2, cols, rows)
<1>1. sz.cols \in Nat /\ sz.rows \in Nat
  BY DEF AnySize
<1>2. cols \in Nat /\ cols <= sz.cols /\ rows \in Nat /\ rows <= sz.rows
  BY <1>1
<1> HIDE DEF cols, rows
<1>3. (sz.cols - cols) \div 2 \in Nat /\ (sz.rows - rows) \div 2 \in Nat
  BY <1>1, <1>2
<1>4. r \in AnyRect
  BY <1>2, <1>3 DEF Rect, AnyRect
<1>5. Centred(sz) = clamp_to(r, sz)
  BY DEF Centred, cols, rows
<1> HIDE DEF r
<1> QED BY <1>4, <1>5, ClampedIsSettled

LEMMA OpenFloatingPaneStep ==
  ASSUME LayoutInv, OpenFloatingPane
  PROVE  LayoutInv'
<1> DEFINE r == Centred(size)
           float == With(F.float, nextPane, r)
           floatPty == With(F.floatPty, nextPane, Size(r.cols, r.rows))
           w == [F EXCEPT !.last = size, !.float = float, !.floatPty = floatPty]
           why == IF F.last = size \/ DOMAIN F.float = {} THEN {} ELSE {"float"}
<1>1. WindowOK(F) /\ size \in Sizes /\ nextPane \in Nat /\ nextPane \notin DOMAIN F.float
  BY FocusedWindow
<1>2. Settled(r, size) /\ r \in AnyRect
  <2>1. Settled(r, size)
    BY <1>1, SizesAreSizes, CentredIsSettled
  <2> QED BY <2>1 DEF Settled
<1>3. Unfitted(w, why) /\ UNCHANGED <<focused, size, nextWindow>> /\ nextPane' = nextPane + 1
  BY DEF OpenFloatingPane
<1>4. w = WithFloats(F, size, float, floatPty) /\ why \in SUBSET {"split", "size", "swap", "float"}
  BY DEF WithFloats
<1> HIDE DEF r
<1>5. /\ DOMAIN float = DOMAIN F.float \cup {nextPane} /\ float[nextPane] = r
      /\ \A p \in DOMAIN F.float : float[p] = F.float[p]
      /\ DOMAIN floatPty = DOMAIN F.floatPty \cup {nextPane}
      /\ floatPty[nextPane] = Size(r.cols, r.rows)
      /\ \A p \in DOMAIN F.float : floatPty[p] = F.floatPty[p]
      /\ DOMAIN F.floatPty = DOMAIN F.float
      /\ \A p \in DOMAIN F.float : F.float[p] \in AnyRect
  <2>1. DOMAIN F.floatPty = DOMAIN F.float /\ F.float \in [DOMAIN F.float -> AnyRect]
    BY <1>1 DEF WindowOK
  <2> QED BY <1>1, <2>1 DEF With
<1>6. float = [p \in DOMAIN float |-> float[p]]
  BY DEF With
<1> HIDE DEF float, floatPty, w
<1>7. float \in [DOMAIN float -> AnyRect] /\ DOMAIN floatPty = DOMAIN float
  BY <1>2, <1>5, <1>6
<1>8. "float" \notin why /\ FloatsSettled(F) =>
        \A p \in DOMAIN float :
          Settled(float[p], size) /\ floatPty[p] = Size(float[p].cols, float[p].rows)
  <2> SUFFICES ASSUME "float" \notin why, FloatsSettled(F), NEW p \in DOMAIN float
               PROVE  Settled(float[p], size) /\ floatPty[p] = Size(float[p].cols, float[p].rows)
    OBVIOUS
  <2>1. CASE p = nextPane
    BY <1>2, <1>5, <2>1
  <2>2. CASE p \in DOMAIN F.float
    <3>1. F.last = size
      BY <2>2
    <3> QED BY <1>5, <2>2, <3>1 DEF FloatsSettled
  <2> QED BY <1>5, <2>1, <2>2
<1> HIDE DEF why
<1>9. /\ nextPane' \in Nat /\ nextPane <= nextPane'
      /\ \A p \in DOMAIN float : p \in DOMAIN F.float \/ (p = nextPane /\ nextPane < nextPane')
  BY <1>1, <1>3, <1>5
<1> QED BY <1>1, <1>3, <1>4, <1>7, <1>8, <1>9, FloatStep

LEMMA CloseFloatingPaneStep ==
  ASSUME LayoutInv, NEW p, CloseFloatingPane(p)
  PROVE  LayoutInv'
<1> DEFINE float == [x \in DOMAIN F.float \ {p} |-> F.float[x]]
           floatPty == [x \in DOMAIN F.floatPty \ {p} |-> F.floatPty[x]]
           w == [F EXCEPT !.float = float, !.floatPty = floatPty]
<1>1. WindowOK(F) /\ nextPane \in Nat /\ F.last \in Sizes
  BY FocusedWindow DEF WindowOK
<1>2. Unfitted(w, {}) /\ UNCHANGED session
  BY DEF CloseFloatingPane
<1>3. DOMAIN F.floatPty = DOMAIN F.float /\ F.float \in [DOMAIN F.float -> AnyRect]
  BY <1>1 DEF WindowOK
<1>4. /\ float \in [DOMAIN float -> AnyRect] /\ DOMAIN floatPty = DOMAIN float
      /\ \A x \in DOMAIN float : x \in DOMAIN F.float /\ float[x] = F.float[x]
                                 /\ floatPty[x] = F.floatPty[x]
  BY <1>3
<1> HIDE DEF float, floatPty
<1>5. w = WithFloats(F, F.last, float, floatPty)
  BY <1>1 DEF WithFloats, WindowOK
<1> HIDE DEF w
<1>6. FloatsSettled(F) =>
        \A x \in DOMAIN float :
          Settled(float[x], F.last) /\ floatPty[x] = Size(float[x].cols, float[x].rows)
  BY <1>4 DEF FloatsSettled
<1>7. UNCHANGED <<focused, size, nextWindow>> /\ nextPane' \in Nat /\ nextPane <= nextPane'
  BY <1>1, <1>2 DEF session
<1> QED BY <1>1, <1>2, <1>4, <1>5, <1>6, <1>7, FloatStep

LEMMA MoveFloatingPaneStep ==
  ASSUME LayoutInv, NEW p, NEW r \in Rects, MoveFloatingPane(p, r)
  PROVE  LayoutInv'
<1> DEFINE f == F.float[p]
           g == clamp_to([f EXCEPT !.col = r.col, !.row = r.row], F.last)
           float == [F.float EXCEPT ![p] = g]
           w == [F EXCEPT !.float = float]
<1>1. WindowOK(F) /\ nextPane \in Nat /\ F.last \in Sizes
  BY FocusedWindow DEF WindowOK
<1>2. Unfitted(w, {}) /\ UNCHANGED session /\ p \in DOMAIN F.float
  BY DEF MoveFloatingPane
<1>3. DOMAIN F.floatPty = DOMAIN F.float /\ F.float \in [DOMAIN F.float -> AnyRect]
  BY <1>1 DEF WindowOK
<1>4. r \in AnyRect /\ F.last \in AnySize /\ f \in AnyRect
  BY <1>1, <1>2, <1>3, SizesAreSizes
<1>5. g \in AnyRect
  <2> DEFINE m == [f EXCEPT !.col = r.col, !.row = r.row]
  <2>1. m \in AnyRect
    BY <1>4 DEF AnyRect
  <2> HIDE DEF m, f
  <2>2. clamp_to(m, F.last) \in AnyRect
    BY <1>4, <2>1, FloatingPaneFits
  <2> QED BY <2>2 DEF m
<1>6. Settled(f, F.last) => Settled(g, F.last) /\ g.cols = f.cols /\ g.rows = f.rows
  BY <1>4, MovedKeepsSize
<1> HIDE DEF g
<1>7. /\ float \in [DOMAIN float -> AnyRect] /\ DOMAIN float = DOMAIN F.float
      /\ float[p] = g /\ \A x \in DOMAIN F.float : x # p => float[x] = F.float[x]
  BY <1>2, <1>3, <1>5
<1> HIDE DEF float
<1>8. w = WithFloats(F, F.last, float, F.floatPty)
  BY <1>1 DEF WithFloats, WindowOK
<1> HIDE DEF w
<1>9. FloatsSettled(F) =>
        \A x \in DOMAIN float :
          Settled(float[x], F.last) /\ F.floatPty[x] = Size(float[x].cols, float[x].rows)
  <2> SUFFICES ASSUME FloatsSettled(F), NEW x \in DOMAIN float
               PROVE  /\ Settled(float[x], F.last)
                      /\ F.floatPty[x] = Size(float[x].cols, float[x].rows)
    OBVIOUS
  <2>1. Settled(F.float[x], F.last) /\ F.floatPty[x] = Size(F.float[x].cols, F.float[x].rows)
    BY <1>7 DEF FloatsSettled
  <2>2. CASE x = p
    BY <1>6, <1>7, <2>1, <2>2
  <2>3. CASE x # p
    BY <1>7, <2>1, <2>3
  <2> QED BY <2>2, <2>3
<1>10. UNCHANGED <<focused, size, nextWindow>> /\ nextPane' \in Nat /\ nextPane <= nextPane'
  BY <1>1, <1>2 DEF session
<1> QED BY <1>1, <1>2, <1>3, <1>7, <1>8, <1>9, <1>10, FloatStep

LEMMA ResizeFloatingPaneStep ==
  ASSUME LayoutInv, NEW p, NEW r \in Rects, ResizeFloatingPane(p, r)
  PROVE  LayoutInv'
<1> DEFINE f == F.float[p]
           m == [f EXCEPT !.cols = r.cols, !.rows = r.rows]
           g == clamp_to(m, F.last)
           float == [F.float EXCEPT ![p] = g]
           floatPty == [F.floatPty EXCEPT ![p] = Size(g.cols, g.rows)]
           w == [F EXCEPT !.float[p] = g, !.floatPty[p] = Size(g.cols, g.rows)]
<1>1. WindowOK(F) /\ nextPane \in Nat /\ F.last \in Sizes
  BY FocusedWindow DEF WindowOK
<1>2. Unfitted(w, {}) /\ UNCHANGED session /\ p \in DOMAIN F.float
  BY DEF ResizeFloatingPane
<1>3. DOMAIN F.floatPty = DOMAIN F.float /\ F.float \in [DOMAIN F.float -> AnyRect]
  BY <1>1 DEF WindowOK
<1>4. r \in AnyRect /\ F.last \in AnySize /\ f \in AnyRect
  BY <1>1, <1>2, <1>3, SizesAreSizes
<1>5. Settled(g, F.last) /\ g \in AnyRect
  <2>1. m \in AnyRect
    BY <1>4 DEF AnyRect
  <2> HIDE DEF m
  <2>2. Settled(clamp_to(m, F.last), F.last)
    BY <1>4, <2>1, ClampedIsSettled
  <2> QED BY <2>2 DEF Settled
<1> HIDE DEF g
<1>6. /\ float \in [DOMAIN float -> AnyRect] /\ DOMAIN float = DOMAIN F.float
      /\ float[p] = g /\ \A x \in DOMAIN F.float : x # p => float[x] = F.float[x]
      /\ DOMAIN floatPty = DOMAIN float /\ floatPty[p] = Size(g.cols, g.rows)
      /\ \A x \in DOMAIN F.float : x # p => floatPty[x] = F.floatPty[x]
  BY <1>2, <1>3, <1>5
<1>7. w = WithFloats(F, F.last, float, floatPty)
  BY <1>1 DEF WithFloats, WindowOK
<1> HIDE DEF w, float, floatPty
<1>8. FloatsSettled(F) =>
        \A x \in DOMAIN float :
          Settled(float[x], F.last) /\ floatPty[x] = Size(float[x].cols, float[x].rows)
  BY <1>5, <1>6 DEF FloatsSettled
<1>9. UNCHANGED <<focused, size, nextWindow>> /\ nextPane' \in Nat /\ nextPane <= nextPane'
  BY <1>1, <1>2 DEF session
<1> QED BY <1>1, <1>2, <1>6, <1>7, <1>8, <1>9, FloatStep

\* The requests about the session.
LEMMA WindowExplained ==
  ASSUME LayoutInv, NEW i \in Windows
  PROVE  /\ Explained(windows[i], off[i], size, nextPane) /\ WindowOK(windows[i])
         /\ i \in Nat /\ i < nextWindow
         /\ \A p \in Panes(windows[i]) \cup DOMAIN windows[i].float : p \in Nat /\ p < nextPane
         /\ size \in Sizes /\ nextPane \in Nat /\ nextWindow \in Nat /\ nextWindow \notin Windows
<1>1. \A j \in Windows : j \in Nat /\ j < nextWindow
  BY DEF LayoutInv
<1>2. nextWindow \in Nat /\ nextWindow \notin Windows
  BY <1>1 DEF LayoutInv
<1> QED BY <1>2 DEF LayoutInv, Explained

LEMMA ResizeStep ==
  ASSUME LayoutInv, NEW sz \in Sizes, Resize(sz)
  PROVE  LayoutInv'
<1> DEFINE v == resize_all_panes(windows[focused], sz)
<1>1. focused \in Windows /\ WindowOK(windows[focused])
  BY WindowExplained DEF LayoutInv
<1>2. /\ WindowOK(v) /\ v.pty = TileSizes(v, sz) /\ Panes(v) = Panes(windows[focused])
      /\ FloatsSettled(v) /\ DOMAIN v.float = DOMAIN windows[focused].float
  BY <1>1, ResizedWindow
<1>3. windows' = [windows EXCEPT ![focused] = v] /\ size' = sz
      /\ UNCHANGED <<focused, nextPane, nextWindow>>
      /\ off' = [i \in Windows |-> IF i = focused THEN {} ELSE off[i] \cup {"size"}]
  BY DEF Resize
<1> HIDE DEF v
<1>4. /\ Windows' = Windows
      /\ windows'[focused] = v /\ off'[focused] = {}
      /\ \A j \in Windows : j # focused =>
           windows'[j] = windows[j] /\ off'[j] = off[j] \cup {"size"}
      /\ windows' = [j \in Windows |-> windows'[j]] /\ off' = [j \in Windows |-> off'[j]]
  BY <1>1, <1>3 DEF LayoutInv, Windows
<1>5. Explained(v, {}, sz, nextPane)
  BY <1>1, <1>2, WindowExplained DEF Explained, PtysFit
<1>6. ASSUME NEW j \in Windows, j # focused
      PROVE  Explained(windows[j], off[j] \cup {"size"}, sz, nextPane)
  <2>1. Explained(windows[j], off[j], size, nextPane)
    BY WindowExplained
  <2> DEFINE why == off[j] \cup {"size"}
  <2>2. why \subseteq {"split", "size", "swap", "float"} /\ ~ (why \subseteq {"float"})
        /\ ("float" \notin why => "float" \notin off[j])
    BY <2>1 DEF Explained
  <2> HIDE DEF why
  <2>3. Explained(windows[j], why, sz, nextPane)
    BY <2>1, <2>2 DEF Explained
  <2> QED BY <2>3 DEF why
<1>7. \A j \in Windows : Explained(windows'[j], off'[j], sz, nextPane)
  BY <1>4, <1>5, <1>6
<1>8. \A j \in Windows : Panes(windows'[j]) = Panes(windows[j])
  BY <1>2, <1>4
<1> QED BY <1>3, <1>4, <1>7, <1>8 DEF LayoutInv

LEMMA AddWindowStep ==
  ASSUME LayoutInv, AddWindow
  PROVE  LayoutInv'
<1> DEFINE w == NewWindow(nextPane, size)
<1>1. focused \in Windows /\ size \in Sizes /\ nextPane \in Nat /\ nextWindow \in Nat
      /\ nextWindow \notin Windows
  BY WindowExplained DEF LayoutInv
<1>2. /\ WindowOK(w) /\ w.pty = TileSizes(w, size) /\ Panes(w) = {nextPane}
      /\ FloatsSettled(w) /\ DOMAIN w.float = {}
  BY <1>1, NewWindowFits
<1>3. windows' = With(windows, nextWindow, w) /\ off' = With(off, nextWindow, {})
      /\ focused' = nextWindow /\ nextPane' = nextPane + 1 /\ nextWindow' = nextWindow + 1
      /\ size' = size
  BY DEF AddWindow
<1> HIDE DEF w
<1>4. DOMAIN off = Windows
  BY DEF LayoutInv
<1>5. /\ Windows' = Windows \cup {nextWindow}
      /\ windows'[nextWindow] = w /\ off'[nextWindow] = {}
      /\ \A j \in Windows : windows'[j] = windows[j] /\ off'[j] = off[j]
      /\ windows' = [j \in Windows' |-> windows'[j]] /\ off' = [j \in Windows' |-> off'[j]]
  BY <1>1, <1>3, <1>4 DEF With, Windows
<1>6. Explained(w, {}, size, nextPane + 1)
  BY <1>1, <1>2 DEF Explained, PtysFit
<1>7. \A j \in Windows : Explained(windows[j], off[j], size, nextPane + 1)
  <2> SUFFICES ASSUME NEW j \in Windows
               PROVE  Explained(windows[j], off[j], size, nextPane + 1)
    OBVIOUS
  <2>1. Explained(windows[j], off[j], size, nextPane)
    BY WindowExplained
  <2>2. nextPane + 1 \in Nat /\ nextPane <= nextPane + 1
    BY <1>1
  <2> QED BY <1>1, <2>1, <2>2, LaterPanes
<1>8. \A j \in Windows' : Explained(windows'[j], off'[j], size, nextPane + 1)
  BY <1>5, <1>6, <1>7
<1>9. \A j \in Windows' : j \in Nat /\ j < nextWindow + 1
  <2>1. \A j \in Windows : j \in Nat /\ j < nextWindow
    BY WindowExplained
  <2> QED BY <1>1, <1>5, <2>1
<1>10. \A j \in Windows : nextPane \notin Panes(windows[j])
  <2> SUFFICES ASSUME NEW j \in Windows, nextPane \in Panes(windows[j]) PROVE FALSE
    OBVIOUS
  <2>1. nextPane < nextPane
    BY WindowExplained
  <2> QED BY <1>1, <2>1
<1>11. \A j, k \in Windows' : j # k => Panes(windows'[j]) \cap Panes(windows'[k]) = {}
  BY <1>2, <1>5, <1>10 DEF LayoutInv
<1>12. nextPane + 1 \in Nat /\ nextWindow + 1 \in Nat /\ nextWindow \in Windows'
  BY <1>1, <1>5
<1> QED BY <1>1, <1>3, <1>5, <1>8, <1>9, <1>11, <1>12 DEF LayoutInv

LEMMA FocusWindowStep ==
  ASSUME LayoutInv, NEW i, FocusWindow(i)
  PROVE  LayoutInv'
<1>1. /\ Windows' = Windows /\ focused' \in Windows
      /\ UNCHANGED <<windows, off, size, nextPane, nextWindow>>
  BY DEF FocusWindow, Windows
<1> QED BY <1>1 DEF LayoutInv

LEMMA CloseWindowStep ==
  ASSUME LayoutInv, NEW i, CloseWindow(i)
  PROVE  LayoutInv'
<1>1. /\ windows' = [x \in Windows \ {i} |-> windows[x]] /\ off' = [x \in Windows \ {i} |-> off[x]]
      /\ UNCHANGED <<size, nextPane, nextWindow>>
  BY DEF CloseWindow
<1>2. /\ Windows' = Windows \ {i}
      /\ \A j \in Windows \ {i} : windows'[j] = windows[j] /\ off'[j] = off[j]
      /\ windows' = [j \in Windows' |-> windows'[j]] /\ off' = [j \in Windows' |-> off'[j]]
  BY <1>1 DEF Windows
<1>3. focused' \in Windows'
  BY <1>2 DEF CloseWindow, LayoutInv
<1> QED BY <1>1, <1>2, <1>3 DEF LayoutInv

\* A window of its own for a pane that was taken.
LEMMA TakenPaneExplained ==
  ASSUME LayoutInv, NEW i \in Windows, NEW p \in Panes(windows[i]),
         Cardinality(Panes(windows[i])) > 1
  PROVE  LET v == take_pane(windows[i], p, size)
         IN  /\ Explained(v, Tiled(off[i]), size, nextPane)
             /\ Panes(v) = Panes(windows[i]) \ {p}
<1> DEFINE w == windows[i]
           v == take_pane(w, p, size)
           why == Tiled(off[i])
<1>1. Explained(w, off[i], size, nextPane) /\ WindowOK(w)
  BY WindowExplained
<1>2. \E q \in Panes(w) : q # p
  BY <1>1, MoreThanOne
<1>3. /\ WindowOK(v) /\ v.pty = TileSizes(v, size) /\ Panes(v) = Panes(w) \ {p}
      /\ SameFloats(v, w)
  <2> DEFINE no == FALSE
             u == LaidOut([Without(w, p) EXCEPT !.zoomed = no], size)
  <2>1. no \in BOOLEAN /\ v = u
    BY DEF take_pane
  <2> HIDE DEF no, w, v
  <2>2. /\ WindowOK(u) /\ u.pty = TileSizes(u, size) /\ Panes(u) = Panes(w) \ {p}
        /\ SameFloats(u, w)
    <3>1. p \in Panes(w)
      BY DEF w
    <3> QED BY <1>1, <1>2, <2>1, <3>1, TakenPane
  <2> QED BY <2>1, <2>2
<1> HIDE DEF w, v
<1>4. why \subseteq {"float"} /\ ("float" \notin why => "float" \notin off[i])
  BY <1>1 DEF Explained, Tiled
<1>5. "float" \notin why => FloatsSettled(v)
  BY <1>1, <1>3, <1>4, FloatsKept DEF Explained
<1>6. \A q \in Panes(v) \cup DOMAIN v.float : q \in Nat /\ q < nextPane
  BY <1>1, <1>3 DEF Explained, SameFloats
<1> HIDE DEF why
<1>7. Explained(v, why, size, nextPane)
  BY <1>3, <1>4, <1>5, <1>6 DEF Explained, PtysFit
<1> QED BY <1>3, <1>7 DEF v, w, why

\* The window that a pane of another one is inserted into.
LEMMA InsertedPaneExplained ==
  ASSUME LayoutInv, NEW i \in Windows, NEW j \in Windows, i # j, NEW p \in Panes(windows[j])
  PROVE  LET v == insert_pane(windows[i], p, size)
         IN  /\ Explained(v, Tiled(off[i]), size, nextPane)
             /\ Panes(v) = Panes(windows[i]) \cup {p}
<1> DEFINE w == windows[i]
           v == insert_pane(w, p, size)
           why == Tiled(off[i])
<1>1. /\ Explained(w, off[i], size, nextPane) /\ WindowOK(w)
      /\ p \in Nat /\ p < nextPane
  BY WindowExplained
<1>2. p \notin Panes(w)
  BY DEF LayoutInv
<1> HIDE DEF w
<1>3. /\ WindowOK(v) /\ v.pty = TileSizes(v, size) /\ Panes(v) = Panes(w) \cup {p}
      /\ SameFloats(v, w)
  BY <1>1, <1>2, InsertedPane
<1> HIDE DEF v
<1>4. why \subseteq {"float"} /\ ("float" \notin why => "float" \notin off[i])
  BY <1>1 DEF Explained, Tiled
<1>5. "float" \notin why => FloatsSettled(v)
  BY <1>1, <1>3, <1>4, FloatsKept DEF Explained
<1>6. \A q \in Panes(v) \cup DOMAIN v.float : q \in Nat /\ q < nextPane
  BY <1>1, <1>3 DEF Explained, SameFloats
<1> HIDE DEF why
<1>7. Explained(v, why, size, nextPane)
  BY <1>3, <1>4, <1>5, <1>6 DEF Explained, PtysFit
<1> QED BY <1>3, <1>7 DEF v, w, why

LEMMA MovePaneToNewWindowStep ==
  ASSUME LayoutInv, NEW i \in Windows, NEW p \in Panes(windows[i]), MovePaneToNewWindow(i, p)
  PROVE  LayoutInv'
<1> DEFINE v == take_pane(windows[i], p, size)
           w == NewWindow(p, size)
           why == Tiled(off[i])
<1>1. /\ Explained(v, why, size, nextPane) /\ Panes(v) = Panes(windows[i]) \ {p}
  BY TakenPaneExplained DEF MovePaneToNewWindow
<1>2. p \in Nat /\ p < nextPane /\ size \in Sizes /\ nextWindow \in Nat /\ nextPane \in Nat
      /\ nextWindow \notin Windows
  BY WindowExplained
<1>3. /\ WindowOK(w) /\ w.pty = TileSizes(w, size) /\ Panes(w) = {p}
      /\ FloatsSettled(w) /\ DOMAIN w.float = {}
  BY <1>2, NewWindowFits
<1>4. /\ windows' = With([windows EXCEPT ![i] = v], nextWindow, w)
      /\ off' = With([off EXCEPT ![i] = why], nextWindow, {})
      /\ focused' = nextWindow /\ nextWindow' = nextWindow + 1 /\ size' = size
      /\ nextPane' = nextPane
  BY DEF MovePaneToNewWindow
<1> HIDE DEF v, w, why
<1>5. DOMAIN windows = Windows /\ DOMAIN off = Windows
  BY DEF LayoutInv, Windows
<1>6. /\ Windows' = Windows \cup {nextWindow}
      /\ windows'[nextWindow] = w /\ off'[nextWindow] = {} /\ windows'[i] = v /\ off'[i] = why
      /\ \A j \in Windows : j # i => windows'[j] = windows[j] /\ off'[j] = off[j]
      /\ windows' = [j \in Windows' |-> windows'[j]] /\ off' = [j \in Windows' |-> off'[j]]
  <2>1. /\ DOMAIN windows' = Windows \cup {nextWindow} /\ DOMAIN off' = Windows \cup {nextWindow}
        /\ windows' = [j \in DOMAIN windows' |-> windows'[j]]
        /\ off' = [j \in DOMAIN off' |-> off'[j]]
    BY <1>4, <1>5 DEF With
  <2>2. /\ windows'[nextWindow] = w /\ off'[nextWindow] = {} /\ windows'[i] = v /\ off'[i] = why
        /\ \A j \in Windows : j # i => windows'[j] = windows[j] /\ off'[j] = off[j]
    BY <1>2, <1>4, <1>5 DEF With
  <2> QED BY <2>1, <2>2 DEF Windows
<1>7. Explained(w, {}, size, nextPane)
  BY <1>2, <1>3 DEF Explained, PtysFit
<1>8. \A j \in Windows : Explained(windows[j], off[j], size, nextPane)
  BY WindowExplained
<1>9. \A j \in Windows' : Explained(windows'[j], off'[j], size, nextPane)
  BY <1>1, <1>6, <1>7, <1>8
<1>10. \A j \in Windows' : j \in Nat /\ j < nextWindow + 1
  <2>1. \A j \in Windows : j \in Nat /\ j < nextWindow
    BY WindowExplained
  <2> QED BY <1>2, <1>6, <2>1
<1>11. \A j, k \in Windows' : j # k => Panes(windows'[j]) \cap Panes(windows'[k]) = {}
  <2>1. \A j \in Windows : Panes(windows'[j]) \subseteq Panes(windows[j]) \ {p}
    BY <1>1, <1>6 DEF LayoutInv
  <2> QED BY <1>3, <1>6, <2>1 DEF LayoutInv
<1>12. nextWindow + 1 \in Nat /\ nextWindow \in Windows'
  BY <1>2, <1>6
<1> QED BY <1>2, <1>4, <1>6, <1>9, <1>10, <1>11, <1>12 DEF LayoutInv

LEMMA MovePaneToWindowStep ==
  ASSUME LayoutInv, NEW i \in Windows, NEW p \in Panes(windows[i]), NEW target \in Windows,
         MovePaneToWindow(i, p, target)
  PROVE  LayoutInv'
<1> DEFINE v == take_pane(windows[i], p, size)
           w == insert_pane(windows[target], p, size)
<1>1. target # i
  BY DEF MovePaneToWindow
<1>2. /\ Explained(v, Tiled(off[i]), size, nextPane) /\ Panes(v) = Panes(windows[i]) \ {p}
  BY TakenPaneExplained DEF MovePaneToWindow
<1>3. /\ Explained(w, Tiled(off[target]), size, nextPane)
      /\ Panes(w) = Panes(windows[target]) \cup {p}
  BY <1>1, InsertedPaneExplained
<1>4. /\ windows' = [windows EXCEPT ![i] = v, ![target] = w]
      /\ off' = [off EXCEPT ![i] = Tiled(off[i]), ![target] = Tiled(off[target])]
      /\ focused' = target /\ UNCHANGED <<size, nextPane, nextWindow>>
  BY <1>1 DEF MovePaneToWindow
<1> HIDE DEF v, w
<1>5. DOMAIN windows = Windows /\ DOMAIN off = Windows
  BY DEF LayoutInv, Windows
<1>6. /\ Windows' = Windows
      /\ windows'[i] = v /\ off'[i] = Tiled(off[i])
      /\ windows'[target] = w /\ off'[target] = Tiled(off[target])
      /\ \A j \in Windows : j # i /\ j # target => windows'[j] = windows[j] /\ off'[j] = off[j]
      /\ windows' = [j \in Windows' |-> windows'[j]] /\ off' = [j \in Windows' |-> off'[j]]
  BY <1>1, <1>4, <1>5 DEF Windows
<1>7. \A j \in Windows : Explained(windows[j], off[j], size, nextPane)
  BY WindowExplained
<1>8. \A j \in Windows' : Explained(windows'[j], off'[j], size, nextPane)
  BY <1>2, <1>3, <1>6, <1>7
<1>9. \A j, k \in Windows' : j # k => Panes(windows'[j]) \cap Panes(windows'[k]) = {}
  <2>1. \A j \in Windows : j # target => Panes(windows'[j]) \subseteq Panes(windows[j]) \ {p}
    BY <1>2, <1>6 DEF LayoutInv
  <2> QED BY <1>3, <1>6, <2>1 DEF LayoutInv
<1> QED BY <1>4, <1>6, <1>8, <1>9 DEF LayoutInv

LEMMA MoveLastPaneStep ==
  ASSUME LayoutInv, NEW i \in Windows, NEW p \in Panes(windows[i]), NEW target \in Windows,
         MoveLastPane(i, p, target)
  PROVE  LayoutInv'
<1> DEFINE w == insert_pane(windows[target], p, size)
<1>1. target # i /\ Panes(windows[i]) = {p}
  BY DEF MoveLastPane
<1>2. /\ Explained(w, Tiled(off[target]), size, nextPane)
      /\ Panes(w) = Panes(windows[target]) \cup {p}
  BY <1>1, InsertedPaneExplained
<1>3. /\ windows' = [x \in Windows \ {i} |-> IF x = target THEN w ELSE windows[x]]
      /\ off' = [x \in Windows \ {i} |-> IF x = target THEN Tiled(off[target]) ELSE off[x]]
      /\ focused' = target /\ UNCHANGED <<size, nextPane, nextWindow>>
  BY DEF MoveLastPane
<1> HIDE DEF w
<1>4. /\ Windows' = Windows \ {i} /\ target \in Windows'
      /\ windows'[target] = w /\ off'[target] = Tiled(off[target])
      /\ \A j \in Windows' : j # target => windows'[j] = windows[j] /\ off'[j] = off[j]
      /\ windows' = [j \in Windows' |-> windows'[j]] /\ off' = [j \in Windows' |-> off'[j]]
  BY <1>1, <1>3 DEF Windows
<1>5. \A j \in Windows' : Explained(windows'[j], off'[j], size, nextPane)
  BY <1>2, <1>4, WindowExplained
<1>6. \A j, k \in Windows' : j # k => Panes(windows'[j]) \cap Panes(windows'[k]) = {}
  <2>1. \A j \in Windows' : p \notin Panes(windows[j])
    BY <1>4 DEF LayoutInv
  <2> QED BY <1>2, <1>4, <2>1 DEF LayoutInv
<1> QED BY <1>3, <1>4, <1>5, <1>6 DEF LayoutInv

LEMMA LayoutStep == LayoutInv /\ [Next]_vars => LayoutInv'
<1> SUFFICES ASSUME LayoutInv, [Next]_vars PROVE LayoutInv'
  OBVIOUS
<1>1. CASE PaneRequest
  BY <1>1, SplitStep, ClosePaneStep, ToggleZoomStep, ResizeSplitStep, SetLayoutModeStep,
     FocusStep, SwapPaneStep DEF PaneRequest
<1>2. CASE FloatRequest
  BY <1>2, OpenFloatingPaneStep, CloseFloatingPaneStep, MoveFloatingPaneStep,
     ResizeFloatingPaneStep DEF FloatRequest
<1>3. CASE WindowRequest
  BY <1>3, ResizeStep, AddWindowStep, FocusWindowStep, CloseWindowStep,
     MovePaneToNewWindowStep, MovePaneToWindowStep, MoveLastPaneStep DEF WindowRequest
<1>4. CASE UNCHANGED vars
  BY <1>4 DEF vars, session, LayoutInv, Windows
<1> QED BY <1>1, <1>2, <1>3, <1>4 DEF Next

LEMMA LayoutInvariant == Spec => []LayoutInv
<1> QED BY InitiallyExplained, LayoutStep, PTL DEF Spec

\* Every window is a tree with ratios from 0.1 to 0.9 and one leaf for each of its
\* panes (window/bsp.rs: insert_after, remove, swap_ids and adjust_ratio_for keep it
\* so, with any number of panes and windows and through every move between them).
THEOREM LayoutTypeCorrect == Spec => []TypeOK
<1>1. LayoutInv => TypeOK
  BY ExplainedFits
<1> QED BY <1>1, LayoutInvariant, PTL

\* A PTY has the size of its tile, unless its window missed a resize or two of its
\* panes were swapped (window/mod.rs, the loops over compute_layouts).
THEOREM PtysFitTheirTiles == Spec => []PtyFitsTile
<1>1. LayoutInv => PtyFitsTile
  BY ExplainedFits
<1> QED BY <1>1, LayoutInvariant, PTL

\* Floating panes stay inside their window and their PTYs have their size, unless
\* one was opened in a window that had missed a resize (window/mod.rs and
\* window/floating.rs).
THEOREM FloatsStayFit == Spec => []FloatsFit
<1>1. LayoutInv => FloatsFit
  BY ExplainedFits
<1> QED BY <1>1, LayoutInvariant, PTL

\* The tiles of a window at a size.
LEMMA TilesOfWindow ==
  ASSUME NEW w, WindowOK(w), NEW sz \in AnySize
  PROVE  LET tiles == compute_layouts(w, sz)
             between == IF w.tiled THEN {} ELSE Separators(w.tree, Full(sz))
             n == Cardinality(Panes(w))
         IN  ~ w.tiled \/ (sz.cols >= TilingColumns(n) /\ sz.rows >= n) =>
               /\ \A p \in Panes(w) : Inside(tiles[p], sz)
               /\ \A p, q \in Panes(w) : p # q => Disjoint(tiles[p], tiles[q])
               /\ \A cell \in Cells(sz) :
                    (\E r \in {tiles[p] : p \in Panes(w)} : Holds(r, cell))
                      <=> ~ \E r \in between : Holds(r, cell)
<1> DEFINE tiles == compute_layouts(w, sz)
           between == IF w.tiled THEN {} ELSE Separators(w.tree, Full(sz))
           n == Cardinality(Panes(w))
<1>1. /\ TreeOK(w.tree) /\ DOMAIN w.tree = Panes(w) /\ Panes(w) \in SUBSET Nat
      /\ IsFiniteSet(Panes(w)) /\ Panes(w) # {}
  BY DEF WindowOK
<1>2. sz.cols \in Nat /\ sz.rows \in Nat
  BY DEF AnySize
<1>3. /\ Full(sz) \in AnyRect
      /\ \A r : Within(r, Full(sz)) => Inside(r, sz)
      /\ \A cell \in Cells(sz) : cell \in Nat \X Nat /\ Holds(Full(sz), cell)
  <2>1. Full(sz).col = 0 /\ Full(sz).row = 0 /\ Full(sz).cols = sz.cols /\ Full(sz).rows = sz.rows
    BY DEF Full, Rect
  <2>2. Full(sz) \in AnyRect
    BY <1>2 DEF Full, Rect, AnyRect
  <2>3. \A cell \in Cells(sz) : cell \in Nat \X Nat /\ Holds(Full(sz), cell)
    BY <1>2, <2>1 DEF Cells, Holds
  <2>4. \A r : Within(r, Full(sz)) => Inside(r, sz)
    BY <1>2, <2>1 DEF Within, Inside
  <2> QED BY <2>2, <2>3, <2>4
<1>4. ASSUME ~ w.tiled \/ (sz.cols >= TilingColumns(n) /\ sz.rows >= n)
      PROVE  /\ \A p \in Panes(w) : Within(tiles[p], Full(sz))
             /\ \A p, q \in Panes(w) : p # q => Disjoint(tiles[p], tiles[q])
             /\ \A cell \in Cells(sz) :
                  (\E p \in Panes(w) : Holds(tiles[p], cell))
                    <=> ~ \E r \in between : Holds(r, cell)
  <2>1. CASE w.tiled
    <3>1. tiles = compute_tiling_layouts(Panes(w), sz) /\ between = {}
      BY <2>1 DEF compute_layouts
    <3>2. sz.cols >= TilingColumns(Cardinality(Panes(w))) /\ sz.rows >= Cardinality(Panes(w))
      BY <1>4, <2>1
    <3> HIDE DEF tiles, between
    <3>3. /\ \A p \in Panes(w) : Within(tiles[p], Full(sz))
          /\ \A p, q \in Panes(w) : p # q => Disjoint(tiles[p], tiles[q])
          /\ \A cell \in Nat \X Nat :
               Holds(Full(sz), cell) => \E p \in Panes(w) : Holds(tiles[p], cell)
      BY <1>1, <3>1, <3>2, TilingPartitions
    <3> QED BY <1>3, <3>1, <3>3
  <2>2. CASE ~ w.tiled
    <3>1. tiles = compute(w.tree, Full(sz)) /\ between = Separators(w.tree, Full(sz))
      BY <2>2 DEF compute_layouts
    <3> HIDE DEF tiles, between
    <3>2. IsFiniteSet(DOMAIN w.tree) /\ DOMAIN w.tree # {}
      BY <1>1
    <3>3. /\ \A p \in Panes(w) : Within(tiles[p], Full(sz))
          /\ \A p, q \in Panes(w) : p # q => Disjoint(tiles[p], tiles[q])
          /\ \A cell \in Nat \X Nat : Holds(Full(sz), cell) =>
               ((\E p \in Panes(w) : Holds(tiles[p], cell))
                  <=> ~ \E r \in between : Holds(r, cell))
      BY <1>1, <1>3, <3>1, <3>2, TreePartitions
    <3> QED BY <1>3, <3>3
  <2> QED BY <2>1, <2>2
<1> HIDE DEF tiles, between, n
<1>5. SUFFICES ASSUME ~ w.tiled \/ (sz.cols >= TilingColumns(n) /\ sz.rows >= n)
               PROVE  /\ \A p \in Panes(w) : Inside(tiles[p], sz)
                      /\ \A p, q \in Panes(w) : p # q => Disjoint(tiles[p], tiles[q])
                      /\ \A cell \in Cells(sz) :
                           (\E r \in {tiles[p] : p \in Panes(w)} : Holds(r, cell))
                             <=> ~ \E r \in between : Holds(r, cell)
  BY DEF tiles, between, n
<1> QED BY <1>3, <1>4, <1>5

\* At every size the tiles of every window, with the separators of its splits, are a
\* partition of it: "first + separator + second == total exactly" (window/bsp.rs,
\* split_extent; window/tiling.rs shares out rows and columns without a rest), with
\* any number of panes and however they were split, closed, swapped and moved.
THEOREM TilesArePartition == Spec => []TilesPartition
<1>1. LayoutInv => TilesPartition
  <2> SUFFICES ASSUME LayoutInv, NEW i \in Windows, NEW sz \in Sizes
               PROVE  LET w == windows[i]
                          tiles == compute_layouts(w, sz)
                          drawn == {tiles[p] : p \in Panes(w)}
                          between == IF w.tiled THEN {} ELSE Separators(w.tree, Full(sz))
                          n == Cardinality(Panes(w))
                      IN  ~ w.tiled \/ (sz.cols >= TilingColumns(n) /\ sz.rows >= n) =>
                            /\ \A p \in Panes(w) : Inside(tiles[p], sz)
                            /\ \A p, q \in Panes(w) : p # q => Disjoint(tiles[p], tiles[q])
                            /\ \A cell \in Cells(sz) :
                                 (\E r \in drawn : Holds(r, cell))
                                   <=> ~ \E r \in between : Holds(r, cell)
    BY Zenon DEF TilesPartition
  <2>1. WindowOK(windows[i])
    BY DEF LayoutInv, Explained
  <2>2. sz \in AnySize
    BY SizesAreSizes
  <2> QED BY <2>1, <2>2, TilesOfWindow
<1> QED BY <1>1, LayoutInvariant, PTL
=============================================================================
