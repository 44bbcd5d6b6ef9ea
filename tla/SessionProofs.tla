---------------------------- MODULE SessionProofs ---------------------------
(***************************************************************************)
(* Theorems about Session and Restart, for every number of panes, windows  *)
(* and requests and whatever fails: every reachable session is well typed, *)
(* owns each of its panes once, has a live focused pane in every window    *)
(* and a tab order that is a permutation of the panes.  All of it is so    *)
(* again after any restart from a file that was not written after one of   *)
(* the requests that tear a tree, and what comes back is the last save.    *)
(*                                                                         *)
(* First come lemmas about the operators of Window, what each of them does *)
(* to the panes, the focus and the tab order of a well-formed window.      *)
(***************************************************************************)
EXTENDS Restart, CountingLemmas, FiniteSetTheorems, SequenceTheorems, TLAPS

\* A window over the pane ids of P whose maps are disjoint, whose focus is one
\* of its tiled panes, which has a PTY pane, and whose tab order lists every
\* tiled pane once.
WellFormed(w, P) ==
  /\ w \in WindowOver(P)
  /\ w.panes \cap w.serial = {}
  /\ pane_ids(w) \cap w.floating = {}
  /\ w.focus \in pane_ids(w)
  /\ w.panes # {}
  /\ IsInjective(w.order)
  /\ Range(w.order) = pane_ids(w)

-----------------------------------------------------------------------------
(***************************************************************************)
(* First positions.                                                        *)
(***************************************************************************)

\* FirstIndex finds a position of an element that is there.
LEMMA FirstIndexProperty ==
  ASSUME NEW S, NEW s \in Seq(S), NEW x \in Range(s)
  PROVE  FirstIndex(s, x) \in 1 .. Len(s) /\ s[FirstIndex(s, x)] = x
<1> DEFINE I == {i \in 1 .. Len(s) : s[i] = x}
<1>1. DOMAIN s = 1 .. Len(s) /\ Len(s) \in Nat
  OBVIOUS
<1>2. I \in SUBSET Nat /\ I # {}
  BY <1>1 DEF Range
<1>3. Min(I) \in I /\ \A y \in I : Min(I) <= y
  BY <1>2, MinProperty
<1>4. \E i \in DOMAIN s : s[i] = x /\ \A j \in 1 .. (i - 1) : s[j] # x
  <2>1. Min(I) \in DOMAIN s /\ s[Min(I)] = x
    BY <1>1, <1>3
  <2>2. ASSUME NEW j \in 1 .. (Min(I) - 1) PROVE s[j] # x
    BY <1>1, <1>3, <2>1
  <2> QED BY <2>1, <2>2
<1> QED BY <1>1, <1>4 DEF FirstIndex

-----------------------------------------------------------------------------
(***************************************************************************)
(* Inserting into and removing from a sequence.                            *)
(***************************************************************************)

\* InsertAt, element by element.
LEMMA InsertAtElements ==
  ASSUME NEW S, NEW s \in Seq(S), NEW e \in S, NEW i \in 1 .. (Len(s) + 1)
  PROVE  /\ InsertAt(s, i, e) \in Seq(S)
         /\ Len(InsertAt(s, i, e)) = Len(s) + 1
         /\ \A j \in 1 .. (Len(s) + 1) :
              InsertAt(s, i, e)[j] = IF j < i THEN s[j]
                                     ELSE IF j = i THEN e ELSE s[j - 1]
<1> DEFINE a == SubSeq(s, 1, i - 1)
           b == SubSeq(s, i, Len(s))
<1>1. Len(s) \in Nat /\ i \in Nat /\ 1 <= i /\ i <= Len(s) + 1
  OBVIOUS
<1>2. a \in Seq(S) /\ Len(a) = i - 1 /\ \A j \in 1 .. (i - 1) : a[j] = s[j]
  BY <1>1, SubSeqProperties
<1>3. /\ b \in Seq(S) /\ Len(b) = Len(s) - i + 1
      /\ \A j \in 1 .. (Len(s) - i + 1) : b[j] = s[i + j - 1]
  BY <1>1, SubSeqProperties
<1> HIDE DEF a, b
<1>4. /\ a \o <<e>> \in Seq(S) /\ Len(a \o <<e>>) = i
      /\ \A j \in 1 .. i : (a \o <<e>>)[j] = IF j < i THEN s[j] ELSE e
  <2>1. /\ <<e>> \in Seq(S) /\ Len(<<e>>) = 1 /\ <<e>>[1] = e
        /\ Len(a) + 1 = i
    BY <1>1, <1>2
  <2>2. /\ a \o <<e>> \in Seq(S) /\ Len(a \o <<e>>) = Len(a) + Len(<<e>>)
        /\ \A j \in 1 .. (Len(a) + Len(<<e>>)) :
             (a \o <<e>>)[j] = IF j <= Len(a) THEN a[j] ELSE <<e>>[j - Len(a)]
    <3>1. a \in Seq(S) /\ <<e>> \in Seq(S)
      BY <1>2, <2>1
    <3> QED BY ONLY <3>1, ConcatProperties
  <2> QED BY <1>1, <1>2, <2>1, <2>2
<1> DEFINE c == a \o <<e>>
<1> HIDE DEF c
<1>5. /\ c \o b \in Seq(S)
      /\ Len(c \o b) = Len(s) + 1
      /\ \A j \in 1 .. (Len(s) + 1) : (c \o b)[j] = IF j <= i THEN c[j] ELSE b[j - i]
  <2>1. c \in Seq(S) /\ Len(c) = i
    BY <1>4 DEF c
  <2>2. Len(c) + Len(b) = Len(s) + 1
    BY <1>1, <1>3, <2>1
  <2>3. /\ c \o b \in Seq(S) /\ Len(c \o b) = Len(c) + Len(b)
        /\ \A j \in 1 .. (Len(c) + Len(b)) :
             (c \o b)[j] = IF j <= Len(c) THEN c[j] ELSE b[j - Len(c)]
    <3>1. c \in Seq(S) /\ b \in Seq(S)
      BY <1>3, <2>1
    <3> QED BY ONLY <3>1, ConcatProperties
  <2> QED BY <2>1, <2>2, <2>3
<1>6. \A j \in 1 .. (Len(s) + 1) :
        (c \o b)[j] = IF j < i THEN s[j] ELSE IF j = i THEN e ELSE s[j - 1]
  <2>1. \A j \in 1 .. i : c[j] = IF j < i THEN s[j] ELSE e
    BY <1>4 DEF c
  <2>2. ASSUME NEW j \in 1 .. (Len(s) + 1)
        PROVE  (c \o b)[j] = IF j < i THEN s[j] ELSE IF j = i THEN e ELSE s[j - 1]
    <3>1. CASE j <= i
      <4>1. j \in 1 .. i /\ (c \o b)[j] = c[j]
        BY <1>1, <1>5, <3>1
      <4> QED BY <1>1, <2>1, <3>1, <4>1
    <3>2. CASE j > i
      <4>1. (c \o b)[j] = b[j - i] /\ j - i \in 1 .. (Len(s) - i + 1)
        BY <1>1, <1>5, <3>2
      <4>2. b[j - i] = s[i + (j - i) - 1] /\ i + (j - i) - 1 = j - 1
        BY <1>1, <1>3, <3>2, <4>1
      <4> QED BY <1>1, <3>2, <4>1, <4>2
    <3>3. j <= i \/ j > i
      BY <1>1
    <3> QED BY <3>1, <3>2, <3>3
  <2> QED BY <2>2
<1>7. InsertAt(s, i, e) = c \o b
  BY DEF InsertAt, a, b, c
<1> QED BY <1>5, <1>6, <1>7

\* Inserting a new element keeps a sequence injective.
LEMMA InsertAtSet ==
  ASSUME NEW S, NEW s \in Seq(S), NEW e \in S, NEW i \in 1 .. (Len(s) + 1),
         e \notin Range(s), IsInjective(s)
  PROVE  /\ Range(InsertAt(s, i, e)) = Range(s) \cup {e}
         /\ IsInjective(InsertAt(s, i, e))
<1> DEFINE t == InsertAt(s, i, e)
<1>1. /\ t \in Seq(S) /\ Len(t) = Len(s) + 1
      /\ \A j \in 1 .. (Len(s) + 1) :
           t[j] = IF j < i THEN s[j] ELSE IF j = i THEN e ELSE s[j - 1]
  BY InsertAtElements
<1>2. DOMAIN s = 1 .. Len(s) /\ DOMAIN t = 1 .. (Len(s) + 1) /\ Len(s) \in Nat
  BY <1>1
<1> HIDE DEF t
<1>3. \A j \in 1 .. Len(s) : s[j] \in Range(s)
  BY <1>2 DEF Range
<1>4. Range(t) \subseteq Range(s) \cup {e}
  <2>1. ASSUME NEW x \in Range(t) PROVE x \in Range(s) \cup {e}
    <3>1. PICK j \in 1 .. (Len(s) + 1) : t[j] = x
      BY <1>2 DEF Range
    <3>2. x = e \/ (j < i /\ x = s[j]) \/ (j > i /\ x = s[j - 1])
      BY <1>1, <1>2, <3>1
    <3> QED BY <1>2, <1>3, <3>1, <3>2
  <2> QED BY <2>1
<1>5. e \in Range(t)
  BY <1>1, <1>2 DEF Range
<1>6. ASSUME NEW x \in Range(s) PROVE x \in Range(t)
  <2>1. PICK j \in 1 .. Len(s) : s[j] = x
    BY <1>2 DEF Range
  <2>2. CASE j < i
    <3>1. t[j] = x /\ j \in DOMAIN t
      BY <1>1, <1>2, <2>1, <2>2
    <3> QED BY <3>1 DEF Range
  <2>3. CASE ~ (j < i)
    <3>1. t[j + 1] = x /\ j + 1 \in DOMAIN t
      BY <1>1, <1>2, <2>1, <2>3
    <3> QED BY <3>1 DEF Range
  <2> QED BY <2>2, <2>3
<1>7. ASSUME NEW j \in DOMAIN t, NEW k \in DOMAIN t, t[j] = t[k], j < k PROVE FALSE
  <2>1. j \in 1 .. (Len(s) + 1) /\ k \in 1 .. (Len(s) + 1)
    BY <1>2
  <2>2. CASE k < i
    BY <1>1, <1>2, <1>7, <2>1, <2>2 DEF IsInjective
  <2>3. CASE k = i
    BY <1>1, <1>2, <1>3, <1>7, <2>1, <2>3
  <2>4. CASE k > i /\ j < i
    BY <1>1, <1>2, <1>7, <2>1, <2>4 DEF IsInjective
  <2>5. CASE k > i /\ j = i
    BY <1>1, <1>2, <1>3, <1>7, <2>1, <2>5
  <2>6. CASE k > i /\ j > i
    BY <1>1, <1>2, <1>7, <2>1, <2>6 DEF IsInjective
  <2> QED BY <1>2, <2>1, <2>2, <2>3, <2>4, <2>5, <2>6
<1>8. IsInjective(t)
  BY <1>2, <1>7 DEF IsInjective
<1> QED BY <1>4, <1>5, <1>6, <1>8 DEF t

\* Removing the element at i from an injective sequence removes it altogether.
LEMMA RemoveAtSet ==
  ASSUME NEW S, NEW s \in Seq(S), NEW i \in 1 .. Len(s), IsInjective(s)
  PROVE  /\ Range(RemoveAt(s, i)) = Range(s) \ {s[i]}
         /\ IsInjective(RemoveAt(s, i))
<1> DEFINE t == RemoveAt(s, i)
<1>1. /\ t \in Seq(S) /\ Len(t) = Len(s) - 1
      /\ \A j \in 1 .. (Len(s) - 1) : t[j] = IF j < i THEN s[j] ELSE s[j + 1]
  BY RemoveAtElements
<1>2. DOMAIN s = 1 .. Len(s) /\ DOMAIN t = 1 .. (Len(s) - 1) /\ Len(s) \in Nat
  BY <1>1
<1> HIDE DEF t
<1>3. ASSUME NEW x \in Range(t) PROVE x \in Range(s) /\ x # s[i]
  <2>1. PICK j \in 1 .. (Len(s) - 1) : t[j] = x
    BY <1>2 DEF Range
  <2>2. PICK k \in 1 .. Len(s) : k # i /\ s[k] = x
    BY <1>1, <1>2, <2>1
  <2> QED BY <1>2, <2>2 DEF Range, IsInjective
<1>4. ASSUME NEW x \in Range(s), x # s[i] PROVE x \in Range(t)
  <2>1. PICK j \in 1 .. Len(s) : s[j] = x
    BY <1>2 DEF Range
  <2>2. CASE j < i
    <3>1. t[j] = x /\ j \in DOMAIN t
      BY <1>1, <1>2, <2>1, <2>2
    <3> QED BY <3>1 DEF Range
  <2>3. CASE j > i
    <3>1. t[j - 1] = x /\ j - 1 \in DOMAIN t
      BY <1>1, <1>2, <2>1, <2>3
    <3> QED BY <3>1 DEF Range
  <2> QED BY <1>2, <1>4, <2>1, <2>2, <2>3
<1>5. ASSUME NEW j \in DOMAIN t, NEW k \in DOMAIN t, t[j] = t[k] PROVE j = k
  <2>1. j \in 1 .. (Len(s) - 1) /\ k \in 1 .. (Len(s) - 1)
    BY <1>2
  <2>2. PICK m \in 1 .. Len(s) : t[j] = s[m] /\ m = (IF j < i THEN j ELSE j + 1)
    BY <1>1, <1>2, <2>1
  <2>3. PICK n \in 1 .. Len(s) : t[k] = s[n] /\ n = (IF k < i THEN k ELSE k + 1)
    BY <1>1, <1>2, <2>1
  <2>4. m = n
    BY <1>2, <1>5, <2>2, <2>3 DEF IsInjective
  <2> QED BY <2>1, <2>2, <2>3, <2>4
<1>6. IsInjective(t)
  BY <1>5 DEF IsInjective
<1> QED BY <1>3, <1>4, <1>6 DEF t

-----------------------------------------------------------------------------
(***************************************************************************)
(* The tree operations, for typing, and the tab-order operations.          *)
(***************************************************************************)

\* The BSP operations return sequences of the ids they are given.
LEMMA LayoutTyped ==
  ASSUME NEW P, NEW s \in Seq(P), NEW a, NEW b \in P
  PROVE  /\ insert_after(s, a, b) \in Seq(P)
         /\ remove(s, a) \in Seq(P)
         /\ a \in P => swap_ids(s, a, b) \in Seq(P)
<1>1. insert_after(s, a, b) \in Seq(P)
  <2>1. CASE a \in Range(s)
    <3>1. FirstIndex(s, a) + 1 \in 1 .. (Len(s) + 1)
      BY <2>1, FirstIndexProperty
    <3> QED BY <2>1, <3>1, InsertAtElements DEF insert_after
  <2>2. CASE a \notin Range(s)
    BY <2>2 DEF insert_after
  <2> QED BY <2>1, <2>2
<1>2. remove(s, a) \in Seq(P)
  <2>1. CASE a \in Range(s)
    <3>1. FirstIndex(s, a) \in 1 .. Len(s)
      BY <2>1, FirstIndexProperty
    <3> QED BY <3>1, RemoveAtElements DEF remove
  <2>2. CASE a \notin Range(s)
    BY <2>2 DEF remove
  <2> QED BY <2>1, <2>2
<1>3. ASSUME a \in P PROVE swap_ids(s, a, b) \in Seq(P)
  <2>1. swap_ids(s, a, b) \in [1 .. Len(s) -> P]
    BY <1>3 DEF swap_ids
  <2> QED BY <2>1
<1> QED BY <1>1, <1>2, <1>3

\* retain_other removes exactly one id from an order without repetition.
LEMMA RetainOther ==
  ASSUME NEW P, NEW s \in Seq(P), NEW x, IsInjective(s)
  PROVE  /\ retain_other(s, x) \in Seq(P)
         /\ Range(retain_other(s, x)) = Range(s) \ {x}
         /\ IsInjective(retain_other(s, x))
<1>1. CASE x \in Range(s)
  <2>1. FirstIndex(s, x) \in 1 .. Len(s) /\ s[FirstIndex(s, x)] = x
    BY <1>1, FirstIndexProperty
  <2> QED BY <1>1, <2>1, RemoveAtElements, RemoveAtSet DEF retain_other
<1>2. CASE x \notin Range(s)
  BY <1>2 DEF retain_other
<1> QED BY <1>1, <1>2

\* compute_insert_position never points past the end.
LEMMA InsertPosition ==
  ASSUME NEW len \in Nat, NEW r \in Nat \cup {NoPosition},
         NEW f \in Nat \cup {NoPosition}
  PROVE  compute_insert_position(len, r, f) + 1 \in 1 .. (len + 1)
BY DEF compute_insert_position, NoPosition

\* Appending a new id.
LEMMA AppendSet ==
  ASSUME NEW P, NEW s \in Seq(P), NEW e \in P, e \notin Range(s), IsInjective(s)
  PROVE  /\ Append(s, e) \in Seq(P)
         /\ Range(Append(s, e)) = Range(s) \cup {e}
         /\ IsInjective(Append(s, e))
<1> DEFINE t == Append(s, e)
<1>1. /\ t \in Seq(P) /\ Len(t) = Len(s) + 1
      /\ DOMAIN s = 1 .. Len(s) /\ DOMAIN t = 1 .. (Len(s) + 1) /\ Len(s) \in Nat
      /\ \A j \in 1 .. Len(s) : t[j] = s[j]
      /\ t[Len(s) + 1] = e
  OBVIOUS
<1> HIDE DEF t
<1>2. \A j \in 1 .. Len(s) : s[j] \in Range(s)
  BY <1>1 DEF Range
<1>3. ASSUME NEW x \in Range(t) PROVE x \in Range(s) \cup {e}
  BY <1>1, <1>2, <1>3 DEF Range
<1>4. ASSUME NEW x \in Range(s) PROVE x \in Range(t)
  BY <1>1, <1>4 DEF Range
<1>5. e \in Range(t)
  BY <1>1 DEF Range
<1>6. IsInjective(t)
  BY <1>1, <1>2 DEF IsInjective
<1> QED BY <1>1, <1>3, <1>4, <1>5, <1>6 DEF t

\* The listing has the elements of K in the order of their numbers.
IsListing(r, before, K, n) ==
  r = [i \in 1 .. n |-> CHOOSE id \in K : before[id] = i - 1]

\* The listing of a numbered set has every element once.
LEMMA ListByNumber ==
  ASSUME NEW K, NEW n \in Nat, NEW before, NEW r,
         IsNumbering(before, K, n), IsListing(r, before, K, n)
  PROVE  r \in Seq(K) /\ Range(r) = K /\ IsInjective(r)
<1>a. ASSUME NEW i \in 1 .. n PROVE r[i] \in K /\ before[r[i]] = i - 1
  <2>1. i - 1 \in 0 .. (n - 1)
    OBVIOUS
  <2>2. \E id \in K : before[id] = i - 1
    BY <2>1 DEF IsNumbering
  <2>3. r[i] = CHOOSE id \in K : before[id] = i - 1
    BY DEF IsListing
  <2> QED BY <2>2, <2>3, Zenon
<1>b. r \in [1 .. n -> K]
  BY <1>a DEF IsListing
<1>1. r \in Seq(K)
  BY <1>b
<1>2. DOMAIN r = 1 .. n /\ \A i \in 1 .. n : r[i] \in K
  BY <1>b
<1>3. ASSUME NEW i \in 1 .. n, NEW j \in 1 .. n, r[i] = r[j] PROVE i = j
  <2>1. i - 1 = j - 1
    BY <1>a, <1>3
  <2> QED BY <2>1
<1>4. ASSUME NEW id \in K PROVE id \in Range(r)
  <2>1. before[id] \in 0 .. (n - 1)
    BY DEF IsNumbering
  <2>2. before[id] + 1 \in 1 .. n /\ (before[id] + 1) - 1 = before[id]
    BY <2>1
  <2>3. PICK i \in 1 .. n : i - 1 = before[id]
    BY <2>2
  <2>4. r[i] \in K /\ before[r[i]] = before[id]
    BY <1>a, <2>3
  <2>5. r[i] = id
    BY <2>4 DEF IsNumbering
  <2> QED BY <1>2, <2>5 DEF Range
<1>5. Range(r) \subseteq K
  BY <1>2 DEF Range
<1>6. IsInjective(r)
  BY <1>2, <1>3 DEF IsInjective
<1> QED BY <1>1, <1>4, <1>5, <1>6

\* compute_reordered always returns a permutation of the known ids, whatever
\* ids the request names.
LEMMA ReorderedIsPermutation ==
  ASSUME NEW N \in Nat, NEW current \in Seq(1 .. N), NEW requested \in Seq(Nat),
         NEW known \in SUBSET (1 .. N)
  PROVE  /\ compute_reordered(current, requested, known) \in Seq(known)
         /\ Range(compute_reordered(current, requested, known)) = known
         /\ IsInjective(compute_reordered(current, requested, known))
<1> DEFINE
      n == Cardinality(known)
      rank == [id \in known |->
        IF id \in Range(requested) THEN FirstIndex(requested, id)
        ELSE IF id \in Range(current) THEN Len(requested) + FirstIndex(current, id)
        ELSE Len(requested) + Len(current) + id]
      before == [id \in known |-> Cardinality({x \in known : rank[x] < rank[id]})]
      r == [i \in 1 .. n |-> CHOOSE id \in known : before[id] = i - 1]
<1>1. compute_reordered(current, requested, known) = r
  BY DEF compute_reordered
<1> HIDE DEF r
<1> HIDE DEF before
<1>2. IsFiniteSet(1 .. N)
  BY FS_Interval
<1>3. IsFiniteSet(known)
  BY <1>2, FS_Subset
<1>4. n \in Nat
  BY <1>3, FS_CardinalityType
<1>5. \A id \in Range(requested) :
        FirstIndex(requested, id) \in 1 .. Len(requested)
        /\ requested[FirstIndex(requested, id)] = id
  BY FirstIndexProperty
<1>6. \A id \in Range(current) :
        FirstIndex(current, id) \in 1 .. Len(current)
        /\ current[FirstIndex(current, id)] = id
  BY FirstIndexProperty
<1>7. Len(requested) \in Nat /\ Len(current) \in Nat
  OBVIOUS
<1>8. \A id \in known : id \in Nat /\ id >= 1
  OBVIOUS
<1>9. \A id \in known :
        /\ id \in Range(requested) => rank[id] = FirstIndex(requested, id)
        /\ id \notin Range(requested) /\ id \in Range(current)
             => rank[id] = Len(requested) + FirstIndex(current, id)
        /\ id \notin Range(requested) /\ id \notin Range(current)
             => rank[id] = Len(requested) + Len(current) + id
  OBVIOUS
<1>10. DOMAIN rank = known /\ rank = [id \in known |-> rank[id]]
  OBVIOUS
<1> HIDE DEF rank
<1>11. ASSUME NEW id \in known PROVE rank[id] \in Nat
  <2>1. CASE id \in Range(requested)
    BY <2>1, <1>5, <1>7, <1>9
  <2>2. CASE id \notin Range(requested) /\ id \in Range(current)
    BY <2>2, <1>6, <1>7, <1>9
  <2>3. CASE id \notin Range(requested) /\ id \notin Range(current)
    BY <2>3, <1>7, <1>8, <1>9
  <2> QED
    BY <2>1, <2>2, <2>3
<1>12. rank \in [known -> Nat]
  BY <1>10, <1>11
<1>13. ASSUME NEW a \in known, NEW b \in known, rank[a] = rank[b] PROVE a = b
  <2>1. CASE a \in Range(requested) /\ b \in Range(requested)
    BY <1>5, <1>9, <1>13, <2>1
  <2>2. CASE a \notin Range(requested) /\ b \notin Range(requested)
    <3>1. CASE a \in Range(current) /\ b \in Range(current)
      <4>1. FirstIndex(current, a) = FirstIndex(current, b)
        BY <1>6, <1>7, <1>9, <1>13, <2>2, <3>1
      <4> QED BY <1>6, <3>1, <4>1
    <3>2. CASE a \notin Range(current) \/ b \notin Range(current)
      BY <1>6, <1>7, <1>8, <1>9, <1>13, <2>2, <3>2
    <3> QED BY <3>1, <3>2
  <2>3. CASE a \in Range(requested) /\ b \notin Range(requested)
    BY <1>5, <1>6, <1>7, <1>8, <1>9, <1>13, <2>3
  <2>4. CASE a \notin Range(requested) /\ b \in Range(requested)
    BY <1>5, <1>6, <1>7, <1>8, <1>9, <1>13, <2>4
  <2> QED BY <2>1, <2>2, <2>3, <2>4
<1>14. IsRanking(rank, known)
  BY <1>12, <1>13 DEF IsRanking
<1>15. CountsBelow(before, rank, known)
  BY DEF before, CountsBelow
<1>16. IsListing(r, before, known, n)
  BY DEF r, IsListing
<1>17. IsNumbering(before, known, n)
  BY <1>3, <1>14, <1>15, CountBelow
<1>18. r \in Seq(known) /\ Range(r) = known /\ IsInjective(r)
  BY <1>4, <1>16, <1>17, ListByNumber
<1> QED BY <1>1, <1>18

-----------------------------------------------------------------------------
(***************************************************************************)
(* The operations preserve WellFormed, and gain no pane but the new one.   *)
(***************************************************************************)

\* A set with more than one element has another element than x.
LEMMA AnotherOne ==
  ASSUME NEW S, NEW x, Cardinality(S) > 1
  PROVE  S \ {x} # {}
<1>1. SUFFICES ASSUME S \ {x} = {} PROVE FALSE
  OBVIOUS
<1>2. S = {} \/ S = {x}
  BY <1>1
<1>3. Cardinality({}) = 0 /\ Cardinality({x}) = 1
  BY FS_EmptySet, FS_Singleton
<1> QED BY <1>2, <1>3

\* A window with a single pane.
LEMMA NewWindowWellFormed ==
  ASSUME NEW P, NEW p \in P
  PROVE  WellFormed(NewWindow(p), P) /\ Owned(NewWindow(p)) = {p}
<1>1. <<p>> \in Seq(P) /\ Range(<<p>>) = {p} /\ IsInjective(<<p>>)
  BY DEF Range, IsInjective
<1> QED BY <1>1 DEF NewWindow, WellFormed, WindowOver, pane_ids, Owned

\* Splitting the focused pane.
LEMMA AddPaneWellFormed ==
  ASSUME NEW P, NEW w, WellFormed(w, P), NEW new \in P, new \notin Owned(w)
  PROVE  WellFormed(add_pane(w, new), P) /\ Owned(add_pane(w, new)) \subseteq Owned(w) \cup {new}
<1>1. CASE w.focus \notin Range(w.layout)
  BY <1>1 DEF add_pane
<1>2. CASE w.focus \in Range(w.layout)
  <2>1. insert_after(w.layout, w.focus, new) \in Seq(P)
    BY LayoutTyped DEF WellFormed, WindowOver
  <2>2. /\ Append(w.order, new) \in Seq(P)
        /\ Range(Append(w.order, new)) = Range(w.order) \cup {new}
        /\ IsInjective(Append(w.order, new))
    BY AppendSet DEF WellFormed, WindowOver, Owned
  <2> DEFINE v == add_pane(w, new)
  <2>3. /\ v \in WindowOver(P) /\ v.panes = w.panes \cup {new} /\ v.serial = w.serial
        /\ v.floating = w.floating /\ v.focus = new /\ v.order = Append(w.order, new)
    <3>1. w \in WindowOver(P)
      BY DEF WellFormed
    <3> QED BY <1>2, <2>1, <2>2, <3>1 DEF add_pane, WindowOver
  <2> HIDE DEF v
  <2>4. WellFormed(v, P) /\ Owned(v) \subseteq Owned(w) \cup {new}
    BY <2>2, <2>3 DEF WellFormed, pane_ids, Owned
  <2> QED BY <2>4 DEF v
<1> QED BY <1>1, <1>2

\* A shell that does not start leaves a leaf behind, and nothing else.
LEMMA SpawnFailedWellFormed ==
  ASSUME NEW P, NEW w, WellFormed(w, P), NEW new \in P
  PROVE  /\ WellFormed(add_pane_spawn_failed(w, new), P)
         /\ Owned(add_pane_spawn_failed(w, new)) = Owned(w)
<1>1. insert_after(w.layout, w.focus, new) \in Seq(P)
  BY LayoutTyped DEF WellFormed, WindowOver
<1> QED BY <1>1 DEF add_pane_spawn_failed, WellFormed, WindowOver, pane_ids, Owned

\* Opening a serial pane.
LEMMA AddSerialWellFormed ==
  ASSUME NEW P, NEW w, WellFormed(w, P), NEW new \in P, new \notin Owned(w)
  PROVE  /\ WellFormed(add_serial_pane(w, new), P)
         /\ Owned(add_serial_pane(w, new)) \subseteq Owned(w) \cup {new}
<1>1. insert_after(w.layout, w.focus, new) \in Seq(P)
  BY LayoutTyped DEF WellFormed, WindowOver
<1>2. /\ Append(w.order, new) \in Seq(P)
      /\ Range(Append(w.order, new)) = Range(w.order) \cup {new}
      /\ IsInjective(Append(w.order, new))
  BY AppendSet DEF WellFormed, WindowOver, Owned
<1> DEFINE v == add_serial_pane(w, new)
<1>3. /\ v \in WindowOver(P) /\ v.panes = w.panes /\ v.serial = w.serial \cup {new}
      /\ v.floating = w.floating /\ v.focus = new /\ v.order = Append(w.order, new)
  <2>1. w \in WindowOver(P)
    BY DEF WellFormed
  <2> QED BY <1>1, <1>2, <2>1 DEF add_serial_pane, WindowOver
<1> HIDE DEF v
<1>4. WellFormed(v, P) /\ Owned(v) \subseteq Owned(w) \cup {new}
  BY <1>2, <1>3 DEF WellFormed, pane_ids, Owned
<1> QED BY <1>4 DEF v

\* Moving the focus within the window.
LEMMA FocusWellFormed ==
  ASSUME NEW N \in Nat, NEW w, WellFormed(w, 1 .. N), NEW p
  PROVE  /\ WellFormed(set_focused_pane(w, p), 1 .. N) /\ Owned(set_focused_pane(w, p)) = Owned(w)
         /\ WellFormed(focus_next(w), 1 .. N) /\ Owned(focus_next(w)) = Owned(w)
         /\ WellFormed(focus_prev(w), 1 .. N) /\ Owned(focus_prev(w)) = Owned(w)
<1>1. ASSUME NEW q \in w.panes
      PROVE  /\ WellFormed([w EXCEPT !.focus = q], 1 .. N)
             /\ Owned([w EXCEPT !.focus = q]) = Owned(w)
  BY DEF WellFormed, WindowOver, pane_ids, Owned
<1>2. ASSUME NEW T \in SUBSET w.panes, T # {} PROVE Min(T) \in w.panes /\ Max(T) \in w.panes
  <2>1. T \in SUBSET (1 .. N) /\ T \in SUBSET Nat
    BY DEF WellFormed, WindowOver
  <2> QED BY <1>2, <2>1, MinProperty, MaxProperty
<1>3. w.panes # {}
  BY DEF WellFormed
<1>4. WellFormed(focus_next(w), 1 .. N) /\ Owned(focus_next(w)) = Owned(w)
  <2> DEFINE above == {q \in w.panes : q > w.focus}
             q == Min(IF above # {} THEN above ELSE w.panes)
  <2>1. q \in w.panes
    BY <1>2, <1>3
  <2>2. focus_next(w) = w \/ focus_next(w) = [w EXCEPT !.focus = q]
    BY DEF focus_next
  <2> HIDE DEF q
  <2> QED BY <1>1, <2>1, <2>2
<1>5. WellFormed(focus_prev(w), 1 .. N) /\ Owned(focus_prev(w)) = Owned(w)
  <2> DEFINE below == {q \in w.panes : q < w.focus}
             q == Max(IF below # {} THEN below ELSE w.panes)
  <2>1. q \in w.panes
    BY <1>2, <1>3
  <2>2. focus_prev(w) = w \/ focus_prev(w) = [w EXCEPT !.focus = q]
    BY DEF focus_prev
  <2> HIDE DEF q
  <2> QED BY <1>1, <2>1, <2>2
<1>6. WellFormed(set_focused_pane(w, p), 1 .. N) /\ Owned(set_focused_pane(w, p)) = Owned(w)
  BY <1>1 DEF set_focused_pane
<1> QED BY <1>4, <1>5, <1>6

\* Closing the focused pane: it is gone, and the focus is on a PTY pane.
LEMMA RemoveFocusedWellFormed ==
  ASSUME NEW N \in Nat, NEW w, WellFormed(w, 1 .. N), can_remove_focused_pane(w)
  PROVE  /\ WellFormed(remove_focused_pane(w), 1 .. N)
         /\ Owned(remove_focused_pane(w)) \subseteq Owned(w)
<1> DEFINE v == remove_focused_pane(w)
<1>1. w \in WindowOver(1 .. N)
  BY DEF WellFormed
<1>2. /\ retain_other(w.order, w.focus) \in Seq(1 .. N)
      /\ Range(retain_other(w.order, w.focus)) = Range(w.order) \ {w.focus}
      /\ IsInjective(retain_other(w.order, w.focus))
  BY RetainOther DEF WellFormed, WindowOver
<1>3. remove(w.layout, w.focus) \in Seq(1 .. N)
  BY LayoutTyped DEF WellFormed, WindowOver
<1>4. w.panes \ {w.focus} # {}
  BY AnotherOne DEF can_remove_focused_pane
<1>5. Min(w.panes \ {w.focus}) \in w.panes \ {w.focus}
  <2>1. w.panes \ {w.focus} \in SUBSET Nat
    BY <1>1 DEF WindowOver
  <2> QED BY <1>4, <2>1, MinProperty
<1>6. /\ v \in WindowOver(1 .. N) /\ v.panes = w.panes \ {w.focus}
      /\ v.serial = w.serial \ {w.focus} /\ v.floating = w.floating
      /\ v.focus = Min(w.panes \ {w.focus}) /\ v.order = retain_other(w.order, w.focus)
  BY <1>1, <1>2, <1>3, <1>5 DEF remove_focused_pane, WindowOver
<1> HIDE DEF v
<1>7. WellFormed(v, 1 .. N) /\ Owned(v) \subseteq Owned(w)
  BY <1>2, <1>4, <1>5, <1>6 DEF WellFormed, pane_ids, Owned
<1> QED BY <1>7 DEF v

\* Taking a PTY pane that is not the last: the window gives it up, and only it.
LEMMA TakeByIdWellFormed ==
  ASSUME NEW N \in Nat, NEW w, WellFormed(w, 1 .. N), NEW p, can_take_pane_by_id(w, p)
  PROVE  /\ WellFormed(take_pane_by_id(w, p), 1 .. N)
         /\ Owned(take_pane_by_id(w, p)) = Owned(w) \ {p}
         /\ p \in Owned(w)
<1> DEFINE v == take_pane_by_id(w, p)
<1>1. w \in WindowOver(1 .. N)
  BY DEF WellFormed
<1>2. /\ retain_other(w.order, p) \in Seq(1 .. N)
      /\ Range(retain_other(w.order, p)) = Range(w.order) \ {p}
      /\ IsInjective(retain_other(w.order, p))
  BY RetainOther DEF WellFormed, WindowOver
<1>3. remove(w.layout, p) \in Seq(1 .. N)
  <2>1. w.focus \in 1 .. N /\ w.layout \in Seq(1 .. N)
    BY <1>1 DEF WindowOver
  <2> QED BY <2>1, LayoutTyped
<1>4. w.panes \ {p} # {}
  BY AnotherOne DEF can_take_pane_by_id
<1>5. Min(w.panes \ {p}) \in w.panes \ {p}
  <2>1. w.panes \ {p} \in SUBSET Nat
    BY <1>1 DEF WindowOver
  <2> QED BY <1>4, <2>1, MinProperty
<1>6. /\ v \in WindowOver(1 .. N) /\ v.panes = w.panes \ {p}
      /\ v.serial = w.serial /\ v.floating = w.floating
      /\ v.focus = (IF w.focus = p THEN Min(w.panes \ {p}) ELSE w.focus)
      /\ v.order = retain_other(w.order, p)
  BY <1>1, <1>2, <1>3, <1>5 DEF take_pane_by_id, WindowOver
<1> HIDE DEF v
<1>7. p \in w.panes /\ p \notin w.serial
  BY DEF can_take_pane_by_id
<1>8. WellFormed(v, 1 .. N) /\ Owned(v) = Owned(w) \ {p} /\ p \in Owned(w)
  BY <1>2, <1>4, <1>5, <1>6, <1>7 DEF WellFormed, pane_ids, Owned
<1> QED BY <1>8 DEF v

\* Taking the focused pane is taking it by its id.
LEMMA TakeFocusedIsById ==
  ASSUME NEW N \in Nat, NEW w, WellFormed(w, 1 .. N), can_take_focused_pane(w)
  PROVE  /\ can_take_pane_by_id(w, w.focus)
         /\ take_focused_pane(w) = take_pane_by_id(w, w.focus)
<1>1. w \in WindowOver(1 .. N)
  BY DEF WellFormed
<1>2. can_take_pane_by_id(w, w.focus)
  BY DEF can_take_focused_pane, can_take_pane_by_id
<1>3. Cardinality(w.panes) \in Nat
  <2>1. w.panes \in SUBSET (1 .. N) /\ IsFiniteSet(1 .. N)
    BY <1>1, FS_Interval DEF WindowOver
  <2>2. IsFiniteSet(w.panes)
    BY <2>1, FS_Subset
  <2> QED BY <2>2, FS_CardinalityType
<1>4. ~ (Cardinality(w.panes) <= 1)
  BY <1>3 DEF can_take_focused_pane
<1> QED BY <1>1, <1>2, <1>4 DEF take_focused_pane, take_pane_by_id, WindowOver

\* Taking the focused pane is taking it by id; a refusal costs at most a leaf.
LEMMA TakeFocusedWellFormed ==
  ASSUME NEW N \in Nat, NEW w, WellFormed(w, 1 .. N)
  PROVE  /\ WellFormed(take_focused_pane(w), 1 .. N)
         /\ Owned(take_focused_pane(w)) \subseteq Owned(w)
         /\ can_take_focused_pane(w) =>
              /\ w.focus \in Owned(w)
              /\ Owned(take_focused_pane(w)) = Owned(w) \ {w.focus}
<1>1. w \in WindowOver(1 .. N)
  BY DEF WellFormed
<1>2. CASE can_take_focused_pane(w)
  BY <1>2, TakeFocusedIsById, TakeByIdWellFormed
<1>3. CASE ~ can_take_focused_pane(w)
  <2> DEFINE v == [w EXCEPT !.layout = remove(w.layout, w.focus)]
  <2>1. remove(w.layout, w.focus) \in Seq(1 .. N)
    BY LayoutTyped DEF WellFormed, WindowOver
  <2>2. /\ v \in WindowOver(1 .. N) /\ v.panes = w.panes /\ v.serial = w.serial
        /\ v.floating = w.floating /\ v.focus = w.focus /\ v.order = w.order
    BY <1>1, <2>1 DEF WindowOver
  <2>3. take_focused_pane(w) = w \/ take_focused_pane(w) = v
    BY <1>3 DEF take_focused_pane
  <2> HIDE DEF v
  <2>4. WellFormed(v, 1 .. N) /\ Owned(v) = Owned(w)
    BY <2>2 DEF WellFormed, pane_ids, Owned
  <2> QED BY <1>3, <2>3, <2>4
<1> QED BY <1>2, <1>3

\* A pane that arrives from another window.
LEMMA InsertPaneWellFormed ==
  ASSUME NEW N \in Nat, NEW w, WellFormed(w, 1 .. N), NEW new \in 1 .. N,
         new \notin Owned(w), NEW position \in Nat \cup {NoPosition}
  PROVE  /\ WellFormed(insert_pane_at(w, new, position), 1 .. N)
         /\ Owned(insert_pane_at(w, new, position)) = Owned(w) \cup {new}
<1> DEFINE v  == insert_pane_at(w, new, position)
           at == compute_insert_position(Len(w.order), position, PositionOf(w.order, new))
           o  == InsertAt(w.order, at + 1, new)
<1>1. w \in WindowOver(1 .. N)
  BY DEF WellFormed
<1>2. w.order \in Seq(1 .. N) /\ new \notin Range(w.order) /\ IsInjective(w.order)
  BY <1>1 DEF WellFormed, WindowOver, Owned
<1>3. at + 1 \in 1 .. (Len(w.order) + 1)
  <2>1. PositionOf(w.order, new) \in Nat \cup {NoPosition}
    BY <1>2 DEF PositionOf
  <2>2. Len(w.order) \in Nat
    BY <1>2
  <2> QED BY <2>1, <2>2, InsertPosition
<1> HIDE DEF at
<1>4. o \in Seq(1 .. N) /\ Range(o) = Range(w.order) \cup {new} /\ IsInjective(o)
  <2>1. PICK s \in Seq(1 .. N) : s = w.order
    BY <1>2
  <2>2. PICK k \in 1 .. (Len(s) + 1) : k = at + 1
    BY <1>3, <2>1
  <2>3. InsertAt(s, k, new) \in Seq(1 .. N)
    BY InsertAtElements
  <2>4. Range(InsertAt(s, k, new)) = Range(s) \cup {new} /\ IsInjective(InsertAt(s, k, new))
    <3>1. new \notin Range(s) /\ IsInjective(s)
      BY <1>2, <2>1
    <3> QED BY <3>1, InsertAtSet
  <2> QED BY <2>1, <2>2, <2>3, <2>4
<1>5. insert_after(w.layout, w.focus, new) \in Seq(1 .. N)
  BY <1>1, LayoutTyped DEF WindowOver
<1> HIDE DEF o
<1>6. /\ v \in WindowOver(1 .. N) /\ v.panes = w.panes \cup {new} /\ v.serial = w.serial
      /\ v.floating = w.floating /\ v.focus = new /\ v.order = o
  <2>1. v = [w EXCEPT !.layout = insert_after(w.layout, w.focus, new),
                      !.panes = w.panes \cup {new}, !.focus = new, !.order = o]
    BY <1>1 DEF insert_pane_at, at, o, WindowOver
  <2> HIDE DEF v
  <2> QED BY <1>1, <1>4, <1>5, <2>1 DEF WindowOver
<1> HIDE DEF v
<1>7. WellFormed(v, 1 .. N) /\ Owned(v) = Owned(w) \cup {new}
  BY <1>4, <1>6 DEF WellFormed, pane_ids, Owned
<1> QED BY <1>7 DEF v

\* A ReorderPanes request, whatever ids it names.
LEMMA ReorderWellFormed ==
  ASSUME NEW N \in Nat, NEW w, WellFormed(w, 1 .. N), NEW requested \in Seq(Nat)
  PROVE  /\ WellFormed(reorder_panes(w, requested), 1 .. N)
         /\ Owned(reorder_panes(w, requested)) = Owned(w)
<1> DEFINE v == reorder_panes(w, requested)
           o == compute_reordered(w.order, requested, pane_ids(w))
<1>1. w \in WindowOver(1 .. N)
  BY DEF WellFormed
<1>2. w.order \in Seq(1 .. N) /\ pane_ids(w) \in SUBSET (1 .. N)
  BY <1>1 DEF WindowOver, pane_ids
<1>3. o \in Seq(pane_ids(w)) /\ Range(o) = pane_ids(w) /\ IsInjective(o)
  BY <1>2, ReorderedIsPermutation
<1>4. o \in Seq(1 .. N)
  BY <1>2, <1>3
<1> HIDE DEF o
<1>5. v = [w EXCEPT !.order = o]
  BY DEF reorder_panes, o
<1> HIDE DEF v
<1>6. /\ v \in WindowOver(1 .. N) /\ v.panes = w.panes /\ v.serial = w.serial
      /\ v.floating = w.floating /\ v.focus = w.focus /\ v.order = o
  BY <1>1, <1>4, <1>5 DEF WindowOver
<1>7. WellFormed(v, 1 .. N) /\ Owned(v) = Owned(w)
  BY <1>3, <1>6 DEF WellFormed, pane_ids, Owned
<1> QED BY <1>7 DEF v

\* SwapPane exchanges leaves only.
LEMMA SwapWellFormed ==
  ASSUME NEW N \in Nat, NEW w, WellFormed(w, 1 .. N), NEW target \in 1 .. N
  PROVE  /\ WellFormed(swap_focused_with(w, target), 1 .. N)
         /\ Owned(swap_focused_with(w, target)) = Owned(w)
<1> DEFINE v == [w EXCEPT !.layout = swap_ids(w.layout, w.focus, target)]
<1>1. w \in WindowOver(1 .. N)
  BY DEF WellFormed
<1>2. swap_ids(w.layout, w.focus, target) \in Seq(1 .. N)
  BY <1>1, LayoutTyped DEF WindowOver
<1>3. /\ v \in WindowOver(1 .. N) /\ v.panes = w.panes /\ v.serial = w.serial
      /\ v.floating = w.floating /\ v.focus = w.focus /\ v.order = w.order
  BY <1>1, <1>2 DEF WindowOver
<1>4. swap_focused_with(w, target) = w \/ swap_focused_with(w, target) = v
  BY DEF swap_focused_with
<1> HIDE DEF v
<1>5. WellFormed(v, 1 .. N) /\ Owned(v) = Owned(w)
  BY <1>3 DEF WellFormed, pane_ids, Owned
<1> QED BY <1>4, <1>5

\* Floating panes are added and removed in their own map.
LEMMA FloatingWellFormed ==
  ASSUME NEW P, NEW w, WellFormed(w, P), NEW p \in P
  PROVE  /\ p \notin Owned(w) =>
              /\ WellFormed(open_floating_pane(w, p), P)
              /\ Owned(open_floating_pane(w, p)) \subseteq Owned(w) \cup {p}
         /\ WellFormed(close_floating_pane(w, p), P)
         /\ Owned(close_floating_pane(w, p)) \subseteq Owned(w)
<1> DEFINE u == open_floating_pane(w, p)
           v == close_floating_pane(w, p)
<1>1. w \in WindowOver(P)
  BY DEF WellFormed
<1>2. /\ u \in WindowOver(P) /\ u.panes = w.panes /\ u.serial = w.serial
      /\ u.floating = w.floating \cup {p} /\ u.focus = w.focus /\ u.order = w.order
  BY <1>1 DEF open_floating_pane, WindowOver
<1>3. /\ v \in WindowOver(P) /\ v.panes = w.panes /\ v.serial = w.serial
      /\ v.floating = w.floating \ {p} /\ v.focus = w.focus /\ v.order = w.order
  BY <1>1 DEF close_floating_pane, WindowOver
<1> HIDE DEF u, v
<1>4. p \notin Owned(w) => WellFormed(u, P) /\ Owned(u) \subseteq Owned(w) \cup {p}
  BY <1>2 DEF WellFormed, pane_ids, Owned
<1>5. WellFormed(v, P) /\ Owned(v) \subseteq Owned(w)
  BY <1>3 DEF WellFormed, pane_ids, Owned
<1> QED BY <1>4, <1>5 DEF u, v

-----------------------------------------------------------------------------
(***************************************************************************)
(* The leaves of the tree.  A window is planted when each of its panes has *)
(* one leaf and no floating pane has one, and a window without bare leaves *)
(* has no other: `e` says whether that is asked.  Every operation keeps a  *)
(* window planted but a swap with a pane of another window and the refusal *)
(* of a serial pane, and none but a failed spawn makes a bare leaf.        *)
(***************************************************************************)

Planted(w, e) ==
  /\ IsInjective(w.layout)
  /\ pane_ids(w) \subseteq Range(w.layout)
  /\ Range(w.layout) \cap w.floating = {}
  /\ e => Range(w.layout) \subseteq pane_ids(w)

\* The ids a window holds, in its tree and floating: those it owns, and the
\* bare leaves.
Held(w) == Range(w.layout) \cup w.floating

\* A leaf for a new pane next to one that is there.
LEMMA InsertAfterSet ==
  ASSUME NEW P, NEW s \in Seq(P), IsInjective(s), NEW a \in Range(s),
         NEW e \in P, e \notin Range(s)
  PROVE  Range(insert_after(s, a, e)) = Range(s) \cup {e} /\ IsInjective(insert_after(s, a, e))
<1>1. FirstIndex(s, a) \in 1 .. Len(s)
  BY FirstIndexProperty
<1>2. PICK k \in 1 .. (Len(s) + 1) : k = FirstIndex(s, a) + 1
  BY <1>1
<1>3. Range(InsertAt(s, k, e)) = Range(s) \cup {e} /\ IsInjective(InsertAt(s, k, e))
  BY InsertAtSet
<1> QED BY <1>2, <1>3 DEF insert_after

\* The leaf of a pane that is not the only one.
LEMMA RemoveSet ==
  ASSUME NEW P, NEW s \in Seq(P), IsInjective(s), NEW a \in Range(s), Range(s) \ {a} # {}
  PROVE  Range(remove(s, a)) = Range(s) \ {a} /\ IsInjective(remove(s, a))
<1>1. FirstIndex(s, a) \in 1 .. Len(s) /\ s[FirstIndex(s, a)] = a
  BY FirstIndexProperty
<1>2. PICK k \in 1 .. Len(s) : k = FirstIndex(s, a)
  BY <1>1
<1>3. Range(RemoveAt(s, k)) = Range(s) \ {s[k]} /\ IsInjective(RemoveAt(s, k))
  BY RemoveAtSet
<1>4. Len(s) > 1
  <2>1. PICK b \in Range(s) : b # a
    OBVIOUS
  <2>2. PICK i \in 1 .. Len(s), j \in 1 .. Len(s) : s[i] = a /\ s[j] = b
    BY DEF Range
  <2>3. i # j /\ Len(s) \in Nat
    BY <2>1, <2>2
  <2> QED BY <2>3
<1> QED BY <1>1, <1>2, <1>3, <1>4 DEF remove

\* Two leaves of the tree change places.
LEMMA SwapSet ==
  ASSUME NEW P, NEW s \in Seq(P), IsInjective(s), NEW a \in Range(s), NEW b \in Range(s)
  PROVE  Range(swap_ids(s, a, b)) = Range(s) /\ IsInjective(swap_ids(s, a, b))
<1> DEFINE t == swap_ids(s, a, b)
<1>1. /\ DOMAIN t = DOMAIN s
      /\ \A i \in DOMAIN s : t[i] = IF s[i] = a THEN b ELSE IF s[i] = b THEN a ELSE s[i]
  BY DEF swap_ids
<1> HIDE DEF t
<1>2. PICK i \in DOMAIN s, j \in DOMAIN s : s[i] = a /\ s[j] = b
  BY DEF Range
<1>3. t[i] = b /\ t[j] = a
  BY <1>1, <1>2
<1>4. \A k \in DOMAIN s : \E m \in DOMAIN s : t[m] = s[k]
  <2> TAKE k \in DOMAIN s
  <2>1. CASE s[k] = a
    BY <1>3, <2>1
  <2>2. CASE s[k] = b
    BY <1>3, <2>2
  <2>3. CASE s[k] # a /\ s[k] # b
    BY <1>1, <2>3
  <2> QED BY <2>1, <2>2, <2>3
<1>5. \A k \in DOMAIN s : t[k] \in Range(s)
  BY <1>1 DEF Range
<1>6. Range(t) = Range(s)
  <2>1. ASSUME NEW x \in Range(s) PROVE x \in Range(t)
    <3>1. PICK k \in DOMAIN s : s[k] = x
      BY DEF Range
    <3>2. PICK m \in DOMAIN s : t[m] = s[k]
      BY <1>4
    <3> QED BY <1>1, <3>1, <3>2 DEF Range
  <2>2. ASSUME NEW x \in Range(t) PROVE x \in Range(s)
    <3>1. PICK k \in DOMAIN s : t[k] = x
      BY <1>1 DEF Range
    <3> QED BY <1>5, <3>1
  <2> QED BY <2>1, <2>2
<1>7. IsInjective(t)
  <2>1. \A k, m \in DOMAIN s : s[k] = s[m] => k = m
    BY DEF IsInjective
  <2>2. \A k, m \in DOMAIN s : t[k] = t[m] => s[k] = s[m]
    BY <1>1
  <2> QED BY <1>1, <2>1, <2>2 DEF IsInjective
<1> QED BY <1>6, <1>7 DEF t

LEMMA NewWindowPlanted ==
  ASSUME NEW p, NEW e
  PROVE  Planted(NewWindow(p), e) /\ Held(NewWindow(p)) = {p}
<1>1. Range(<<p>>) = {p} /\ IsInjective(<<p>>)
  BY DEF Range, IsInjective
<1> QED BY <1>1 DEF NewWindow, Planted, Held, pane_ids

\* A window that gets a leaf next to the focus, with a pane for it or without.
LEMMA LeafAdded ==
  ASSUME NEW P, NEW w, WellFormed(w, P), NEW e \in BOOLEAN, Planted(w, e),
         NEW new \in P, new \notin Held(w), NEW v, NEW e2 \in BOOLEAN,
         v.layout = insert_after(w.layout, w.focus, new), v.floating = w.floating,
         pane_ids(w) \subseteq pane_ids(v), pane_ids(v) \subseteq pane_ids(w) \cup {new},
         e2 => e /\ new \in pane_ids(v)
  PROVE  Planted(v, e2) /\ Held(v) = Held(w) \cup {new}
<1>1. w.layout \in Seq(P) /\ w.focus \in Range(w.layout) /\ new \notin Range(w.layout)
  BY DEF Planted, WellFormed, WindowOver, Held
<1>2. Range(v.layout) = Range(w.layout) \cup {new} /\ IsInjective(v.layout)
  BY <1>1, InsertAfterSet DEF Planted
<1> QED BY <1>2 DEF Planted, Held

LEMMA SplitPlanted ==
  ASSUME NEW N \in Nat, NEW w, WellFormed(w, 1 .. N), NEW e \in BOOLEAN, Planted(w, e),
         NEW new \in 1 .. N, new \notin Held(w)
  PROVE  /\ Planted(add_pane(w, new), e) /\ Held(add_pane(w, new)) = Held(w) \cup {new}
         /\ Planted(add_serial_pane(w, new), e)
         /\ Held(add_serial_pane(w, new)) = Held(w) \cup {new}
<1>1. w \in WindowOver(1 .. N) /\ w.focus \in Range(w.layout)
  BY DEF Planted, WellFormed
<1> DEFINE l == insert_after(w.layout, w.focus, new)
<1>2. /\ add_pane(w, new).layout = l /\ add_pane(w, new).floating = w.floating
      /\ pane_ids(add_pane(w, new)) = pane_ids(w) \cup {new}
  BY <1>1 DEF add_pane, WindowOver, pane_ids
<1>3. /\ add_serial_pane(w, new).layout = l /\ add_serial_pane(w, new).floating = w.floating
      /\ pane_ids(add_serial_pane(w, new)) = pane_ids(w) \cup {new}
  BY <1>1 DEF add_serial_pane, WindowOver, pane_ids
<1> HIDE DEF l
<1>4. Planted(add_pane(w, new), e) /\ Held(add_pane(w, new)) = Held(w) \cup {new}
  BY <1>2, LeafAdded DEF l
<1>5. /\ Planted(add_serial_pane(w, new), e)
      /\ Held(add_serial_pane(w, new)) = Held(w) \cup {new}
  BY <1>3, LeafAdded DEF l
<1> QED BY <1>4, <1>5

LEMMA BareLeafPlanted ==
  ASSUME NEW N \in Nat, NEW w, WellFormed(w, 1 .. N), NEW e \in BOOLEAN, Planted(w, e),
         NEW new \in 1 .. N, new \notin Held(w), NEW e2 \in BOOLEAN, ~ e2
  PROVE  /\ Planted(add_pane_spawn_failed(w, new), e2)
         /\ Held(add_pane_spawn_failed(w, new)) = Held(w) \cup {new}
<1>1. w \in WindowOver(1 .. N)
  BY DEF WellFormed
<1> DEFINE v == add_pane_spawn_failed(w, new)
<1>2. /\ v.layout = insert_after(w.layout, w.focus, new) /\ v.floating = w.floating
      /\ pane_ids(v) = pane_ids(w)
  BY <1>1 DEF add_pane_spawn_failed, WindowOver, pane_ids
<1> HIDE DEF v
<1>3. Planted(v, e2) /\ Held(v) = Held(w) \cup {new}
  BY <1>2, LeafAdded
<1> QED BY <1>3 DEF v

\* A pane that is not the only one goes, and its leaf with it.
LEMMA LeafRemoved ==
  ASSUME NEW P, NEW w, WellFormed(w, P), NEW e \in BOOLEAN, Planted(w, e),
         NEW p \in pane_ids(w), pane_ids(w) \ {p} # {}, NEW v,
         v.layout = remove(w.layout, p), v.floating = w.floating,
         pane_ids(v) = pane_ids(w) \ {p}
  PROVE  Planted(v, e) /\ Held(v) = Held(w) \ {p}
<1>1. w.layout \in Seq(P) /\ p \in Range(w.layout) /\ Range(w.layout) \ {p} # {}
  BY DEF Planted, WellFormed, WindowOver
<1>2. Range(v.layout) = Range(w.layout) \ {p} /\ IsInjective(v.layout)
  BY <1>1, RemoveSet DEF Planted
<1> QED BY <1>1, <1>2 DEF Planted, Held

LEMMA TakeByIdPlanted ==
  ASSUME NEW N \in Nat, NEW w, WellFormed(w, 1 .. N), NEW e \in BOOLEAN, Planted(w, e),
         NEW p, can_take_pane_by_id(w, p)
  PROVE  /\ Planted(take_pane_by_id(w, p), e)
         /\ Held(take_pane_by_id(w, p)) = Held(w) \ {p} /\ p \in Held(w)
<1> DEFINE v == take_pane_by_id(w, p)
<1>1. w \in WindowOver(1 .. N) /\ p \in w.panes /\ p \notin w.serial
  BY DEF WellFormed, can_take_pane_by_id
<1>2. p \in pane_ids(w) /\ pane_ids(w) \ {p} # {}
  BY <1>1, AnotherOne DEF can_take_pane_by_id, pane_ids
<1>3. /\ v.layout = remove(w.layout, p) /\ v.floating = w.floating
      /\ pane_ids(v) = pane_ids(w) \ {p}
  BY <1>1 DEF take_pane_by_id, WindowOver, pane_ids
<1> HIDE DEF v
<1>4. Planted(v, e) /\ Held(v) = Held(w) \ {p}
  BY <1>2, <1>3, LeafRemoved
<1> QED BY <1>2, <1>4 DEF v, Held, Planted

LEMMA RemoveFocusedPlanted ==
  ASSUME NEW N \in Nat, NEW w, WellFormed(w, 1 .. N), NEW e \in BOOLEAN, Planted(w, e),
         can_remove_focused_pane(w)
  PROVE  /\ Planted(remove_focused_pane(w), e)
         /\ Held(remove_focused_pane(w)) = Held(w) \ {w.focus}
<1> DEFINE v == remove_focused_pane(w)
<1>1. w \in WindowOver(1 .. N)
  BY DEF WellFormed
<1>2. w.focus \in pane_ids(w) /\ pane_ids(w) \ {w.focus} # {}
  <2>1. w.panes \ {w.focus} # {}
    BY AnotherOne DEF can_remove_focused_pane
  <2> QED BY <2>1 DEF WellFormed, pane_ids
<1>3. /\ v.layout = remove(w.layout, w.focus) /\ v.floating = w.floating
      /\ pane_ids(v) = pane_ids(w) \ {w.focus}
  BY <1>1 DEF remove_focused_pane, WindowOver, pane_ids
<1> HIDE DEF v
<1>4. Planted(v, e) /\ Held(v) = Held(w) \ {w.focus}
  BY <1>2, <1>3, LeafRemoved
<1> QED BY <1>4 DEF v

\* A take that is refused changes nothing, unless it is one of a serial pane.
LEMMA RefusedUnchanged ==
  ASSUME NEW N \in Nat, NEW w, WellFormed(w, 1 .. N), ~ can_take_focused_pane(w),
         w.focus \notin w.serial
  PROVE  take_focused_pane(w) = w
<1>1. IsFiniteSet(w.panes)
  <2>1. w.panes \subseteq 1 .. N
    BY DEF WellFormed, WindowOver
  <2> QED BY <2>1, FS_Interval, FS_Subset
<1>2. Cardinality(w.panes) \in Nat
  BY <1>1, FS_CardinalityType
<1>3. Cardinality(w.panes) <= 1
  BY <1>2 DEF can_take_focused_pane, WellFormed, pane_ids
<1> QED BY <1>3 DEF take_focused_pane

LEMMA InsertPanePlanted ==
  ASSUME NEW N \in Nat, NEW w, WellFormed(w, 1 .. N), NEW e \in BOOLEAN, Planted(w, e),
         NEW new \in 1 .. N, new \notin Held(w), NEW position
  PROVE  /\ Planted(insert_pane_at(w, new, position), e)
         /\ Held(insert_pane_at(w, new, position)) = Held(w) \cup {new}
<1> DEFINE v == insert_pane_at(w, new, position)
<1>1. w \in WindowOver(1 .. N)
  BY DEF WellFormed
<1>2. /\ v.layout = insert_after(w.layout, w.focus, new) /\ v.floating = w.floating
      /\ pane_ids(v) = pane_ids(w) \cup {new}
  BY <1>1 DEF insert_pane_at, WindowOver, pane_ids
<1> HIDE DEF v
<1>3. Planted(v, e) /\ Held(v) = Held(w) \cup {new}
  BY <1>2, LeafAdded
<1> QED BY <1>3 DEF v

LEMMA SwapPlanted ==
  ASSUME NEW P, NEW w, WellFormed(w, P), NEW e \in BOOLEAN, Planted(w, e),
         NEW target \in pane_ids(w)
  PROVE  /\ Planted(swap_focused_with(w, target), e)
         /\ Held(swap_focused_with(w, target)) = Held(w)
<1>1. w \in WindowOver(P) /\ w.layout \in Seq(P)
  BY DEF WellFormed, WindowOver
<1>2. w.focus \in Range(w.layout) /\ target \in Range(w.layout)
  BY DEF Planted, WellFormed
<1> DEFINE l == swap_ids(w.layout, w.focus, target)
           v == [w EXCEPT !.layout = l]
<1>3. Range(l) = Range(w.layout) /\ IsInjective(l)
  BY <1>1, <1>2, SwapSet DEF Planted
<1> HIDE DEF l
<1>4. v.layout = l /\ v.floating = w.floating /\ pane_ids(v) = pane_ids(w)
  BY <1>1 DEF WindowOver, pane_ids
<1>5. swap_focused_with(w, target) = w \/ swap_focused_with(w, target) = v
  BY DEF swap_focused_with, l
<1> HIDE DEF v
<1>6. Planted(v, e) /\ Held(v) = Held(w)
  BY <1>3, <1>4 DEF Planted, Held
<1> QED BY <1>5, <1>6

\* The operations on focus, tabs and floating panes leave the tree alone.
LEMMA OthersPlanted ==
  ASSUME NEW P, NEW w, WellFormed(w, P), NEW e \in BOOLEAN, Planted(w, e), NEW p,
         NEW requested, NEW v,
         \/ v = set_focused_pane(w, p) \/ v = focus_next(w) \/ v = focus_prev(w)
         \/ v = reorder_panes(w, requested) \/ v = close_floating_pane(w, p)
  PROVE  Planted(v, e) /\ Held(v) \subseteq Held(w)
<1>1. w \in WindowOver(P)
  BY DEF WellFormed
<1>2. /\ v.layout = w.layout /\ v.panes = w.panes /\ v.serial = w.serial
      /\ v.floating \subseteq w.floating
  BY <1>1 DEF set_focused_pane, focus_next, focus_prev, reorder_panes, close_floating_pane,
     WindowOver
<1> QED BY <1>2 DEF Planted, Held, pane_ids

LEMMA OpenFloatingPlanted ==
  ASSUME NEW P, NEW w, WellFormed(w, P), NEW e \in BOOLEAN, Planted(w, e), NEW p,
         p \notin Held(w)
  PROVE  /\ Planted(open_floating_pane(w, p), e)
         /\ Held(open_floating_pane(w, p)) = Held(w) \cup {p}
<1>1. w \in WindowOver(P)
  BY DEF WellFormed
<1> QED BY <1>1 DEF open_floating_pane, WindowOver, Planted, Held, pane_ids

-----------------------------------------------------------------------------
(***************************************************************************)
(* The invariant of a session.                                             *)
(***************************************************************************)

\* A map of windows, each well formed over the pane ids 1 .. N, that share no
\* pane and own only ids below np.
Disjoint(ws) == \A i, j \in DOMAIN ws : i # j => Owned(ws[i]) \cap Owned(ws[j]) = {}

Good(ws, N, np) ==
  /\ ws = [i \in DOMAIN ws |-> ws[i]]
  /\ \A i \in DOMAIN ws : WellFormed(ws[i], 1 .. N) /\ Owned(ws[i]) \subseteq 1 .. (np - 1)
  /\ Disjoint(ws)

\* The inductive invariant.
Counters ==
  /\ DOMAIN windows \subseteq WindowId
  /\ focused \in WindowId
  /\ broadcast \in BOOLEAN
  /\ nextPane \in 1 .. (MaxPane + 1)
  /\ nextWindow \in 1 .. (MaxWindow + 1)

IInv == Counters /\ Good(windows, MaxPane, nextPane)

-----------------------------------------------------------------------------
(***************************************************************************)
(* Changing one window of the map.                                         *)
(***************************************************************************)

\* A window may be set if it shares no pane with the others.
LEMMA SetWindowGood ==
  ASSUME NEW N, NEW np \in Nat, NEW np2 \in Nat, np <= np2, NEW ws, Good(ws, N, np),
         NEW i, NEW w, WellFormed(w, 1 .. N), Owned(w) \subseteq 1 .. (np2 - 1),
         \A j \in DOMAIN ws : j # i => Owned(w) \cap Owned(ws[j]) = {}
  PROVE  Good(WithWindow(ws, i, w), N, np2)
<1> DEFINE x == WithWindow(ws, i, w)
<1>1. /\ DOMAIN x = DOMAIN ws \cup {i}
      /\ x = [j \in DOMAIN x |-> x[j]]
      /\ \A j \in DOMAIN x : x[j] = IF j = i THEN w ELSE ws[j]
  BY DEF WithWindow
<1> HIDE DEF x
<1>2. 1 .. (np - 1) \subseteq 1 .. (np2 - 1)
  OBVIOUS
<1>3. \A j \in DOMAIN x : WellFormed(x[j], 1 .. N) /\ Owned(x[j]) \subseteq 1 .. (np2 - 1)
  BY <1>1, <1>2 DEF Good
<1>4. Disjoint(x)
  <2>1. Disjoint(ws)
    BY DEF Good
  <2> QED BY <1>1, <2>1 DEF Disjoint
<1> QED BY <1>1, <1>3, <1>4 DEF Good, x

\* A window may be dropped, and what it owned is then owned by nobody.
LEMMA DropWindowGood ==
  ASSUME NEW N, NEW np \in Nat, NEW ws, Good(ws, N, np), NEW i
  PROVE  /\ Good(WithoutWindow(ws, i), N, np)
         /\ i \in DOMAIN ws =>
              \A j \in DOMAIN WithoutWindow(ws, i) :
                Owned(WithoutWindow(ws, i)[j]) \cap Owned(ws[i]) = {}
<1> DEFINE x == WithoutWindow(ws, i)
<1>1. /\ DOMAIN x = DOMAIN ws \ {i}
      /\ x = [j \in DOMAIN x |-> x[j]]
      /\ \A j \in DOMAIN x : x[j] = ws[j]
  BY DEF WithoutWindow
<1> HIDE DEF x
<1>2. Disjoint(ws)
  BY DEF Good
<1>3. Disjoint(x)
  BY <1>1, <1>2 DEF Disjoint
<1>4. Good(x, N, np)
  BY <1>1, <1>3 DEF Good
<1>5. i \in DOMAIN ws => \A j \in DOMAIN x : Owned(x[j]) \cap Owned(ws[i]) = {}
  BY <1>1, <1>2 DEF Disjoint
<1> QED BY <1>4, <1>5 DEF x

\* Replacing a window by one that owns the same panes, or fewer, or a new one.
LEMMA ReplaceWindowGood ==
  ASSUME NEW N, NEW np \in Nat \ {0}, NEW np2 \in Nat, np <= np2, NEW ws, Good(ws, N, np),
         NEW i \in DOMAIN ws, NEW w, WellFormed(w, 1 .. N),
         \/ Owned(w) \subseteq Owned(ws[i])
         \/ np < np2 /\ Owned(w) \subseteq Owned(ws[i]) \cup {np}
  PROVE  Good([ws EXCEPT ![i] = w], N, np2)
<1>1. [ws EXCEPT ![i] = w] = WithWindow(ws, i, w)
  BY DEF Good, WithWindow
<1>2. \A j \in DOMAIN ws : Owned(ws[j]) \subseteq 1 .. (np - 1)
  BY DEF Good
<1>3. np \notin 1 .. (np - 1) /\ 1 .. (np - 1) \subseteq 1 .. (np2 - 1)
  OBVIOUS
<1>4. np < np2 => np \in 1 .. (np2 - 1)
  OBVIOUS
<1>5. Owned(w) \subseteq 1 .. (np2 - 1)
  <2>1. Owned(ws[i]) \subseteq 1 .. (np - 1)
    BY <1>2
  <2> QED BY <1>3, <1>4, <2>1
<1>6. ASSUME NEW j \in DOMAIN ws, j # i PROVE Owned(w) \cap Owned(ws[j]) = {}
  <2>1. Owned(ws[i]) \cap Owned(ws[j]) = {}
    BY <1>6 DEF Good, Disjoint
  <2>2. np \notin Owned(ws[j])
    BY <1>2, <1>3
  <2> QED BY <2>1, <2>2
<1>7. Good(WithWindow(ws, i, w), N, np2)
  BY <1>5, <1>6, SetWindowGood
<1> QED BY <1>1, <1>7

-----------------------------------------------------------------------------
(***************************************************************************)
(* The requests, one by one.                                               *)
(***************************************************************************)

\* A request that changes only the focused window, to w, and issues at most
\* one pane id.
LEMMA FocusedWindowStep ==
  ASSUME IInv, HasFocusedWindow, NEW w, WellFormed(w, 1 .. MaxPane), SetFocusedWindow(w),
         \/ UNCHANGED nextPane /\ Owned(w) \subseteq Owned(windows[focused])
         \/ /\ nextPane <= MaxPane /\ nextPane' = nextPane + 1
            /\ Owned(w) \subseteq Owned(windows[focused]) \cup {nextPane}
  PROVE  IInv'
<1>1. nextPane \in Nat \ {0} /\ nextPane' \in Nat /\ nextPane <= nextPane'
  BY SessionAssumption DEF IInv, Counters
<1>2. focused \in DOMAIN windows /\ windows' = [windows EXCEPT ![focused] = w]
  BY DEF HasFocusedWindow, SetFocusedWindow
<1>3. Good(windows, MaxPane, nextPane)
  BY DEF IInv
<1>4. Good(windows', MaxPane, nextPane')
  <2>1. \/ Owned(w) \subseteq Owned(windows[focused])
        \/ nextPane < nextPane' /\ Owned(w) \subseteq Owned(windows[focused]) \cup {nextPane}
    BY <1>1
  <2>2. Good([windows EXCEPT ![focused] = w], MaxPane, nextPane')
    BY <1>1, <1>2, <1>3, <2>1, ReplaceWindowGood
  <2> QED BY <1>2, <2>2
<1>5. Counters'
  BY <1>2, SessionAssumption DEF IInv, Counters, SetFocusedWindow
<1> QED BY <1>4, <1>5 DEF IInv

\* The focused window is well formed and the next pane id is not in use.
LEMMA FocusedWindowFacts ==
  ASSUME IInv, HasFocusedWindow
  PROVE  /\ WellFormed(windows[focused], 1 .. MaxPane)
         /\ nextPane \notin Owned(windows[focused])
         /\ nextPane <= MaxPane => nextPane \in 1 .. MaxPane
         /\ MaxPane \in Nat
<1>1. nextPane \in 1 .. (MaxPane + 1) /\ MaxPane \in Nat
  BY SessionAssumption DEF IInv, Counters
<1>2. /\ WellFormed(windows[focused], 1 .. MaxPane)
      /\ Owned(windows[focused]) \subseteq 1 .. (nextPane - 1)
  BY DEF IInv, Good, HasFocusedWindow
<1> QED BY <1>1, <1>2

\* The requests about the focused window preserve the invariant.
LEMMA FocusedWindowRequestStep ==
  ASSUME IInv, FocusedWindowRequest
  PROVE  IInv'
<1>1. CASE Split
  BY <1>1, FocusedWindowFacts, AddPaneWellFormed, FocusedWindowStep DEF Split
<1>2. CASE SplitSpawnFails
  BY <1>2, FocusedWindowFacts, SpawnFailedWellFormed, FocusedWindowStep DEF SplitSpawnFails
<1>3. CASE ConnectSerial
  BY <1>3, FocusedWindowFacts, AddSerialWellFormed, FocusedWindowStep DEF ConnectSerial
<1>4. CASE ClosePane
  BY <1>4, FocusedWindowFacts, RemoveFocusedWellFormed, FocusedWindowStep DEF ClosePane
<1>5. CASE FocusNextPane
  BY <1>5, FocusedWindowFacts, FocusWellFormed, FocusedWindowStep DEF FocusNextPane
<1>6. CASE FocusPrevPane
  BY <1>6, FocusedWindowFacts, FocusWellFormed, FocusedWindowStep DEF FocusPrevPane
<1>7. ASSUME NEW p \in PaneId, FocusPane(p) PROVE IInv'
  BY <1>7, FocusedWindowFacts, FocusWellFormed, FocusedWindowStep DEF FocusPane
<1>8. ASSUME NEW p \in PaneId, CloseFloatingPane(p) PROVE IInv'
  <2>1. p \in 1 .. MaxPane
    BY DEF PaneId
  <2> QED BY <1>8, <2>1, FocusedWindowFacts, FloatingWellFormed, FocusedWindowStep
          DEF CloseFloatingPane
<1>9. ASSUME NEW target \in 1 .. (nextPane - 1), SwapPane(target) PROVE IInv'
  <2>1. target \in 1 .. MaxPane
    BY SessionAssumption DEF IInv, Counters
  <2> QED BY <1>9, <2>1, FocusedWindowFacts, SwapWellFormed, FocusedWindowStep DEF SwapPane
<1>10. ASSUME NEW requested \in Requests, ReorderPanes(requested) PROVE IInv'
  <2>1. requested \in Seq(Nat)
    <3>1. nextPane \in Nat /\ MaxRequest \in Nat
      BY SessionAssumption DEF IInv, Counters
    <3>2. PICK n \in 0 .. MaxRequest : requested \in [1 .. n -> 1 .. (nextPane - 1)]
      BY DEF Requests
    <3>3. requested \in [1 .. n -> Nat] /\ n \in Nat
      BY <3>1, <3>2
    <3> QED BY <3>3
  <2> QED BY <1>10, <2>1, FocusedWindowFacts, ReorderWellFormed, FocusedWindowStep
          DEF ReorderPanes
<1>11. CASE OpenFloatingPane
  BY <1>11, FocusedWindowFacts, FloatingWellFormed, FocusedWindowStep DEF OpenFloatingPane
<1> QED BY <1>1, <1>2, <1>3, <1>4, <1>5, <1>6, <1>7, <1>8, <1>9, <1>10, <1>11
        DEF FocusedWindowRequest

\* The requests about windows preserve the invariant.
LEMMA WindowRequestStep ==
  ASSUME IInv, WindowRequest
  PROVE  IInv'
<1>1. CASE AddWindow
  <2>1. /\ nextPane \in Nat /\ nextPane' \in Nat /\ nextPane <= nextPane'
        /\ nextPane \in 1 .. MaxPane /\ nextPane \in 1 .. (nextPane' - 1)
        /\ nextPane \notin 1 .. (nextPane - 1)
    BY <1>1, SessionAssumption DEF AddWindow, IInv, Counters
  <2>2. /\ WellFormed(NewWindow(nextPane), 1 .. MaxPane)
        /\ Owned(NewWindow(nextPane)) = {nextPane}
    BY <2>1, NewWindowWellFormed
  <2>3. Good(windows, MaxPane, nextPane)
    BY DEF IInv
  <2>4. \A j \in DOMAIN windows : Owned(NewWindow(nextPane)) \cap Owned(windows[j]) = {}
    BY <2>1, <2>2, <2>3 DEF Good
  <2>5. Owned(NewWindow(nextPane)) \subseteq 1 .. (nextPane' - 1)
    BY <2>1, <2>2
  <2>6. Good(WithWindow(windows, nextWindow, NewWindow(nextPane)), MaxPane, nextPane')
    BY <2>1, <2>2, <2>3, <2>4, <2>5, SetWindowGood
  <2>7. Good(windows', MaxPane, nextPane')
    BY <1>1, <2>6 DEF AddWindow
  <2>8. Counters'
    BY <1>1, SessionAssumption DEF AddWindow, IInv, Counters, WithWindow, WindowId
  <2> QED BY <2>7, <2>8 DEF IInv
<1>2. ASSUME NEW id \in WindowId, CloseWindow(id) PROVE IInv'
  <2>1. Good(WithoutWindow(windows, id), MaxPane, nextPane)
    <3>1. nextPane \in Nat
      BY SessionAssumption DEF IInv, Counters
    <3> QED BY <3>1, DropWindowGood DEF IInv
  <2>2. Counters'
    BY <1>2 DEF CloseWindow, IInv, Counters, WithoutWindow
  <2> QED BY <1>2, <2>1, <2>2 DEF CloseWindow, IInv
<1>3. ASSUME NEW id \in WindowId, FocusWindow(id) PROVE IInv'
  BY <1>3 DEF FocusWindow, IInv, Counters
<1>4. ASSUME NEW enabled \in BOOLEAN, SetBroadcast(enabled) PROVE IInv'
  BY <1>4 DEF SetBroadcast, IInv, Counters
<1> QED BY <1>1, <1>2, <1>3, <1>4 DEF WindowRequest

-----------------------------------------------------------------------------
(***************************************************************************)
(* Moving a pane: it is taken out of one window, belongs to no window for  *)
(* a moment, and is put into another.                                      *)
(***************************************************************************)

\* A map of windows none of which owns p.
Free(ws, p) == \A j \in DOMAIN ws : p \notin Owned(ws[j])

\* Taking the focused pane of window i leaves it free.
LEMMA TakeFocusedFrees ==
  ASSUME NEW N \in Nat, NEW np \in Nat \ {0}, NEW ws, Good(ws, N, np),
         NEW i \in DOMAIN ws, NEW x, x = [ws EXCEPT ![i] = take_focused_pane(ws[i])]
  PROVE  /\ Good(x, N, np) /\ DOMAIN x = DOMAIN ws
         /\ can_take_focused_pane(ws[i]) =>
              /\ ws[i].focus \in 1 .. N /\ ws[i].focus \in 1 .. (np - 1)
              /\ Free(x, ws[i].focus)
<1> DEFINE v == take_focused_pane(ws[i])
           p == ws[i].focus
<1>1. WellFormed(ws[i], 1 .. N) /\ Owned(ws[i]) \subseteq 1 .. (np - 1)
  BY DEF Good
<1>2. /\ WellFormed(v, 1 .. N) /\ Owned(v) \subseteq Owned(ws[i])
      /\ can_take_focused_pane(ws[i]) => p \in Owned(ws[i]) /\ Owned(v) = Owned(ws[i]) \ {p}
  BY <1>1, TakeFocusedWellFormed
<1>3. p \in 1 .. N
  BY <1>1 DEF WellFormed, WindowOver
<1> HIDE DEF v
<1>4. x = [ws EXCEPT ![i] = v]
  BY DEF v
<1>5. Good(x, N, np)
  <2>1. np <= np /\ np \in Nat
    OBVIOUS
  <2>2. Good([ws EXCEPT ![i] = v], N, np)
    BY <1>2, <2>1, ReplaceWindowGood
  <2> QED BY <1>4, <2>2
<1>6. /\ DOMAIN x = DOMAIN ws /\ x[i] = v
      /\ \A j \in DOMAIN ws : j # i => x[j] = ws[j]
  BY <1>4 DEF Good
<1>7. ASSUME can_take_focused_pane(ws[i]) PROVE Free(x, p)
  <2>1. \A j \in DOMAIN ws : j # i => Owned(ws[i]) \cap Owned(ws[j]) = {}
    BY DEF Good, Disjoint
  <2> QED BY <1>2, <1>6, <1>7, <2>1 DEF Free
<1> QED BY <1>1, <1>2, <1>3, <1>5, <1>6, <1>7

\* So does move_pane's first half, for a pane of window src.
LEMMA AfterTakeFrees ==
  ASSUME IInv, NEW src \in DOMAIN windows, NEW p \in pane_ids(windows[src]), CanTake(src, p)
  PROVE  /\ Good(AfterTake(src, p), MaxPane, nextPane)
         /\ DOMAIN AfterTake(src, p) \subseteq DOMAIN windows
         /\ DOMAIN windows \ {src} \subseteq DOMAIN AfterTake(src, p)
         /\ p \in 1 .. MaxPane /\ p \in 1 .. (nextPane - 1)
         /\ Free(AfterTake(src, p), p)
<1>1. Good(windows, MaxPane, nextPane) /\ nextPane \in Nat \ {0} /\ MaxPane \in Nat
  BY SessionAssumption DEF IInv, Counters
<1>2. WellFormed(windows[src], 1 .. MaxPane) /\ Owned(windows[src]) \subseteq 1 .. (nextPane - 1)
  BY <1>1 DEF Good
<1>3. p \in Owned(windows[src]) /\ p \in 1 .. MaxPane
  BY <1>2 DEF Owned, pane_ids, WellFormed, WindowOver
<1>4. CASE IsLastPane(src)
  <2>1. AfterTake(src, p) = WithoutWindow(windows, src)
    BY <1>4 DEF AfterTake
  <2>2. Free(WithoutWindow(windows, src), p)
    BY <1>1, <1>3, DropWindowGood DEF Free
  <2>3. DOMAIN WithoutWindow(windows, src) = DOMAIN windows \ {src}
    BY DEF WithoutWindow
  <2>4. Good(WithoutWindow(windows, src), MaxPane, nextPane)
    BY <1>1, DropWindowGood
  <2> QED BY <1>2, <1>3, <2>1, <2>2, <2>3, <2>4
<1>5. CASE ~ IsLastPane(src)
  <2> DEFINE v == take_pane_by_id(windows[src], p)
             x == [windows EXCEPT ![src] = v]
  <2>1. AfterTake(src, p) = x
    BY <1>5 DEF AfterTake
  <2>2. can_take_pane_by_id(windows[src], p)
    BY <1>5 DEF CanTake
  <2>3. WellFormed(v, 1 .. MaxPane) /\ Owned(v) = Owned(windows[src]) \ {p}
    BY <1>1, <1>2, <2>2, TakeByIdWellFormed
  <2> HIDE DEF v
  <2>4. Good(x, MaxPane, nextPane)
    BY <1>1, <2>3, ReplaceWindowGood
  <2>5. /\ DOMAIN x = DOMAIN windows /\ x[src] = v
        /\ \A j \in DOMAIN windows : j # src => x[j] = windows[j]
    BY <1>1 DEF Good
  <2> HIDE DEF x
  <2>6. \A j \in DOMAIN windows : j # src => Owned(windows[src]) \cap Owned(windows[j]) = {}
    BY <1>1 DEF Good, Disjoint
  <2>7. Free(x, p)
    BY <1>3, <2>3, <2>5, <2>6 DEF Free
  <2> QED BY <1>2, <1>3, <2>1, <2>4, <2>5, <2>7
<1> QED BY <1>4, <1>5

\* A free pane may become a window, or join one.
LEMMA PlaceFreePane ==
  ASSUME NEW N \in Nat, NEW np \in Nat \ {0}, NEW ws, Good(ws, N, np),
         NEW p \in 1 .. N, p \in 1 .. (np - 1), Free(ws, p)
  PROVE  /\ \A i : Good(WithWindow(ws, i, NewWindow(p)), N, np)
         /\ \A i \in DOMAIN ws, position \in Nat \cup {NoPosition} :
              Good([ws EXCEPT ![i] = insert_pane_at(ws[i], p, position)], N, np)
<1>1. ASSUME NEW i PROVE Good(WithWindow(ws, i, NewWindow(p)), N, np)
  <2>1. WellFormed(NewWindow(p), 1 .. N) /\ Owned(NewWindow(p)) = {p}
    BY NewWindowWellFormed
  <2>2. \A j \in DOMAIN ws : Owned(NewWindow(p)) \cap Owned(ws[j]) = {}
    BY <2>1 DEF Free
  <2>3. Owned(NewWindow(p)) \subseteq 1 .. (np - 1)
    BY <2>1
  <2>4. np <= np
    OBVIOUS
  <2> QED BY <2>1, <2>2, <2>3, <2>4, SetWindowGood
<1>2. ASSUME NEW i \in DOMAIN ws, NEW position \in Nat \cup {NoPosition}
      PROVE  Good([ws EXCEPT ![i] = insert_pane_at(ws[i], p, position)], N, np)
  <2> DEFINE v == insert_pane_at(ws[i], p, position)
  <2>1. /\ WellFormed(ws[i], 1 .. N) /\ p \notin Owned(ws[i])
        /\ Owned(ws[i]) \subseteq 1 .. (np - 1)
    BY DEF Good, Free
  <2>2. WellFormed(v, 1 .. N) /\ Owned(v) = Owned(ws[i]) \cup {p}
    BY <2>1, InsertPaneWellFormed
  <2> HIDE DEF v
  <2>3. \A j \in DOMAIN ws : j # i => Owned(ws[i]) \cap Owned(ws[j]) = {}
    BY DEF Good, Disjoint
  <2>4. \A j \in DOMAIN ws : j # i => Owned(v) \cap Owned(ws[j]) = {}
    BY <2>2, <2>3 DEF Free
  <2>5. Owned(v) \subseteq 1 .. (np - 1) /\ np <= np
    BY <2>1, <2>2
  <2>6. Good(WithWindow(ws, i, v), N, np)
    BY <2>2, <2>4, <2>5, SetWindowGood
  <2>7. [ws EXCEPT ![i] = v] = WithWindow(ws, i, v)
    BY DEF Good, WithWindow
  <2> QED BY <2>6, <2>7 DEF v
<1> QED BY <1>1, <1>2

\* The requests that move panes preserve the invariant.
LEMMA MoveRequestStep ==
  ASSUME IInv, MoveRequest
  PROVE  IInv'
<1>1. Good(windows, MaxPane, nextPane) /\ nextPane \in Nat \ {0} /\ MaxPane \in Nat
  BY SessionAssumption DEF IInv, Counters
<1>2. \A target \in NameableWindows : target \in WindowId
  BY SessionAssumption DEF NameableWindows, WindowId, IInv, Counters
<1>3. CASE BreakPane
  <2> DEFINE w == windows[focused]
             x == [windows EXCEPT ![focused] = take_focused_pane(w)]
  <2>1. focused \in DOMAIN windows /\ can_take_focused_pane(w)
    BY <1>3 DEF BreakPane, HasFocusedWindow
  <2>2. /\ Good(x, MaxPane, nextPane) /\ DOMAIN x = DOMAIN windows
        /\ w.focus \in 1 .. MaxPane /\ w.focus \in 1 .. (nextPane - 1) /\ Free(x, w.focus)
    BY <1>1, <2>1, TakeFocusedFrees
  <2>3. windows' = WithWindow(x, nextWindow, NewWindow(w.focus))
    BY <1>3 DEF BreakPane
  <2> HIDE DEF x, w
  <2>4. Good(windows', MaxPane, nextPane)
    BY <1>1, <2>2, <2>3, PlaceFreePane
  <2>5. DOMAIN windows' = DOMAIN windows \cup {nextWindow}
    BY <2>2, <2>3 DEF WithWindow
  <2>6. Counters' /\ nextPane' = nextPane
    BY <1>3, <2>5, SessionAssumption DEF BreakPane, IInv, Counters, WindowId
  <2> QED BY <2>4, <2>6 DEF IInv
<1>4. CASE TakeFocusedRefused
  <2>1. WellFormed(windows[focused], 1 .. MaxPane)
    BY <1>4, FocusedWindowFacts DEF TakeFocusedRefused
  <2>2. /\ WellFormed(take_focused_pane(windows[focused]), 1 .. MaxPane)
        /\ Owned(take_focused_pane(windows[focused])) \subseteq Owned(windows[focused])
    BY <1>1, <2>1, TakeFocusedWellFormed
  <2> QED BY <1>4, <2>2, FocusedWindowStep DEF TakeFocusedRefused
<1>5. ASSUME NEW target \in NameableWindows, JoinPane(target) PROVE IInv'
  <2> DEFINE w == windows[focused]
             x == [windows EXCEPT ![focused] = take_focused_pane(w)]
  <2>1. /\ focused \in DOMAIN windows /\ can_take_focused_pane(w)
        /\ target # focused /\ target \in DOMAIN windows
    BY <1>5 DEF JoinPane, HasFocusedWindow
  <2>2. /\ Good(x, MaxPane, nextPane) /\ DOMAIN x = DOMAIN windows
        /\ w.focus \in 1 .. MaxPane /\ w.focus \in 1 .. (nextPane - 1) /\ Free(x, w.focus)
    BY <1>1, <2>1, TakeFocusedFrees
  <2>3. windows' = [x EXCEPT ![target] = insert_pane_at(x[target], w.focus, NoPosition)]
    BY <1>5, <2>1 DEF JoinPane
  <2> HIDE DEF x, w
  <2>4. Good(windows', MaxPane, nextPane)
    BY <1>1, <2>1, <2>2, <2>3, PlaceFreePane
  <2>5. DOMAIN windows' = DOMAIN windows
    BY <2>2, <2>3
  <2>6. Counters' /\ nextPane' = nextPane
    BY <1>2, <1>5, <2>5 DEF JoinPane, IInv, Counters
  <2> QED BY <2>4, <2>6 DEF IInv
<1>6. ASSUME NEW target \in NameableWindows, JoinMissingWindow(target) PROVE IInv'
  <2>1. WellFormed(windows[focused], 1 .. MaxPane)
    BY <1>6, FocusedWindowFacts DEF JoinMissingWindow
  <2>2. /\ WellFormed(take_focused_pane(windows[focused]), 1 .. MaxPane)
        /\ Owned(take_focused_pane(windows[focused])) \subseteq Owned(windows[focused])
    BY <1>1, <2>1, TakeFocusedWellFormed
  <2> QED BY <1>6, <2>2, FocusedWindowStep DEF JoinMissingWindow
<1>7. ASSUME NEW src \in DOMAIN windows, NEW p \in PaneId, MovePaneToNewWindow(src, p)
      PROVE  IInv'
  <2> DEFINE x == AfterTake(src, p)
  <2>1. /\ Good(x, MaxPane, nextPane) /\ DOMAIN x \subseteq DOMAIN windows
        /\ p \in 1 .. MaxPane /\ p \in 1 .. (nextPane - 1) /\ Free(x, p)
    BY <1>7, AfterTakeFrees DEF MovePaneToNewWindow
  <2>2. windows' = WithWindow(x, nextWindow, NewWindow(p))
    BY <1>7 DEF MovePaneToNewWindow
  <2> HIDE DEF x
  <2>3. Good(windows', MaxPane, nextPane)
    BY <1>1, <2>1, <2>2, PlaceFreePane
  <2>4. DOMAIN windows' \subseteq DOMAIN windows \cup {nextWindow}
    BY <2>1, <2>2 DEF WithWindow
  <2>5. Counters' /\ nextPane' = nextPane
    BY <1>7, <2>4, SessionAssumption DEF MovePaneToNewWindow, IInv, Counters, WindowId
  <2> QED BY <2>3, <2>5 DEF IInv
<1>8. ASSUME NEW src \in DOMAIN windows, NEW p \in PaneId, NEW target \in NameableWindows,
             MovePaneToMissingWindow(src, p, target)
      PROVE  IInv'
  <2>1. /\ Good(AfterTake(src, p), MaxPane, nextPane)
        /\ DOMAIN AfterTake(src, p) \subseteq DOMAIN windows
    BY <1>8, AfterTakeFrees DEF MovePaneToMissingWindow
  <2>2. Counters'
    BY <1>8, <2>1 DEF MovePaneToMissingWindow, IInv, Counters
  <2> QED BY <1>8, <2>1, <2>2 DEF MovePaneToMissingWindow, IInv
<1>9. ASSUME NEW src \in DOMAIN windows, NEW p \in PaneId, NEW target \in NameableWindows,
             NEW position \in {NoPosition} \cup 0 .. MaxPane,
             MovePaneToWindow(src, p, target, position)
      PROVE  IInv'
  <2> DEFINE x == AfterTake(src, p)
  <2>1. /\ Good(x, MaxPane, nextPane) /\ DOMAIN x \subseteq DOMAIN windows
        /\ DOMAIN windows \ {src} \subseteq DOMAIN x
        /\ p \in 1 .. MaxPane /\ p \in 1 .. (nextPane - 1) /\ Free(x, p)
    BY <1>9, AfterTakeFrees DEF MovePaneToWindow
  <2>2. windows' = [x EXCEPT ![target] = insert_pane_at(x[target], p, position)]
    BY <1>9 DEF MovePaneToWindow
  <2> HIDE DEF x
  <2>3. target \in DOMAIN x /\ position \in Nat \cup {NoPosition}
    BY <1>1, <1>9, <2>1 DEF MovePaneToWindow
  <2>4. Good(windows', MaxPane, nextPane)
    BY <1>1, <2>1, <2>2, <2>3, PlaceFreePane
  <2>5. DOMAIN windows' \subseteq DOMAIN windows
    BY <2>1, <2>2
  <2>6. Counters' /\ nextPane' = nextPane
    BY <1>2, <1>9, <2>5 DEF MovePaneToWindow, IInv, Counters
  <2> QED BY <2>4, <2>6 DEF IInv
<1> QED BY <1>3, <1>4, <1>5, <1>6, <1>7, <1>8, <1>9 DEF MoveRequest

-----------------------------------------------------------------------------
(***************************************************************************)
(* The theorems.                                                           *)
(***************************************************************************)

\* A new session satisfies IInv.
LEMMA NewSessionGood == Init => IInv
<1> SUFFICES ASSUME Init PROVE IInv
  OBVIOUS
<1>1. 1 \in 1 .. MaxPane /\ 1 \in 1 .. MaxWindow /\ nextPane = 2 /\ nextWindow = 2
  BY SessionAssumption DEF Init
<1>2. WellFormed(NewWindow(1), 1 .. MaxPane) /\ Owned(NewWindow(1)) = {1}
  BY <1>1, NewWindowWellFormed
<1>3. windows = [i \in {1} |-> NewWindow(1)] /\ DOMAIN windows = {1}
  BY DEF Init
<1>4. Good(windows, MaxPane, nextPane)
  BY <1>1, <1>2, <1>3 DEF Good, Disjoint
<1>5. Counters
  <2>1. 2 \in 1 .. (MaxPane + 1) /\ 2 \in 1 .. (MaxWindow + 1)
    BY SessionAssumption
  <2>2. broadcast \in BOOLEAN
    BY DEF Init
  <2>3. focused \in WindowId /\ DOMAIN windows \subseteq WindowId
    BY <1>1, <1>3 DEF Init, WindowId
  <2> QED BY <1>1, <2>1, <2>2, <2>3 DEF Counters
<1> QED BY <1>4, <1>5 DEF IInv

\* Every request keeps it.
LEMMA RequestStep == IInv /\ [Next]_vars => IInv'
<1> SUFFICES ASSUME IInv, [Next]_vars PROVE IInv'
  OBVIOUS
<1>1. CASE UNCHANGED vars
  BY <1>1 DEF vars, IInv, Counters
<1>2. CASE Next
  BY <1>2, FocusedWindowRequestStep, WindowRequestStep, MoveRequestStep DEF Next
<1> QED BY <1>1, <1>2

\* IInv is inductive.
THEOREM Inductive == Spec => []IInv
BY NewSessionGood, RequestStep, PTL DEF Spec

\* Every reachable session is well typed.
THEOREM TypeCorrect == Spec => []TypeOK
<1>1. IInv => TypeOK
  BY DEF IInv, Counters, Good, WellFormed, TypeOK, PaneId
<1> QED BY <1>1, Inductive, PTL

\* No pane is ever in two windows or in two maps of one, and no live pane has an
\* id the counter has yet to issue, whatever is split, moved, joined or broken.
THEOREM PanesOwnedOnce == Spec => []OwnedOnce
<1>1. IInv => OwnedOnce
  <2> SUFFICES ASSUME IInv PROVE OwnedOnce
    OBVIOUS
  <2>1. nextPane \in Int /\ \A p \in 1 .. (nextPane - 1) : p < nextPane
    BY DEF IInv, Counters
  <2> QED BY <2>1 DEF IInv, Good, Disjoint, WellFormed, OwnedOnce
<1> QED BY <1>1, Inductive, PTL

\* The focused pane of every window is one of its tiled panes and every window
\* keeps a PTY pane: the `expect` calls of window/mod.rs cannot fail.
THEOREM FocusAlwaysLive == Spec => []FocusLive
<1>1. IInv => FocusLive
  BY DEF IInv, Good, WellFormed, FocusLive
<1> QED BY <1>1, Inductive, PTL

\* pane_order is a permutation of the tiled panes of its window at all times,
\* whatever ids a ReorderPanes request names.
THEOREM TabOrderExact == Spec => []OrderIsPermutation
<1>1. IInv => OrderIsPermutation
  BY DEF IInv, Good, WellFormed, OrderIsPermutation
<1> QED BY <1>1, Inductive, PTL

\* Without requests that name a window another client has closed, a request
\* leaves a live window focused.
LEMMA LiveStep ==
  ASSUME ~ StaleWindows, FocusedWindowLive, [Next]_vars
  PROVE  FocusedWindowLive'
<1> SUFFICES focused' \in DOMAIN windows'
  BY DEF FocusedWindowLive, HasFocusedWindow
<1> focused \in DOMAIN windows
  BY DEF FocusedWindowLive, HasFocusedWindow
<1>1. \A target \in NameableWindows : target \in DOMAIN windows
  BY DEF NameableWindows
<1>2. CASE UNCHANGED vars
  BY <1>2 DEF vars
<1>3. CASE FocusedWindowRequest
  <2>1. ASSUME NEW w, SetFocusedWindow(w) PROVE focused' \in DOMAIN windows'
    BY <2>1 DEF SetFocusedWindow
  <2> QED BY <1>3, <2>1 DEF FocusedWindowRequest, Split, SplitSpawnFails, ConnectSerial,
          ClosePane, FocusNextPane, FocusPrevPane, FocusPane, CloseFloatingPane, SwapPane,
          ReorderPanes, OpenFloatingPane
<1>4. CASE WindowRequest
  BY <1>4 DEF WindowRequest, AddWindow, CloseWindow, FocusWindow, SetBroadcast,
     WithWindow, WithoutWindow
<1>5. CASE MoveRequest
  <2>1. CASE BreakPane
    BY <2>1 DEF BreakPane, WithWindow
  <2>2. CASE TakeFocusedRefused
    BY <2>2 DEF TakeFocusedRefused, SetFocusedWindow
  <2>3. ASSUME NEW target \in NameableWindows, JoinPane(target) \/ JoinMissingWindow(target)
        PROVE  focused' \in DOMAIN windows'
    BY <1>1, <2>3 DEF JoinPane, JoinMissingWindow
  <2>4. ASSUME NEW src \in DOMAIN windows, NEW p \in PaneId, MovePaneToNewWindow(src, p)
        PROVE  focused' \in DOMAIN windows'
    BY <2>4 DEF MovePaneToNewWindow, WithWindow
  <2>5. ASSUME NEW src \in DOMAIN windows, NEW p \in PaneId, NEW target \in NameableWindows,
               MovePaneToMissingWindow(src, p, target)
        PROVE  FALSE
    BY <1>1, <2>5 DEF MovePaneToMissingWindow
  <2>6. ASSUME NEW src \in DOMAIN windows, NEW p \in PaneId, NEW target \in NameableWindows,
               NEW position \in {NoPosition} \cup 0 .. MaxPane,
               MovePaneToWindow(src, p, target, position)
        PROVE  focused' \in DOMAIN windows'
    <3>1. /\ DOMAIN windows \ {src} \subseteq DOMAIN AfterTake(src, p)
          /\ target # src /\ target \in DOMAIN windows /\ focused' = target
      BY <2>6 DEF MovePaneToWindow, AfterTake, WithoutWindow
    <3> QED BY <2>6, <3>1 DEF MovePaneToWindow
  <2> QED BY <1>5, <2>1, <2>2, <2>3, <2>4, <2>5, <2>6 DEF MoveRequest
<1> QED BY <1>2, <1>3, <1>4, <1>5 DEF Next

\* Without such requests focused_window_id always refers to a live window.
THEOREM FocusedWindowStaysLive ==
  ASSUME ~ StaleWindows
  PROVE  Spec => []FocusedWindowLive
<1>1. Init => FocusedWindowLive
  BY DEF Init, FocusedWindowLive, HasFocusedWindow
<1>2. FocusedWindowLive /\ [Next]_vars => FocusedWindowLive'
  BY LiveStep
<1> QED BY <1>1, <1>2, PTL DEF Spec

-----------------------------------------------------------------------------
(***************************************************************************)
(* Types alone.  Every request keeps every variable typed, whatever the    *)
(* windows were before it: they may have come from a file that was written *)
(* after trouble.                                                          *)
(***************************************************************************)

AllTyped(ws, N) ==
  /\ ws = [i \in DOMAIN ws |-> ws[i]]
  /\ \A i \in DOMAIN ws : ws[i] \in WindowOver(1 .. N)

TInv == Counters /\ AllTyped(windows, MaxPane)

LEMMA GoodTyped == IInv => TInv
BY DEF IInv, TInv, Good, AllTyped, WellFormed

LEMMA TypedFacts ==
  ASSUME TInv
  PROVE  /\ MaxPane \in Nat /\ nextPane \in Nat \ {0}
         /\ nextPane <= MaxPane => nextPane \in 1 .. MaxPane
         /\ HasFocusedWindow => windows[focused] \in WindowOver(1 .. MaxPane)
BY SessionAssumption DEF TInv, Counters, AllTyped, HasFocusedWindow

LEMMA SetTyped ==
  ASSUME NEW N, NEW ws, AllTyped(ws, N), NEW i
  PROVE  /\ AllTyped(WithoutWindow(ws, i), N)
         /\ \A w \in WindowOver(1 .. N) :
              AllTyped(WithWindow(ws, i, w), N) /\ AllTyped([ws EXCEPT ![i] = w], N)
BY DEF AllTyped, WithWindow, WithoutWindow

\* Adding to a window, and moving its focus and its leaves about.
LEMMA AddTyped ==
  ASSUME NEW N \in Nat, NEW w \in WindowOver(1 .. N), NEW new \in 1 .. N
  PROVE  /\ add_pane(w, new) \in WindowOver(1 .. N)
         /\ add_pane_spawn_failed(w, new) \in WindowOver(1 .. N)
         /\ add_serial_pane(w, new) \in WindowOver(1 .. N)
         /\ swap_focused_with(w, new) \in WindowOver(1 .. N)
         /\ open_floating_pane(w, new) \in WindowOver(1 .. N)
<1>1. /\ insert_after(w.layout, w.focus, new) \in Seq(1 .. N)
      /\ swap_ids(w.layout, w.focus, new) \in Seq(1 .. N)
  BY LayoutTyped DEF WindowOver
<1>2. Append(w.order, new) \in Seq(1 .. N)
  BY DEF WindowOver
<1>3. /\ add_pane(w, new) \in WindowOver(1 .. N)
      /\ add_pane_spawn_failed(w, new) \in WindowOver(1 .. N)
      /\ add_serial_pane(w, new) \in WindowOver(1 .. N)
  BY <1>1, <1>2 DEF add_pane, add_pane_spawn_failed, add_serial_pane, WindowOver
<1>4. swap_focused_with(w, new) \in WindowOver(1 .. N)
  BY <1>1 DEF swap_focused_with, WindowOver
<1>5. open_floating_pane(w, new) \in WindowOver(1 .. N)
  BY DEF open_floating_pane, WindowOver
<1> QED BY <1>3, <1>4, <1>5

LEMMA FocusTyped ==
  ASSUME NEW N \in Nat, NEW w \in WindowOver(1 .. N), NEW p
  PROVE  /\ set_focused_pane(w, p) \in WindowOver(1 .. N)
         /\ focus_next(w) \in WindowOver(1 .. N)
         /\ focus_prev(w) \in WindowOver(1 .. N)
         /\ close_floating_pane(w, p) \in WindowOver(1 .. N)
<1>1. \A q \in 1 .. N : [w EXCEPT !.focus = q] \in WindowOver(1 .. N)
  BY DEF WindowOver
<1>2. w.panes \in SUBSET (1 .. N)
  BY DEF WindowOver
<1>3. ASSUME NEW T \in SUBSET w.panes, T # {} PROVE Min(T) \in 1 .. N /\ Max(T) \in 1 .. N
  <2>1. T \in SUBSET (1 .. N) /\ T \in SUBSET Nat
    BY <1>2
  <2> QED BY <1>3, <2>1, MinProperty, MaxProperty
<1>4. focus_next(w) \in WindowOver(1 .. N)
  <2> DEFINE above == {q \in w.panes : q > w.focus}
             q == Min(IF above # {} THEN above ELSE w.panes)
  <2>1. focus_next(w) = w \/ (w.panes # {} /\ focus_next(w) = [w EXCEPT !.focus = q])
    BY DEF focus_next
  <2>2. w.panes # {} => q \in 1 .. N
    BY <1>3
  <2> HIDE DEF q
  <2> QED BY <1>1, <2>1, <2>2
<1>5. focus_prev(w) \in WindowOver(1 .. N)
  <2> DEFINE below == {q \in w.panes : q < w.focus}
             q == Max(IF below # {} THEN below ELSE w.panes)
  <2>1. focus_prev(w) = w \/ (w.panes # {} /\ focus_prev(w) = [w EXCEPT !.focus = q])
    BY DEF focus_prev
  <2>2. w.panes # {} => q \in 1 .. N
    BY <1>3
  <2> HIDE DEF q
  <2> QED BY <1>1, <2>1, <2>2
<1>6. set_focused_pane(w, p) \in WindowOver(1 .. N)
  BY <1>1, <1>2 DEF set_focused_pane
<1>7. close_floating_pane(w, p) \in WindowOver(1 .. N)
  BY DEF close_floating_pane, WindowOver
<1> QED BY <1>4, <1>5, <1>6, <1>7

\* Taking from a window.
LEMMA RetainTyped ==
  ASSUME NEW P, NEW s \in Seq(P), NEW x
  PROVE  retain_other(s, x) \in Seq(P)
<1>1. CASE x \in Range(s)
  <2>1. FirstIndex(s, x) \in 1 .. Len(s)
    BY <1>1, FirstIndexProperty
  <2> QED BY <1>1, <2>1, RemoveAtElements DEF retain_other
<1>2. CASE x \notin Range(s)
  BY <1>2 DEF retain_other
<1> QED BY <1>1, <1>2

LEMMA TakeTyped ==
  ASSUME NEW N \in Nat, NEW w \in WindowOver(1 .. N), NEW p \in 1 .. N
  PROVE  /\ can_remove_focused_pane(w) => remove_focused_pane(w) \in WindowOver(1 .. N)
         /\ can_take_pane_by_id(w, p) => take_pane_by_id(w, p) \in WindowOver(1 .. N)
         /\ take_focused_pane(w) \in WindowOver(1 .. N)
<1>1. /\ w.layout \in Seq(1 .. N) /\ w.order \in Seq(1 .. N) /\ w.focus \in 1 .. N
      /\ w.panes \in SUBSET (1 .. N)
  BY DEF WindowOver
<1>2. \A x : retain_other(w.order, x) \in Seq(1 .. N) /\ remove(w.layout, x) \in Seq(1 .. N)
  BY <1>1, RetainTyped, LayoutTyped
<1>3. \A x : Cardinality(w.panes) > 1 => Min(w.panes \ {x}) \in 1 .. N
  <2> SUFFICES ASSUME NEW x, Cardinality(w.panes) > 1 PROVE Min(w.panes \ {x}) \in 1 .. N
    OBVIOUS
  <2> DEFINE T == w.panes \ {x}
  <2>1. T # {}
    BY AnotherOne
  <2>2. T \in SUBSET Nat /\ T \subseteq 1 .. N
    BY <1>1
  <2> HIDE DEF T
  <2>3. Min(T) \in 1 .. N
    BY <2>1, <2>2, MinProperty
  <2> QED BY <2>3 DEF T
<1>4. can_remove_focused_pane(w) => remove_focused_pane(w) \in WindowOver(1 .. N)
  BY <1>2, <1>3 DEF can_remove_focused_pane, remove_focused_pane, WindowOver
<1>5. can_take_pane_by_id(w, p) => take_pane_by_id(w, p) \in WindowOver(1 .. N)
  BY <1>2, <1>3 DEF can_take_pane_by_id, take_pane_by_id, WindowOver
<1>6. take_focused_pane(w) \in WindowOver(1 .. N)
  <2>1. CASE can_take_focused_pane(w)
    <3>1. Min(w.panes \ {w.focus}) \in 1 .. N
      BY <1>3, <2>1 DEF can_take_focused_pane
    <3> QED BY <1>2, <2>1, <3>1 DEF take_focused_pane, WindowOver
  <2>2. CASE ~ can_take_focused_pane(w)
    BY <1>2, <2>2 DEF take_focused_pane, WindowOver
  <2> QED BY <2>1, <2>2
<1> QED BY <1>4, <1>5, <1>6

\* Putting a pane into a window, and ordering its tabs.
LEMMA InsertTyped ==
  ASSUME NEW N \in Nat, NEW w \in WindowOver(1 .. N), NEW new \in 1 .. N,
         NEW position \in Nat \cup {NoPosition}
  PROVE  insert_pane_at(w, new, position) \in WindowOver(1 .. N)
<1> DEFINE at == compute_insert_position(Len(w.order), position, PositionOf(w.order, new))
           o  == InsertAt(w.order, at + 1, new)
<1>1. w.order \in Seq(1 .. N) /\ w.layout \in Seq(1 .. N) /\ w.focus \in 1 .. N
  BY DEF WindowOver
<1>2. at + 1 \in 1 .. (Len(w.order) + 1)
  <2>1. PositionOf(w.order, new) \in Nat \cup {NoPosition}
    <3>1. CASE new \in Range(w.order)
      <4>1. FirstIndex(w.order, new) \in 1 .. Len(w.order)
        BY <1>1, <3>1, FirstIndexProperty
      <4> QED BY <3>1, <4>1 DEF PositionOf
    <3>2. CASE new \notin Range(w.order)
      BY <3>2 DEF PositionOf
    <3> QED BY <3>1, <3>2
  <2>2. Len(w.order) \in Nat
    BY <1>1
  <2> QED BY <2>1, <2>2, InsertPosition
<1> HIDE DEF at
<1>3. o \in Seq(1 .. N)
  <2>1. PICK s \in Seq(1 .. N) : s = w.order
    BY <1>1
  <2>2. PICK k \in 1 .. (Len(s) + 1) : k = at + 1
    BY <1>2, <2>1
  <2>3. InsertAt(s, k, new) \in Seq(1 .. N)
    BY InsertAtElements
  <2> QED BY <2>1, <2>2, <2>3
<1>4. insert_after(w.layout, w.focus, new) \in Seq(1 .. N)
  BY <1>1, LayoutTyped
<1>5. insert_pane_at(w, new, position)
        = [w EXCEPT !.layout = insert_after(w.layout, w.focus, new),
                    !.panes = w.panes \cup {new}, !.focus = new, !.order = o]
  BY DEF insert_pane_at, at, o, WindowOver
<1> HIDE DEF o
<1> DEFINE l == insert_after(w.layout, w.focus, new)
           v == insert_pane_at(w, new, position)
<1> HIDE DEF l, v
<1>6. v = [w EXCEPT !.layout = l, !.panes = w.panes \cup {new}, !.focus = new, !.order = o]
  BY <1>5 DEF l, v
<1>7. l \in Seq(1 .. N)
  BY <1>4 DEF l
<1>8. v \in WindowOver(1 .. N)
  BY <1>3, <1>6, <1>7 DEF WindowOver
<1> QED BY <1>8 DEF v

LEMMA ReorderTyped ==
  ASSUME NEW N \in Nat, NEW w \in WindowOver(1 .. N), NEW requested \in Seq(Nat)
  PROVE  reorder_panes(w, requested) \in WindowOver(1 .. N)
<1> DEFINE o == compute_reordered(w.order, requested, pane_ids(w))
<1>1. w.order \in Seq(1 .. N) /\ pane_ids(w) \in SUBSET (1 .. N)
  BY DEF WindowOver, pane_ids
<1>2. o \in Seq(pane_ids(w))
  BY <1>1, ReorderedIsPermutation
<1>3. o \in Seq(1 .. N)
  BY <1>1, <1>2
<1> HIDE DEF o
<1>4. reorder_panes(w, requested) = [w EXCEPT !.order = o]
  BY DEF reorder_panes, o
<1> QED BY <1>3, <1>4 DEF WindowOver

LEMMA FocusedTypedStep ==
  ASSUME TInv, NEW w \in WindowOver(1 .. MaxPane), SetFocusedWindow(w),
         UNCHANGED nextPane \/ (nextPane <= MaxPane /\ nextPane' = nextPane + 1)
  PROVE  TInv'
<1>1. windows' = [windows EXCEPT ![focused] = w] /\ AllTyped(windows, MaxPane)
  BY DEF SetFocusedWindow, TInv
<1>2. AllTyped(windows', MaxPane)
  BY <1>1, SetTyped
<1>3. Counters'
  BY <1>1, SessionAssumption DEF TInv, Counters, SetFocusedWindow
<1> QED BY <1>2, <1>3 DEF TInv

\* The map move_pane's first half leaves.
LEMMA AfterTakeTyped ==
  ASSUME TInv, NEW src \in DOMAIN windows, NEW p \in PaneId, CanTake(src, p)
  PROVE  /\ AllTyped(AfterTake(src, p), MaxPane)
         /\ DOMAIN AfterTake(src, p) \subseteq DOMAIN windows
         /\ DOMAIN windows \ {src} \subseteq DOMAIN AfterTake(src, p)
<1>1. AllTyped(windows, MaxPane) /\ windows[src] \in WindowOver(1 .. MaxPane) /\ MaxPane \in Nat
  BY SessionAssumption DEF TInv, AllTyped
<1>2. CASE IsLastPane(src)
  BY <1>1, <1>2, SetTyped DEF AfterTake, WithoutWindow
<1>3. CASE ~ IsLastPane(src)
  <2>1. take_pane_by_id(windows[src], p) \in WindowOver(1 .. MaxPane)
    BY <1>1, <1>3, TakeTyped DEF CanTake, PaneId
  <2> DEFINE v == take_pane_by_id(windows[src], p)
  <2>2. AfterTake(src, p) = [windows EXCEPT ![src] = v]
    BY <1>3 DEF AfterTake
  <2> HIDE DEF v
  <2>3. v \in WindowOver(1 .. MaxPane)
    BY <2>1 DEF v
  <2>4. DOMAIN [windows EXCEPT ![src] = v] = DOMAIN windows
    OBVIOUS
  <2>5. AllTyped([windows EXCEPT ![src] = v], MaxPane)
    BY <1>1, <2>3, SetTyped
  <2> QED BY <2>2, <2>4, <2>5
<1> QED BY <1>2, <1>3

LEMMA FocusedRequestTyped ==
  ASSUME TInv, FocusedWindowRequest
  PROVE  TInv'
<1>1. CASE Split
  BY <1>1, TypedFacts, AddTyped, FocusedTypedStep DEF Split
<1>2. CASE SplitSpawnFails
  BY <1>2, TypedFacts, AddTyped, FocusedTypedStep DEF SplitSpawnFails
<1>3. CASE ConnectSerial
  BY <1>3, TypedFacts, AddTyped, FocusedTypedStep DEF ConnectSerial
<1>4. CASE ClosePane
  <2>1. windows[focused] \in WindowOver(1 .. MaxPane) /\ MaxPane \in Nat
    BY <1>4, TypedFacts DEF ClosePane
  <2>2. windows[focused].focus \in 1 .. MaxPane
    BY <2>1 DEF WindowOver
  <2> QED BY <1>4, <2>1, <2>2, TakeTyped, FocusedTypedStep DEF ClosePane
<1>5. CASE FocusNextPane
  BY <1>5, TypedFacts, FocusTyped, FocusedTypedStep DEF FocusNextPane
<1>6. CASE FocusPrevPane
  BY <1>6, TypedFacts, FocusTyped, FocusedTypedStep DEF FocusPrevPane
<1>7. ASSUME NEW p \in PaneId, FocusPane(p) PROVE TInv'
  BY <1>7, TypedFacts, FocusTyped, FocusedTypedStep DEF FocusPane
<1>8. ASSUME NEW p \in PaneId, CloseFloatingPane(p) PROVE TInv'
  BY <1>8, TypedFacts, FocusTyped, FocusedTypedStep DEF CloseFloatingPane
<1>9. ASSUME NEW target \in 1 .. (nextPane - 1), SwapPane(target) PROVE TInv'
  <2>1. target \in 1 .. MaxPane
    BY SessionAssumption DEF TInv, Counters
  <2> QED BY <1>9, <2>1, TypedFacts, AddTyped, FocusedTypedStep DEF SwapPane
<1>10. ASSUME NEW requested \in Requests, ReorderPanes(requested) PROVE TInv'
  <2>1. requested \in Seq(Nat)
    <3>1. nextPane \in Nat /\ MaxRequest \in Nat
      BY SessionAssumption DEF TInv, Counters
    <3>2. PICK n \in 0 .. MaxRequest : requested \in [1 .. n -> 1 .. (nextPane - 1)]
      BY DEF Requests
    <3>3. requested \in [1 .. n -> Nat] /\ n \in Nat
      BY <3>1, <3>2
    <3> QED BY <3>3
  <2> QED BY <1>10, <2>1, TypedFacts, ReorderTyped, FocusedTypedStep DEF ReorderPanes
<1>11. CASE OpenFloatingPane
  BY <1>11, TypedFacts, AddTyped, FocusedTypedStep DEF OpenFloatingPane
<1> QED BY <1>1, <1>2, <1>3, <1>4, <1>5, <1>6, <1>7, <1>8, <1>9, <1>10, <1>11
        DEF FocusedWindowRequest

LEMMA WindowRequestTyped ==
  ASSUME TInv, WindowRequest
  PROVE  TInv'
<1>1. CASE AddWindow
  <2>1. nextPane \in 1 .. MaxPane
    BY <1>1, TypedFacts DEF AddWindow
  <2>2. NewWindow(nextPane) \in WindowOver(1 .. MaxPane)
    BY <2>1, NewWindowWellFormed DEF WellFormed
  <2>3. AllTyped(windows', MaxPane)
    BY <1>1, <2>2, SetTyped DEF AddWindow, TInv
  <2>4. Counters'
    BY <1>1, SessionAssumption DEF AddWindow, TInv, Counters, WithWindow, WindowId
  <2> QED BY <2>3, <2>4 DEF TInv
<1>2. ASSUME NEW id \in WindowId, CloseWindow(id) PROVE TInv'
  <2>1. AllTyped(windows', MaxPane)
    BY <1>2, SetTyped DEF CloseWindow, TInv
  <2>2. Counters'
    BY <1>2 DEF CloseWindow, TInv, Counters, WithoutWindow
  <2> QED BY <2>1, <2>2 DEF TInv
<1>3. ASSUME NEW id \in WindowId, FocusWindow(id) PROVE TInv'
  BY <1>3 DEF FocusWindow, TInv, Counters
<1>4. ASSUME NEW enabled \in BOOLEAN, SetBroadcast(enabled) PROVE TInv'
  BY <1>4 DEF SetBroadcast, TInv, Counters
<1> QED BY <1>1, <1>2, <1>3, <1>4 DEF WindowRequest

LEMMA MoveRequestTyped ==
  ASSUME TInv, MoveRequest
  PROVE  TInv'
<1>1. AllTyped(windows, MaxPane) /\ MaxPane \in Nat
  BY SessionAssumption DEF TInv
<1>2. \A target \in NameableWindows : target \in WindowId
  BY SessionAssumption DEF NameableWindows, WindowId, TInv, Counters
<1>3. ASSUME HasFocusedWindow
      PROVE  LET v == take_focused_pane(windows[focused])
             IN  /\ v \in WindowOver(1 .. MaxPane) /\ windows[focused].focus \in 1 .. MaxPane
                 /\ AllTyped([windows EXCEPT ![focused] = v], MaxPane)
                 /\ DOMAIN [windows EXCEPT ![focused] = v] = DOMAIN windows
  <2>1. windows[focused] \in WindowOver(1 .. MaxPane)
    BY <1>3, TypedFacts
  <2>2. windows[focused].focus \in 1 .. MaxPane
    BY <2>1 DEF WindowOver
  <2> QED BY <1>1, <2>1, <2>2, TakeTyped, SetTyped
<1>4. CASE BreakPane
  <2> DEFINE p == windows[focused].focus
             x == [windows EXCEPT ![focused] = take_focused_pane(windows[focused])]
  <2>1. /\ windows' = WithWindow(x, nextWindow, NewWindow(p)) /\ p \in 1 .. MaxPane
        /\ AllTyped(x, MaxPane) /\ DOMAIN x = DOMAIN windows
    BY <1>3, <1>4 DEF BreakPane
  <2> HIDE DEF x, p
  <2>2. AllTyped(windows', MaxPane)
    BY <2>1, NewWindowWellFormed, SetTyped DEF WellFormed
  <2>3. DOMAIN windows' = DOMAIN windows \cup {nextWindow}
    BY <2>1 DEF WithWindow
  <2>4. Counters'
    BY <1>4, <2>3, SessionAssumption DEF BreakPane, TInv, Counters, WindowId
  <2> QED BY <2>2, <2>4 DEF TInv
<1>5. CASE TakeFocusedRefused
  BY <1>3, <1>5, FocusedTypedStep DEF TakeFocusedRefused
<1>6. ASSUME NEW target \in NameableWindows, JoinPane(target) PROVE TInv'
  <2> DEFINE p == windows[focused].focus
             x == [windows EXCEPT ![focused] = take_focused_pane(windows[focused])]
  <2>1. /\ windows' = [x EXCEPT ![target] = insert_pane_at(x[target], p, NoPosition)]
        /\ target \in DOMAIN x /\ p \in 1 .. MaxPane
        /\ AllTyped(x, MaxPane) /\ DOMAIN x = DOMAIN windows
    BY <1>3, <1>6 DEF JoinPane, HasFocusedWindow
  <2> HIDE DEF x, p
  <2>2. insert_pane_at(x[target], p, NoPosition) \in WindowOver(1 .. MaxPane)
    BY <1>1, <2>1, InsertTyped DEF AllTyped
  <2>3. AllTyped(windows', MaxPane)
    BY <2>1, <2>2, SetTyped
  <2>4. Counters'
    <3>1. DOMAIN windows' = DOMAIN windows
      BY <2>1
    <3> QED BY <1>2, <1>6, <3>1 DEF JoinPane, TInv, Counters
  <2> QED BY <2>3, <2>4 DEF TInv
<1>7. ASSUME NEW target \in NameableWindows, JoinMissingWindow(target) PROVE TInv'
  BY <1>3, <1>7, FocusedTypedStep DEF JoinMissingWindow
<1>8. ASSUME NEW src \in DOMAIN windows, NEW p \in PaneId, MovePaneToNewWindow(src, p)
      PROVE  TInv'
  <2> DEFINE x == AfterTake(src, p)
  <2>1. /\ AllTyped(x, MaxPane) /\ DOMAIN x \subseteq DOMAIN windows
        /\ windows' = WithWindow(x, nextWindow, NewWindow(p))
    BY <1>8, AfterTakeTyped DEF MovePaneToNewWindow
  <2> HIDE DEF x
  <2>2. AllTyped(windows', MaxPane)
    BY <2>1, NewWindowWellFormed, SetTyped DEF WellFormed, PaneId
  <2>3. DOMAIN windows' \subseteq DOMAIN windows \cup {nextWindow}
    BY <2>1 DEF WithWindow
  <2>4. Counters'
    BY <1>8, <2>3, SessionAssumption DEF MovePaneToNewWindow, TInv, Counters, WindowId
  <2> QED BY <2>2, <2>4 DEF TInv
<1>9. ASSUME NEW src \in DOMAIN windows, NEW p \in PaneId, NEW target \in NameableWindows,
             MovePaneToMissingWindow(src, p, target)
      PROVE  TInv'
  <2>1. AllTyped(windows', MaxPane) /\ DOMAIN windows' \subseteq DOMAIN windows
    BY <1>9, AfterTakeTyped DEF MovePaneToMissingWindow
  <2>2. Counters'
    BY <1>9, <2>1 DEF MovePaneToMissingWindow, TInv, Counters
  <2> QED BY <2>1, <2>2 DEF TInv
<1>10. ASSUME NEW src \in DOMAIN windows, NEW p \in PaneId, NEW target \in NameableWindows,
              NEW position \in {NoPosition} \cup 0 .. MaxPane,
              MovePaneToWindow(src, p, target, position)
       PROVE  TInv'
  <2> DEFINE x == AfterTake(src, p)
  <2>1. /\ AllTyped(x, MaxPane) /\ DOMAIN x \subseteq DOMAIN windows
        /\ DOMAIN windows \ {src} \subseteq DOMAIN x
        /\ windows' = [x EXCEPT ![target] = insert_pane_at(x[target], p, position)]
        /\ target \in DOMAIN windows /\ target # src
    BY <1>10, AfterTakeTyped DEF MovePaneToWindow
  <2> HIDE DEF x
  <2>2. target \in DOMAIN x /\ x[target] \in WindowOver(1 .. MaxPane)
    BY <2>1 DEF AllTyped
  <2>3. position \in Nat \cup {NoPosition} /\ p \in 1 .. MaxPane
    BY <1>1 DEF PaneId
  <2>4. insert_pane_at(x[target], p, position) \in WindowOver(1 .. MaxPane)
    BY <1>1, <2>2, <2>3, InsertTyped
  <2>5. AllTyped(windows', MaxPane)
    BY <2>1, <2>4, SetTyped
  <2>6. DOMAIN windows' \subseteq DOMAIN windows
    BY <2>1
  <2>7. Counters'
    BY <1>2, <1>10, <2>6 DEF MovePaneToWindow, TInv, Counters
  <2> QED BY <2>5, <2>7 DEF TInv
<1> QED BY <1>4, <1>5, <1>6, <1>7, <1>8, <1>9, <1>10 DEF MoveRequest

LEMMA TypedStep == TInv /\ [Next]_vars => TInv'
<1>1. TInv /\ UNCHANGED vars => TInv'
  BY DEF vars, TInv, Counters
<1> QED BY <1>1, FocusedRequestTyped, WindowRequestTyped, MoveRequestTyped DEF Next

\* No live window has an id the counter has yet to issue.
WindowsIssued == \A i \in DOMAIN windows : i < nextWindow

LEMMA IssuedStep ==
  ASSUME TInv, WindowsIssued, [Next]_vars
  PROVE  WindowsIssued'
<1>1. nextWindow \in Nat /\ \A i \in DOMAIN windows : i < nextWindow /\ i \in Nat
  BY DEF TInv, Counters, WindowsIssued, WindowId
<1> SUFFICES \/ DOMAIN windows' \subseteq DOMAIN windows /\ nextWindow' = nextWindow
             \/ /\ DOMAIN windows' \subseteq DOMAIN windows \cup {nextWindow}
                /\ nextWindow' = nextWindow + 1
  BY <1>1 DEF WindowsIssued
<1>2. CASE UNCHANGED vars
  BY <1>2 DEF vars
<1>3. CASE FocusedWindowRequest
  <2>1. ASSUME NEW w, SetFocusedWindow(w)
        PROVE  DOMAIN windows' \subseteq DOMAIN windows /\ nextWindow' = nextWindow
    BY <2>1 DEF SetFocusedWindow
  <2> QED BY <1>3, <2>1 DEF FocusedWindowRequest, Split, SplitSpawnFails, ConnectSerial,
          ClosePane, FocusNextPane, FocusPrevPane, FocusPane, CloseFloatingPane, SwapPane,
          ReorderPanes, OpenFloatingPane
<1>4. CASE WindowRequest
  BY <1>4 DEF WindowRequest, AddWindow, CloseWindow, FocusWindow, SetBroadcast,
     WithWindow, WithoutWindow
<1>5. CASE MoveRequest
  <2>1. ASSUME NEW src, NEW p PROVE DOMAIN AfterTake(src, p) \subseteq DOMAIN windows
    BY DEF AfterTake, WithoutWindow
  <2>2. CASE BreakPane
    BY <2>2 DEF BreakPane, WithWindow
  <2>3. CASE TakeFocusedRefused
    BY <2>3 DEF TakeFocusedRefused, SetFocusedWindow
  <2>4. ASSUME NEW target \in NameableWindows, JoinPane(target) \/ JoinMissingWindow(target)
        PROVE  DOMAIN windows' \subseteq DOMAIN windows /\ nextWindow' = nextWindow
    BY <2>4 DEF JoinPane, JoinMissingWindow, SetFocusedWindow
  <2>5. ASSUME NEW src \in DOMAIN windows, NEW p \in PaneId, MovePaneToNewWindow(src, p)
        PROVE  /\ DOMAIN windows' \subseteq DOMAIN windows \cup {nextWindow}
               /\ nextWindow' = nextWindow + 1
    BY <2>1, <2>5 DEF MovePaneToNewWindow, WithWindow
  <2>6. ASSUME NEW src \in DOMAIN windows, NEW p \in PaneId, NEW target \in NameableWindows,
               MovePaneToMissingWindow(src, p, target)
        PROVE  DOMAIN windows' \subseteq DOMAIN windows /\ nextWindow' = nextWindow
    BY <2>1, <2>6 DEF MovePaneToMissingWindow
  <2>7. ASSUME NEW src \in DOMAIN windows, NEW p \in PaneId, NEW target \in NameableWindows,
               NEW position \in {NoPosition} \cup 0 .. MaxPane,
               MovePaneToWindow(src, p, target, position)
        PROVE  DOMAIN windows' \subseteq DOMAIN windows /\ nextWindow' = nextWindow
    BY <2>1, <2>7 DEF MovePaneToWindow
  <2> QED BY <1>5, <2>2, <2>3, <2>4, <2>5, <2>6, <2>7 DEF MoveRequest
<1> QED BY <1>2, <1>3, <1>4, <1>5 DEF Next

-----------------------------------------------------------------------------
(***************************************************************************)
(* The trees of a session.  In a grove every window is planted and no id   *)
(* is held by two windows: what Good says of the panes, said of the leaves *)
(* too, bare ones included.                                                *)
(***************************************************************************)

Map(ws) == ws = [j \in DOMAIN ws |-> ws[j]]

Apart(ws) == \A i, j \in DOMAIN ws : i # j => Held(ws[i]) \cap Held(ws[j]) = {}

Grove(ws, np, e) ==
  /\ \A i \in DOMAIN ws : Planted(ws[i], e) /\ Held(ws[i]) \subseteq 1 .. (np - 1)
  /\ Apart(ws)

LEMMA SetGrove ==
  ASSUME NEW np \in Nat, NEW np2 \in Nat, np <= np2, NEW e \in BOOLEAN, NEW e2 \in BOOLEAN,
         e2 => e, NEW ws, Grove(ws, np, e), NEW i, NEW w, Planted(w, e2),
         Held(w) \subseteq 1 .. (np2 - 1),
         \A j \in DOMAIN ws : j # i => Held(w) \cap Held(ws[j]) = {}
  PROVE  Grove(WithWindow(ws, i, w), np2, e2)
<1> DEFINE x == WithWindow(ws, i, w)
<1>1. /\ DOMAIN x = DOMAIN ws \cup {i}
      /\ \A j \in DOMAIN x : x[j] = IF j = i THEN w ELSE ws[j]
  BY DEF WithWindow
<1> HIDE DEF x
<1>2. 1 .. (np - 1) \subseteq 1 .. (np2 - 1)
  OBVIOUS
<1>3. \A j \in DOMAIN ws : Planted(ws[j], e2) /\ Held(ws[j]) \subseteq 1 .. (np2 - 1)
  BY <1>2 DEF Grove, Planted
<1>4. Apart(x)
  BY <1>1 DEF Grove, Apart
<1> QED BY <1>1, <1>3, <1>4 DEF Grove, x

LEMMA DropGrove ==
  ASSUME NEW np, NEW e, NEW ws, Grove(ws, np, e), NEW i
  PROVE  /\ Grove(WithoutWindow(ws, i), np, e)
         /\ i \in DOMAIN ws =>
              \A j \in DOMAIN WithoutWindow(ws, i) :
                Held(WithoutWindow(ws, i)[j]) \cap Held(ws[i]) = {}
<1> DEFINE x == WithoutWindow(ws, i)
<1>1. DOMAIN x = DOMAIN ws \ {i} /\ \A j \in DOMAIN x : x[j] = ws[j]
  BY DEF WithoutWindow
<1> HIDE DEF x
<1>2. Grove(x, np, e)
  BY <1>1 DEF Grove, Apart
<1>3. i \in DOMAIN ws => \A j \in DOMAIN x : Held(x[j]) \cap Held(ws[i]) = {}
  BY <1>1 DEF Grove, Apart
<1> QED BY <1>2, <1>3 DEF x

LEMMA ReplaceGrove ==
  ASSUME NEW np \in Nat \ {0}, NEW np2 \in Nat, np <= np2, NEW e \in BOOLEAN,
         NEW e2 \in BOOLEAN, e2 => e, NEW ws, Map(ws),
         Grove(ws, np, e), NEW i \in DOMAIN ws, NEW w, Planted(w, e2),
         \/ Held(w) \subseteq Held(ws[i])
         \/ np < np2 /\ Held(w) \subseteq Held(ws[i]) \cup {np}
  PROVE  Grove([ws EXCEPT ![i] = w], np2, e2)
<1>1. [ws EXCEPT ![i] = w] = WithWindow(ws, i, w)
  BY DEF WithWindow, Map
<1>2. \A j \in DOMAIN ws : Held(ws[j]) \subseteq 1 .. (np - 1)
  BY DEF Grove
<1>3. np \notin 1 .. (np - 1) /\ 1 .. (np - 1) \subseteq 1 .. (np2 - 1)
  OBVIOUS
<1>4. np < np2 => np \in 1 .. (np2 - 1)
  OBVIOUS
<1>5. Held(w) \subseteq 1 .. (np2 - 1)
  <2>1. Held(ws[i]) \subseteq 1 .. (np - 1)
    BY <1>2
  <2> QED BY <1>3, <1>4, <2>1
<1>6. ASSUME NEW j \in DOMAIN ws, j # i PROVE Held(w) \cap Held(ws[j]) = {}
  <2>1. Held(ws[i]) \cap Held(ws[j]) = {}
    BY <1>6 DEF Grove, Apart
  <2>2. np \notin Held(ws[j])
    BY <1>2, <1>3
  <2> QED BY <2>1, <2>2
<1>7. Grove(WithWindow(ws, i, w), np2, e2)
  BY <1>5, <1>6, SetGrove
<1> QED BY <1>1, <1>7

\* No window holds p.
Unheld(ws, p) == \A j \in DOMAIN ws : p \notin Held(ws[j])

\* What is taken from a window is then held by none.
LEMMA TakeUnheld ==
  ASSUME NEW np \in Nat \ {0}, NEW e \in BOOLEAN, NEW ws, Map(ws),
         Grove(ws, np, e), NEW i \in DOMAIN ws, NEW v, NEW p \in Held(ws[i]),
         Planted(v, e), Held(v) = Held(ws[i]) \ {p}, NEW x, x = WithWindow(ws, i, v)
  PROVE  Grove(x, np, e) /\ Unheld(x, p) /\ p \in 1 .. (np - 1)
<1>1. Grove(x, np, e)
  <2>1. np \in Nat /\ np <= np /\ Held(v) \subseteq Held(ws[i])
    OBVIOUS
  <2>2. Grove([ws EXCEPT ![i] = v], np, e)
    BY <2>1, ReplaceGrove
  <2>3. [ws EXCEPT ![i] = v] = x
    BY DEF WithWindow, Map
  <2> QED BY <2>2, <2>3
<1>2. DOMAIN x = DOMAIN ws /\ x[i] = v /\ \A j \in DOMAIN ws : j # i => x[j] = ws[j]
  BY DEF WithWindow
<1>3. \A j \in DOMAIN ws : j # i => Held(ws[i]) \cap Held(ws[j]) = {}
  BY DEF Grove, Apart
<1>4. Unheld(x, p)
  BY <1>2, <1>3 DEF Unheld
<1> QED BY <1>1, <1>4 DEF Grove

LEMMA TakeFocusedUnheld ==
  ASSUME NEW N \in Nat, NEW np \in Nat \ {0}, NEW ws, Good(ws, N, np), NEW e \in BOOLEAN,
         Grove(ws, np, e), NEW i \in DOMAIN ws, can_take_focused_pane(ws[i]),
         NEW x, x = [ws EXCEPT ![i] = take_focused_pane(ws[i])]
  PROVE  /\ Grove(x, np, e) /\ Unheld(x, ws[i].focus)
         /\ ws[i].focus \in 1 .. (np - 1)
<1> DEFINE v == take_focused_pane(ws[i])
           p == ws[i].focus
<1>1. WellFormed(ws[i], 1 .. N) /\ Planted(ws[i], e) /\ Map(ws)
  BY DEF Good, Grove, Map
<1>2. Planted(v, e) /\ Held(v) = Held(ws[i]) \ {p} /\ p \in Held(ws[i])
  BY <1>1, TakeFocusedIsById, TakeByIdPlanted
<1>3. x = WithWindow(ws, i, v)
  BY <1>1 DEF WithWindow, Map
<1> HIDE DEF v, p
<1>4. Grove(x, np, e) /\ Unheld(x, p) /\ p \in 1 .. (np - 1)
  BY <1>1, <1>2, <1>3, TakeUnheld
<1> QED BY <1>4 DEF p

LEMMA AfterTakeUnheld ==
  ASSUME IInv, NEW e \in BOOLEAN, Grove(windows, nextPane, e), NEW src \in DOMAIN windows,
         NEW p \in pane_ids(windows[src]), CanTake(src, p)
  PROVE  Grove(AfterTake(src, p), nextPane, e) /\ Unheld(AfterTake(src, p), p)
<1>1. /\ WellFormed(windows[src], 1 .. MaxPane) /\ nextPane \in Nat \ {0} /\ MaxPane \in Nat
      /\ Map(windows)
  BY SessionAssumption DEF IInv, Counters, Good, Map
<1>2. Planted(windows[src], e) /\ p \in Held(windows[src])
  BY DEF Grove, Planted, Held
<1>3. CASE IsLastPane(src)
  BY <1>2, <1>3, DropGrove DEF AfterTake, Unheld
<1>4. CASE ~ IsLastPane(src)
  <2> DEFINE v == take_pane_by_id(windows[src], p)
  <2>1. Planted(v, e) /\ Held(v) = Held(windows[src]) \ {p}
    BY <1>1, <1>2, <1>4, TakeByIdPlanted DEF CanTake
  <2>2. AfterTake(src, p) = WithWindow(windows, src, v)
    BY <1>1, <1>4 DEF AfterTake, WithWindow, Map
  <2> HIDE DEF v
  <2> QED BY <1>1, <1>2, <2>1, <2>2, TakeUnheld
<1> QED BY <1>3, <1>4

\* A pane no window holds may get a window of its own, or join one.
LEMMA PlaceUnheld ==
  ASSUME NEW N \in Nat, NEW np \in Nat \ {0}, NEW ws, Good(ws, N, np), NEW e \in BOOLEAN,
         Grove(ws, np, e), NEW p \in 1 .. N, p \in 1 .. (np - 1), Unheld(ws, p)
  PROVE  /\ \A i : Grove(WithWindow(ws, i, NewWindow(p)), np, e)
         /\ \A i \in DOMAIN ws, position \in Nat \cup {NoPosition} :
              Grove([ws EXCEPT ![i] = insert_pane_at(ws[i], p, position)], np, e)
<1>1. np \in Nat /\ np <= np /\ ws = [j \in DOMAIN ws |-> ws[j]]
  BY DEF Good
<1>2. ASSUME NEW i PROVE Grove(WithWindow(ws, i, NewWindow(p)), np, e)
  <2>1. Planted(NewWindow(p), e) /\ Held(NewWindow(p)) = {p}
    BY NewWindowPlanted
  <2>2. \A j \in DOMAIN ws : Held(NewWindow(p)) \cap Held(ws[j]) = {}
    BY <2>1 DEF Unheld
  <2>3. Held(NewWindow(p)) \subseteq 1 .. (np - 1)
    BY <2>1
  <2> QED BY <1>1, <2>1, <2>2, <2>3, SetGrove
<1>3. ASSUME NEW i \in DOMAIN ws, NEW position \in Nat \cup {NoPosition}
      PROVE  Grove([ws EXCEPT ![i] = insert_pane_at(ws[i], p, position)], np, e)
  <2> DEFINE v == insert_pane_at(ws[i], p, position)
  <2>1. WellFormed(ws[i], 1 .. N) /\ Planted(ws[i], e) /\ p \notin Held(ws[i])
    BY DEF Good, Grove, Unheld
  <2>2. Planted(v, e) /\ Held(v) = Held(ws[i]) \cup {p}
    BY <2>1, InsertPanePlanted
  <2> HIDE DEF v
  <2>3. \A j \in DOMAIN ws : j # i => Held(v) \cap Held(ws[j]) = {}
    BY <2>2 DEF Unheld, Grove, Apart
  <2>4. Held(v) \subseteq 1 .. (np - 1)
    BY <2>2 DEF Grove
  <2>5. Grove(WithWindow(ws, i, v), np, e)
    BY <1>1, <2>2, <2>3, <2>4, SetGrove
  <2>6. [ws EXCEPT ![i] = v] = WithWindow(ws, i, v)
    BY <1>1 DEF WithWindow
  <2> QED BY <2>5, <2>6 DEF v
<1> QED BY <1>2, <1>3

LEMMA FocusedGroveStep ==
  ASSUME IInv, HasFocusedWindow, NEW e \in BOOLEAN, NEW e2 \in BOOLEAN, e2 => e,
         Grove(windows, nextPane, e), NEW w, SetFocusedWindow(w), Planted(w, e2),
         \/ UNCHANGED nextPane /\ Held(w) \subseteq Held(windows[focused])
         \/ /\ nextPane' = nextPane + 1
            /\ Held(w) \subseteq Held(windows[focused]) \cup {nextPane}
  PROVE  Grove(windows', nextPane', e2)
<1>1. /\ nextPane \in Nat \ {0} /\ nextPane' \in Nat /\ nextPane <= nextPane'
      /\ Map(windows)
  BY SessionAssumption DEF IInv, Counters, Good, Map
<1>2. focused \in DOMAIN windows /\ windows' = [windows EXCEPT ![focused] = w]
  BY DEF HasFocusedWindow, SetFocusedWindow
<1>3. \/ Held(w) \subseteq Held(windows[focused])
      \/ nextPane < nextPane' /\ Held(w) \subseteq Held(windows[focused]) \cup {nextPane}
  BY <1>1
<1>4. Grove([windows EXCEPT ![focused] = w], nextPane', e2)
  BY <1>1, <1>2, <1>3, ReplaceGrove
<1> QED BY <1>2, <1>4

\* The requests about the focused window, but those that make trouble.
LEMMA FocusedRequestGrove ==
  ASSUME IInv, NEW e \in BOOLEAN, Grove(windows, nextPane, e), FocusedWindowRequest,
         ~ ForeignSwap, ~ SplitSpawnFails
  PROVE  Grove(windows', nextPane', e)
<1> DEFINE w == windows[focused]
<1>1. MaxPane \in Nat /\ nextPane \in 1 .. (MaxPane + 1)
  BY SessionAssumption DEF IInv, Counters
<1>2. ASSUME HasFocusedWindow
      PROVE  /\ WellFormed(w, 1 .. MaxPane) /\ Planted(w, e)
             /\ Held(w) \subseteq 1 .. (nextPane - 1) /\ nextPane \notin Held(w)
             /\ nextPane <= MaxPane => nextPane \in 1 .. MaxPane
  <2>1. Planted(w, e) /\ Held(w) \subseteq 1 .. (nextPane - 1)
    BY <1>2 DEF Grove, HasFocusedWindow
  <2>2. nextPane \notin 1 .. (nextPane - 1)
    BY <1>1
  <2> QED BY <1>2, <2>1, <2>2, FocusedWindowFacts
<1>3. ASSUME NEW v, HasFocusedWindow, SetFocusedWindow(v), Planted(v, e),
             \/ UNCHANGED nextPane /\ Held(v) \subseteq Held(w)
             \/ nextPane' = nextPane + 1 /\ Held(v) \subseteq Held(w) \cup {nextPane}
      PROVE  Grove(windows', nextPane', e)
  BY <1>3, FocusedGroveStep
<1>4. CASE Split
  <2>1. /\ WellFormed(w, 1 .. MaxPane) /\ Planted(w, e)
        /\ nextPane \in 1 .. MaxPane /\ nextPane \notin Held(w)
    BY <1>2, <1>4 DEF Split
  <2>2. /\ Planted(add_pane(w, nextPane), e)
        /\ Held(add_pane(w, nextPane)) = Held(w) \cup {nextPane}
    <3> HIDE DEF w
    <3> QED BY <1>1, <2>1, SplitPlanted
  <2> QED BY <1>3, <1>4, <2>2 DEF Split
<1>5. CASE ConnectSerial
  <2>1. /\ WellFormed(w, 1 .. MaxPane) /\ Planted(w, e)
        /\ nextPane \in 1 .. MaxPane /\ nextPane \notin Held(w)
    BY <1>2, <1>5 DEF ConnectSerial
  <2>2. /\ Planted(add_serial_pane(w, nextPane), e)
        /\ Held(add_serial_pane(w, nextPane)) = Held(w) \cup {nextPane}
    <3> HIDE DEF w
    <3> QED BY <1>1, <2>1, SplitPlanted
  <2> QED BY <1>3, <1>5, <2>2 DEF ConnectSerial
<1>6. CASE ClosePane
  <2>1. Planted(remove_focused_pane(w), e) /\ Held(remove_focused_pane(w)) \subseteq Held(w)
    BY <1>1, <1>2, <1>6, RemoveFocusedPlanted DEF ClosePane
  <2> QED BY <1>3, <1>6, <2>1 DEF ClosePane
<1>7. ASSUME NEW target \in 1 .. (nextPane - 1), SwapPane(target)
      PROVE  Grove(windows', nextPane', e)
  <2>1. target \in pane_ids(w)
    BY <1>7 DEF ForeignSwap
  <2>2. /\ Planted(swap_focused_with(w, target), e)
        /\ Held(swap_focused_with(w, target)) = Held(w)
    BY <1>2, <1>7, <2>1, SwapPlanted DEF SwapPane
  <2> QED BY <1>3, <1>7, <2>2 DEF SwapPane
<1>8. ASSUME HasFocusedWindow, UNCHANGED nextPane, NEW p, NEW requested,
             \/ SetFocusedWindow(set_focused_pane(w, p))
             \/ SetFocusedWindow(focus_next(w)) \/ SetFocusedWindow(focus_prev(w))
             \/ SetFocusedWindow(reorder_panes(w, requested))
             \/ SetFocusedWindow(close_floating_pane(w, p))
      PROVE  Grove(windows', nextPane', e)
  <2>1. PICK v : /\ SetFocusedWindow(v)
                 /\ \/ v = set_focused_pane(w, p) \/ v = focus_next(w) \/ v = focus_prev(w)
                    \/ v = reorder_panes(w, requested) \/ v = close_floating_pane(w, p)
    BY <1>8
  <2>2. Planted(v, e) /\ Held(v) \subseteq Held(w)
    BY <1>2, <1>8, <2>1, OthersPlanted
  <2> QED BY <1>3, <1>8, <2>1, <2>2
<1>9. CASE OpenFloatingPane
  <2>1. /\ Planted(open_floating_pane(w, nextPane), e)
        /\ Held(open_floating_pane(w, nextPane)) = Held(w) \cup {nextPane}
    BY <1>2, <1>9, OpenFloatingPlanted DEF OpenFloatingPane
  <2> QED BY <1>3, <1>9, <2>1 DEF OpenFloatingPane
<1> HIDE DEF w
<1>10. ASSUME NEW p \in PaneId, FocusPane(p) \/ CloseFloatingPane(p)
       PROVE  Grove(windows', nextPane', e)
  BY <1>8, <1>10 DEF FocusPane, CloseFloatingPane, w
<1>11. ASSUME NEW requested \in Requests, ReorderPanes(requested)
       PROVE  Grove(windows', nextPane', e)
  BY <1>8, <1>11 DEF ReorderPanes, w
<1>12. ASSUME FocusNextPane \/ FocusPrevPane PROVE Grove(windows', nextPane', e)
  BY <1>8, <1>12 DEF FocusNextPane, FocusPrevPane, w
<1> QED BY <1>4, <1>5, <1>6, <1>7, <1>9, <1>10, <1>11, <1>12 DEF FocusedWindowRequest

LEMMA WindowRequestGrove ==
  ASSUME IInv, NEW e \in BOOLEAN, Grove(windows, nextPane, e), WindowRequest
  PROVE  Grove(windows', nextPane', e)
<1>1. CASE AddWindow
  <2>1. /\ nextPane \in Nat /\ nextPane' \in Nat /\ nextPane <= nextPane'
        /\ nextPane \in 1 .. (nextPane' - 1) /\ nextPane \notin 1 .. (nextPane - 1)
    BY <1>1, SessionAssumption DEF AddWindow, IInv, Counters
  <2>2. Planted(NewWindow(nextPane), e) /\ Held(NewWindow(nextPane)) = {nextPane}
    BY NewWindowPlanted
  <2>3. \A j \in DOMAIN windows : Held(NewWindow(nextPane)) \cap Held(windows[j]) = {}
    BY <2>1, <2>2 DEF Grove
  <2>4. Held(NewWindow(nextPane)) \subseteq 1 .. (nextPane' - 1)
    BY <2>1, <2>2
  <2>5. Grove(WithWindow(windows, nextWindow, NewWindow(nextPane)), nextPane', e)
    BY <2>1, <2>2, <2>3, <2>4, SetGrove
  <2> QED BY <1>1, <2>5 DEF AddWindow
<1>2. ASSUME NEW id \in WindowId, CloseWindow(id) PROVE Grove(windows', nextPane', e)
  BY <1>2, DropGrove DEF CloseWindow
<1>3. ASSUME NEW id \in WindowId, FocusWindow(id) PROVE Grove(windows', nextPane', e)
  BY <1>3 DEF FocusWindow
<1>4. ASSUME NEW enabled \in BOOLEAN, SetBroadcast(enabled) PROVE Grove(windows', nextPane', e)
  BY <1>4 DEF SetBroadcast
<1> QED BY <1>1, <1>2, <1>3, <1>4 DEF WindowRequest

LEMMA MoveRequestGrove ==
  ASSUME IInv, NEW e \in BOOLEAN, Grove(windows, nextPane, e), MoveRequest,
         ~ SerialTakeRefused
  PROVE  Grove(windows', nextPane', e)
<1>1. Good(windows, MaxPane, nextPane) /\ nextPane \in Nat \ {0} /\ MaxPane \in Nat
  BY SessionAssumption DEF IInv, Counters
<1>2. CASE BreakPane
  <2> DEFINE p == windows[focused].focus
             x == [windows EXCEPT ![focused] = take_focused_pane(windows[focused])]
  <2>1. focused \in DOMAIN windows /\ can_take_focused_pane(windows[focused])
    BY <1>2 DEF BreakPane, HasFocusedWindow
  <2>2. Good(x, MaxPane, nextPane) /\ p \in 1 .. MaxPane /\ p \in 1 .. (nextPane - 1)
    BY <1>1, <2>1, TakeFocusedFrees
  <2>3. Grove(x, nextPane, e) /\ Unheld(x, p)
    BY <1>1, <2>1, TakeFocusedUnheld
  <2>4. windows' = WithWindow(x, nextWindow, NewWindow(p)) /\ nextPane' = nextPane
    BY <1>2 DEF BreakPane
  <2> HIDE DEF x, p
  <2> QED BY <1>1, <2>2, <2>3, <2>4, PlaceUnheld
<1>3. CASE TakeFocusedRefused
  <2>1. /\ HasFocusedWindow /\ ~ can_take_focused_pane(windows[focused])
        /\ windows[focused].focus \notin windows[focused].serial
        /\ windows' = [windows EXCEPT ![focused] = take_focused_pane(windows[focused])]
        /\ nextPane' = nextPane
    BY <1>3 DEF TakeFocusedRefused, SetFocusedWindow, SerialTakeRefused
  <2>2. take_focused_pane(windows[focused]) = windows[focused]
    BY <1>1, <2>1, RefusedUnchanged DEF Good, HasFocusedWindow
  <2>3. windows' = windows
    BY <1>1, <2>1, <2>2 DEF Good
  <2> QED BY <2>1, <2>3
<1>4. ASSUME NEW target \in NameableWindows, JoinPane(target)
      PROVE  Grove(windows', nextPane', e)
  <2> DEFINE p == windows[focused].focus
             x == [windows EXCEPT ![focused] = take_focused_pane(windows[focused])]
  <2>1. /\ focused \in DOMAIN windows /\ can_take_focused_pane(windows[focused])
        /\ target # focused /\ target \in DOMAIN windows
    BY <1>4 DEF JoinPane, HasFocusedWindow
  <2>2. /\ Good(x, MaxPane, nextPane) /\ DOMAIN x = DOMAIN windows
        /\ p \in 1 .. MaxPane /\ p \in 1 .. (nextPane - 1)
    BY <1>1, <2>1, TakeFocusedFrees
  <2>3. Grove(x, nextPane, e) /\ Unheld(x, p)
    BY <1>1, <2>1, TakeFocusedUnheld
  <2>4. /\ windows' = [x EXCEPT ![target] = insert_pane_at(x[target], p, NoPosition)]
        /\ nextPane' = nextPane
    BY <1>4, <2>1 DEF JoinPane
  <2> HIDE DEF x, p
  <2> QED BY <1>1, <2>1, <2>2, <2>3, <2>4, PlaceUnheld
<1>5. ASSUME NEW target \in NameableWindows, JoinMissingWindow(target)
      PROVE  Grove(windows', nextPane', e)
  <2>1. HasFocusedWindow /\ can_take_focused_pane(windows[focused])
    BY <1>5 DEF JoinMissingWindow
  <2>2. WellFormed(windows[focused], 1 .. MaxPane) /\ Planted(windows[focused], e)
    BY <2>1, FocusedWindowFacts DEF Grove, HasFocusedWindow
  <2> DEFINE v == take_focused_pane(windows[focused])
  <2>3. Planted(v, e) /\ Held(v) \subseteq Held(windows[focused])
    BY <1>1, <2>1, <2>2, TakeFocusedIsById, TakeByIdPlanted
  <2>4. SetFocusedWindow(v) /\ UNCHANGED nextPane
    BY <1>5 DEF JoinMissingWindow
  <2> HIDE DEF v
  <2> QED BY <2>1, <2>3, <2>4, FocusedGroveStep
<1>6. ASSUME NEW src \in DOMAIN windows, NEW p \in pane_ids(windows[src]), CanTake(src, p)
      PROVE  LET x == AfterTake(src, p)
             IN  /\ Good(x, MaxPane, nextPane) /\ Grove(x, nextPane, e) /\ Unheld(x, p)
                 /\ DOMAIN windows \ {src} \subseteq DOMAIN x
                 /\ p \in 1 .. MaxPane /\ p \in 1 .. (nextPane - 1)
  BY <1>6, AfterTakeFrees, AfterTakeUnheld
<1>7. ASSUME NEW src \in DOMAIN windows, NEW p \in PaneId, MovePaneToNewWindow(src, p)
      PROVE  Grove(windows', nextPane', e)
  <2> DEFINE x == AfterTake(src, p)
  <2>1. p \in pane_ids(windows[src]) /\ CanTake(src, p)
    BY <1>7 DEF MovePaneToNewWindow
  <2>2. /\ Good(x, MaxPane, nextPane) /\ Grove(x, nextPane, e) /\ Unheld(x, p)
        /\ p \in 1 .. MaxPane /\ p \in 1 .. (nextPane - 1)
    BY <1>6, <2>1
  <2>3. windows' = WithWindow(x, nextWindow, NewWindow(p)) /\ nextPane' = nextPane
    BY <1>7 DEF MovePaneToNewWindow
  <2> HIDE DEF x
  <2> QED BY <1>1, <2>2, <2>3, PlaceUnheld
<1>8. ASSUME NEW src \in DOMAIN windows, NEW p \in PaneId, NEW target \in NameableWindows,
             MovePaneToMissingWindow(src, p, target)
      PROVE  Grove(windows', nextPane', e)
  BY <1>6, <1>8 DEF MovePaneToMissingWindow
<1>9. ASSUME NEW src \in DOMAIN windows, NEW p \in PaneId, NEW target \in NameableWindows,
             NEW position \in {NoPosition} \cup 0 .. MaxPane,
             MovePaneToWindow(src, p, target, position)
      PROVE  Grove(windows', nextPane', e)
  <2> DEFINE x == AfterTake(src, p)
  <2>1. p \in pane_ids(windows[src]) /\ CanTake(src, p)
    BY <1>9 DEF MovePaneToWindow
  <2>2. /\ Good(x, MaxPane, nextPane) /\ Grove(x, nextPane, e) /\ Unheld(x, p)
        /\ DOMAIN windows \ {src} \subseteq DOMAIN x
        /\ p \in 1 .. MaxPane /\ p \in 1 .. (nextPane - 1)
    BY <1>6, <2>1
  <2>3. /\ windows' = [x EXCEPT ![target] = insert_pane_at(x[target], p, position)]
        /\ target \in DOMAIN windows /\ target # src /\ nextPane' = nextPane
    BY <1>9 DEF MovePaneToWindow
  <2> HIDE DEF x
  <2>4. target \in DOMAIN x /\ position \in Nat \cup {NoPosition}
    BY <1>1, <2>2, <2>3
  <2> QED BY <1>1, <2>2, <2>3, <2>4, PlaceUnheld
<1> QED BY <1>2, <1>3, <1>4, <1>5, <1>7, <1>8, <1>9 DEF MoveRequest

\* Every request keeps a grove, but for those that make trouble; a failed spawn
\* plants a bare leaf in it.
LEMMA GroveStep ==
  ASSUME IInv, NEW e \in BOOLEAN, Grove(windows, nextPane, e), NEW e2 \in BOOLEAN,
         e2 => e /\ ~ SplitSpawnFails, [Next]_vars, ~ ForeignSwap, ~ SerialTakeRefused
  PROVE  Grove(windows', nextPane', e2)
<1>1. CASE SplitSpawnFails
  <2>1. /\ HasFocusedWindow /\ nextPane <= MaxPane /\ nextPane' = nextPane + 1
        /\ SetFocusedWindow(add_pane_spawn_failed(windows[focused], nextPane))
    BY <1>1 DEF SplitSpawnFails
  <2>2. /\ WellFormed(windows[focused], 1 .. MaxPane) /\ Planted(windows[focused], e)
        /\ nextPane \notin Held(windows[focused]) /\ nextPane \in 1 .. MaxPane
    <3>1. nextPane \notin 1 .. (nextPane - 1)
      BY DEF IInv, Counters
    <3>2. Planted(windows[focused], e) /\ Held(windows[focused]) \subseteq 1 .. (nextPane - 1)
      BY <2>1 DEF Grove, HasFocusedWindow
    <3> QED BY <2>1, <3>1, <3>2, FocusedWindowFacts
  <2> DEFINE v == add_pane_spawn_failed(windows[focused], nextPane)
  <2>3. Planted(v, e2) /\ Held(v) = Held(windows[focused]) \cup {nextPane}
    <3> DEFINE w == windows[focused]
    <3>1. /\ WellFormed(w, 1 .. MaxPane) /\ Planted(w, e)
          /\ nextPane \notin Held(w) /\ nextPane \in 1 .. MaxPane
      BY <2>2
    <3> HIDE DEF w
    <3>2. /\ Planted(add_pane_spawn_failed(w, nextPane), e2)
          /\ Held(add_pane_spawn_failed(w, nextPane)) = Held(w) \cup {nextPane}
      BY <1>1, <3>1, SessionAssumption, BareLeafPlanted
    <3> QED BY <3>2 DEF w
  <2>4. SetFocusedWindow(v)
    BY <2>1
  <2> HIDE DEF v
  <2>5. e2 => e
    OBVIOUS
  <2> QED BY <2>1, <2>3, <2>4, <2>5, FocusedGroveStep
<1>2. CASE ~ SplitSpawnFails
  <2>1. Grove(windows', nextPane', e)
    <3>1. CASE UNCHANGED vars
      BY <3>1 DEF vars
    <3>2. CASE Next
      BY <1>2, <3>2, FocusedRequestGrove, WindowRequestGrove, MoveRequestGrove DEF Next
    <3> QED BY <3>1, <3>2
  <2> QED BY <2>1 DEF Grove, Planted
<1> QED BY <1>1, <1>2

-----------------------------------------------------------------------------
(***************************************************************************)
(* Theorems about Restart, for every number of panes and windows and any   *)
(* series of saves, kills, restarts and partial restores.  The file is     *)
(* taken unchecked by the code that restores it, so what makes a restored  *)
(* session good is what it was when it was saved: the invariant says of    *)
(* the session and of the file what the requests since the trees were last *)
(* whole allow, and nothing but types once a tree is torn.                 *)
(***************************************************************************)

Sound(ws, np, t) ==
  NotTorn(t) => Good(ws, MaxPane, np) /\ Grove(ws, np, "ghost" \notin t)

TypedFile(d) ==
  /\ DOMAIN d.windows \subseteq WindowId /\ d.focused \in WindowId
  /\ \A i \in DOMAIN d.windows : d.windows[i] \in [layout : Seq(PaneId), focus : PaneId]

\* The file of a session without torn trees.
SoundFile(d) ==
  /\ \A i \in DOMAIN d.windows : /\ IsInjective(d.windows[i].layout)
                                 /\ d.windows[i].focus \in Range(d.windows[i].layout)
  /\ \A i, j \in DOMAIN d.windows :
       i # j => Range(d.windows[i].layout) \cap Range(d.windows[j].layout) = {}

\* The file has what the session s had when it was written.
Agrees(d, s) ==
  /\ DOMAIN d.windows = DOMAIN s.windows /\ d.focused = s.focused
  /\ \A i \in DOMAIN d.windows :
       /\ d.windows[i].focus = s.windows[i].focus
       /\ NotTorn(s.troubles) => s.windows[i].panes \subseteq Range(d.windows[i].layout)
       /\ s.troubles = {} => Range(d.windows[i].layout) \subseteq s.windows[i].panes

FileInv(d, s) ==
  /\ TypedFile(d) /\ s.troubles \subseteq Trouble
  /\ NotTorn(s.troubles) => SoundFile(d)
  /\ Agrees(d, s)

\* The inductive invariant.
RInv ==
  /\ TInv /\ WindowsIssued
  /\ exists \in BOOLEAN /\ troubles \subseteq Trouble
  /\ Sound(windows, nextPane, troubles)
  /\ FileInv(disk, saved)

-----------------------------------------------------------------------------
(***************************************************************************)
(* The id counters.                                                        *)
(***************************************************************************)

\* The greatest of some bounded naturals.
LEMMA MaxIsGreatest ==
  ASSUME NEW N \in Nat, NEW T \in SUBSET (0 .. N), T # {}
  PROVE  Max(T) \in T /\ \A y \in T : y <= Max(T)
<1> DEFINE U == {N - x : x \in T}
<1>1. U \in SUBSET Nat /\ U # {}
  <2>1. \A x \in T : N - x \in Nat
    OBVIOUS
  <2> QED BY <2>1
<1>2. Min(U) \in U /\ \A y \in U : Min(U) <= y
  BY <1>1, MinProperty
<1>3. PICK x \in T : Min(U) = N - x
  BY <1>2
<1>4. \A y \in T : y <= x
  <2> TAKE y \in T
  <2>1. N - x <= N - y
    BY <1>2, <1>3
  <2> QED BY <2>1
<1>5. \E z \in T : \A y \in T : z >= y
  BY <1>4
<1> QED BY <1>5 DEF Max

LEMMA RangeInSet == ASSUME NEW P, NEW s \in Seq(P) PROVE Range(s) \subseteq P
<1>1. DOMAIN s = 1 .. Len(s) /\ \A i \in 1 .. Len(s) : s[i] \in P
  OBVIOUS
<1> QED BY <1>1 DEF Range

LEMMA CountersRaised ==
  ASSUME TypedFile(disk)
  PROVE  /\ set_min_id(max_pane_id(disk) + 1) \in 1 .. (MaxPane + 1)
         /\ set_min_id(max_window_id(disk) + 1) \in 1 .. (MaxWindow + 1)
         /\ \A i \in DOMAIN disk.windows :
              /\ i < set_min_id(max_window_id(disk) + 1)
              /\ Range(disk.windows[i].layout) \subseteq
                   1 .. (set_min_id(max_pane_id(disk) + 1) - 1)
<1> DEFINE P == {0} \cup UNION {Range(disk.windows[i].layout) : i \in DOMAIN disk.windows}
           W == {0} \cup DOMAIN disk.windows
<1>1. MaxPane \in Nat \ {0} /\ MaxWindow \in Nat \ {0}
  BY SessionAssumption
<1>2. \A i \in DOMAIN disk.windows : Range(disk.windows[i].layout) \subseteq 1 .. MaxPane
  <2> TAKE i \in DOMAIN disk.windows
  <2>1. disk.windows[i].layout \in Seq(1 .. MaxPane)
    BY DEF TypedFile, PaneId
  <2> QED BY <2>1, RangeInSet
<1>3. P \in SUBSET (0 .. MaxPane) /\ W \in SUBSET (0 .. MaxWindow)
  <2>1. P \subseteq 0 .. MaxPane
    <3>1. \A y \in P : y = 0 \/ \E i \in DOMAIN disk.windows : y \in Range(disk.windows[i].layout)
      OBVIOUS
    <3>2. 0 \in 0 .. MaxPane /\ 1 .. MaxPane \subseteq 0 .. MaxPane
      BY <1>1
    <3> HIDE DEF P
    <3> QED BY <1>2, <3>1, <3>2
  <2>2. W \subseteq 0 .. MaxWindow
    BY <1>1 DEF TypedFile, WindowId
  <2> QED BY <2>1, <2>2
<1> DEFINE p == Max(P)
           w == Max(W)
<1>4. /\ p \in 0 .. MaxPane /\ (\A y \in P : y <= p)
      /\ w \in 0 .. MaxWindow /\ (\A y \in W : y <= w)
  <2>1. P # {} /\ W # {}
    OBVIOUS
  <2> HIDE DEF P, W
  <2> QED BY <1>1, <1>3, <2>1, MaxIsGreatest
<1>5. ASSUME NEW N \in Nat, NEW m \in 0 .. N PROVE set_min_id(m + 1) = m + 1
  <2>1. {1, m + 1} \in SUBSET (0 .. (N + 1)) /\ N + 1 \in Nat
    OBVIOUS
  <2>2. Max({1, m + 1}) \in {1, m + 1} /\ \A y \in {1, m + 1} : y <= Max({1, m + 1})
    BY <2>1, MaxIsGreatest
  <2> QED BY <2>2 DEF set_min_id
<1>6. set_min_id(p + 1) = p + 1 /\ set_min_id(w + 1) = w + 1
  <2> HIDE DEF p, w
  <2> QED BY <1>1, <1>4, <1>5
<1>7. max_pane_id(disk) = p /\ max_window_id(disk) = w
  BY DEF max_pane_id, max_window_id
<1>8. \A i \in DOMAIN disk.windows :
        i <= w /\ \A q \in Range(disk.windows[i].layout) : q <= p
  <2> HIDE DEF p, w
  <2> QED BY <1>4
<1> HIDE DEF p, w
<1>9. \A i \in DOMAIN disk.windows : i \in Int
  BY <1>1 DEF TypedFile, WindowId
<1> QED BY <1>1, <1>2, <1>4, <1>6, <1>7, <1>8, <1>9

-----------------------------------------------------------------------------
(***************************************************************************)
(* Saving and restoring.                                                   *)
(***************************************************************************)

\* The file of a session, and what is remembered of it.
LEMMA SnapshotKept ==
  ASSUME NEW ws, NEW np, NEW f \in WindowId, NEW t \in SUBSET Trouble,
         AllTyped(ws, MaxPane), DOMAIN ws \subseteq WindowId, Sound(ws, np, t)
  PROVE  FileInv(session_snapshot(ws, f), Remembered(ws, f, t))
<1> DEFINE d == session_snapshot(ws, f)
           s == Remembered(ws, f, t)
<1>1. /\ DOMAIN d.windows = DOMAIN ws /\ d.focused = f
      /\ DOMAIN s.windows = DOMAIN ws /\ s.focused = f /\ s.troubles = t
      /\ \A i \in DOMAIN ws : /\ d.windows[i] = [layout |-> ws[i].layout, focus |-> ws[i].focus]
                              /\ d.windows[i].layout = ws[i].layout
                              /\ d.windows[i].focus = ws[i].focus
                              /\ s.windows[i].panes = pane_ids(ws[i])
                              /\ s.windows[i].focus = ws[i].focus
  BY DEF session_snapshot, window_snapshot, Remembered
<1> HIDE DEF d, s
<1>2. TypedFile(d)
  <2>1. \A i \in DOMAIN ws : ws[i].layout \in Seq(PaneId) /\ ws[i].focus \in PaneId
    BY DEF AllTyped, WindowOver, PaneId
  <2>2. \A i \in DOMAIN ws : [layout |-> ws[i].layout, focus |-> ws[i].focus]
                               \in [layout : Seq(PaneId), focus : PaneId]
    BY <2>1
  <2>3. \A i \in DOMAIN d.windows : d.windows[i] \in [layout : Seq(PaneId), focus : PaneId]
    BY <1>1, <2>2
  <2> QED BY <1>1, <2>3 DEF TypedFile
<1>3. ASSUME NotTorn(t), NEW i \in DOMAIN ws
      PROVE  /\ IsInjective(ws[i].layout) /\ pane_ids(ws[i]) \subseteq Range(ws[i].layout)
             /\ ws[i].focus \in Range(ws[i].layout)
             /\ t = {} => Range(ws[i].layout) \subseteq pane_ids(ws[i])
  <2>1. WellFormed(ws[i], 1 .. MaxPane) /\ Planted(ws[i], "ghost" \notin t)
    BY <1>3 DEF Sound, Good, Grove
  <2> QED BY <2>1 DEF WellFormed, Planted
<1>4. ASSUME NotTorn(t) PROVE SoundFile(d)
  <2>1. \A i, j \in DOMAIN ws : i # j => Range(ws[i].layout) \cap Range(ws[j].layout) = {}
    BY <1>4 DEF Sound, Grove, Apart, Held
  <2>2. \A i \in DOMAIN ws : IsInjective(ws[i].layout) /\ ws[i].focus \in Range(ws[i].layout)
    BY <1>3, <1>4
  <2> QED BY <1>1, <2>1, <2>2 DEF SoundFile
<1>5. Agrees(d, s)
  <2>1. t = {} => NotTorn(t)
    BY DEF NotTorn
  <2>2. ASSUME NEW i \in DOMAIN ws
        PROVE  /\ NotTorn(t) => pane_ids(ws[i]) \subseteq Range(ws[i].layout)
               /\ t = {} => Range(ws[i].layout) \subseteq pane_ids(ws[i])
    BY <1>3, <2>1
  <2>3. ASSUME NEW i \in DOMAIN ws
        PROVE  /\ d.windows[i].focus = s.windows[i].focus
               /\ NotTorn(s.troubles) => s.windows[i].panes \subseteq Range(d.windows[i].layout)
               /\ s.troubles = {} => Range(d.windows[i].layout) \subseteq s.windows[i].panes
    <3>1. /\ d.windows[i].layout = ws[i].layout /\ s.windows[i].panes = pane_ids(ws[i])
          /\ d.windows[i].focus = ws[i].focus /\ s.windows[i].focus = ws[i].focus
          /\ s.troubles = t
      BY <1>1
    <3> QED BY <3>1, <2>2
  <2>4. DOMAIN d.windows = DOMAIN ws /\ DOMAIN s.windows = DOMAIN ws /\ d.focused = s.focused
    BY <1>1
  <2> QED BY <2>3, <2>4 DEF Agrees
<1>6. FileInv(d, s)
  BY <1>1, <1>2, <1>4, <1>5 DEF FileInv
<1> QED BY <1>6 DEF d, s

\* Without sessions there is nothing to be wrong with.
LEMMA NoWindowsGood ==
  ASSUME NEW np, NEW t
  PROVE  /\ AllTyped(NoWindows, MaxPane) /\ Sound(NoWindows, np, t)
         /\ DOMAIN NoWindows = {}
BY DEF NoWindows, AllTyped, Sound, Good, Disjoint, Grove, Apart

LEMMA NothingKept == FileInv(Nothing, Remembered(NoWindows, 1, {}))
<1>1. /\ DOMAIN Nothing.windows = {} /\ Nothing.focused = 1
      /\ DOMAIN Remembered(NoWindows, 1, {}).windows = {}
      /\ Remembered(NoWindows, 1, {}).focused = 1
      /\ Remembered(NoWindows, 1, {}).troubles = {}
  BY DEF Nothing, Remembered, NoWindows
<1>2. 1 \in WindowId
  BY SessionAssumption DEF WindowId
<1> QED BY <1>1, <1>2 DEF FileInv, TypedFile, SoundFile, Agrees

\* A window that comes back from the file.
LEMMA WindowRestored ==
  ASSUME NEW s \in [layout : Seq(PaneId), focus : PaneId]
  PROVE  /\ window_restored(s) \in WindowOver(1 .. MaxPane)
         /\ pane_ids(window_restored(s)) = Range(s.layout)
         /\ window_restored(s).focus = s.focus
         /\ IsInjective(s.layout) /\ s.focus \in Range(s.layout) =>
              /\ WellFormed(window_restored(s), 1 .. MaxPane)
              /\ Planted(window_restored(s), TRUE)
              /\ Owned(window_restored(s)) = Range(s.layout)
              /\ Held(window_restored(s)) = Range(s.layout)
<1> DEFINE v == window_restored(s)
<1>1. s.layout \in Seq(1 .. MaxPane) /\ s.focus \in 1 .. MaxPane
  BY DEF PaneId
<1>2. Range(s.layout) \subseteq 1 .. MaxPane
  BY <1>1, RangeInSet
<1>3. /\ v.panes = Range(s.layout) /\ v.serial = {} /\ v.floating = {}
      /\ v.layout = s.layout /\ v.order = s.layout /\ v.focus = s.focus
      /\ v \in WindowOver(1 .. MaxPane)
  BY <1>1, <1>2 DEF window_restored, WindowOver
<1> HIDE DEF v
<1>4. pane_ids(v) = Range(s.layout) /\ Owned(v) = Range(s.layout) /\ Held(v) = Range(s.layout)
  BY <1>3 DEF pane_ids, Owned, Held
<1>5. ASSUME IsInjective(s.layout), s.focus \in Range(s.layout)
      PROVE  WellFormed(v, 1 .. MaxPane) /\ Planted(v, TRUE)
  BY <1>3, <1>4, <1>5 DEF WellFormed, Planted
<1> QED BY <1>3, <1>4, <1>5 DEF v

-----------------------------------------------------------------------------
(***************************************************************************)
(* The steps.                                                              *)
(***************************************************************************)

LEMMA CreateKeeps ==
  ASSUME RInv, CreateSession
  PROVE  RInv'
<1>1. /\ nextPane \in 1 .. MaxPane /\ nextWindow \in 1 .. MaxWindow
      /\ nextPane' = nextPane + 1 /\ nextWindow' = nextWindow + 1
      /\ MaxPane \in Nat /\ MaxWindow \in Nat
  BY SessionAssumption DEF CreateSession, RInv, TInv, Counters
<1>2. /\ WellFormed(NewWindow(nextPane), 1 .. MaxPane) /\ Owned(NewWindow(nextPane)) = {nextPane}
      /\ nextPane \in 1 .. (nextPane' - 1)
  <2>1. nextPane \in 1 .. (nextPane' - 1)
    BY <1>1
  <2> QED BY <1>1, <2>1, NewWindowWellFormed
<1>3. /\ windows' = [i \in {nextWindow} |-> NewWindow(nextPane)] /\ focused' = nextWindow
      /\ exists' = TRUE /\ broadcast' = FALSE /\ troubles' = {}
      /\ disk' = disk /\ saved' = saved
  BY DEF CreateSession
<1>4. Good(windows', MaxPane, nextPane') /\ AllTyped(windows', MaxPane)
  BY <1>2, <1>3 DEF Good, Disjoint, AllTyped, WellFormed
<1>5. ASSUME NEW e PROVE Grove(windows', nextPane', e)
  BY <1>2, <1>3, NewWindowPlanted DEF Grove, Apart
<1>6. Counters'
  <2>1. /\ nextPane' \in 1 .. (MaxPane + 1) /\ nextWindow' \in 1 .. (MaxWindow + 1)
        /\ nextWindow \in WindowId
    BY <1>1 DEF WindowId
  <2>2. DOMAIN windows' = {nextWindow}
    BY <1>3
  <2> QED BY <1>3, <2>1, <2>2 DEF Counters
<1>7. WindowsIssued'
  BY <1>1, <1>3 DEF WindowsIssued
<1>8. Sound(windows', nextPane', troubles')
  BY <1>4, <1>5 DEF Sound
<1>9. FileInv(disk', saved')
  BY <1>3 DEF RInv
<1>10. exists' \in BOOLEAN /\ troubles' \subseteq Trouble
  BY <1>3
<1> QED BY <1>4, <1>6, <1>7, <1>8, <1>9, <1>10 DEF RInv, TInv

\* The windows of a restart have the panes and the focus of the file, and are
\* good ones if the file is.
LEMMA RestartWindows ==
  ASSUME RInv, NEW kept, RestartWith(kept)
  PROVE  /\ kept \subseteq DOMAIN disk.windows /\ DOMAIN windows' = kept /\ focused' \in kept
         /\ \A i \in kept : /\ pane_ids(windows'[i]) = Range(disk.windows[i].layout)
                            /\ windows'[i].focus = disk.windows[i].focus
         /\ TInv' /\ WindowsIssued'
         /\ NotTorn(saved.troubles) => /\ Good(windows', MaxPane, nextPane')
                                       /\ Grove(windows', nextPane', TRUE)
<1>1. TypedFile(disk) /\ kept \subseteq DOMAIN disk.windows
  BY DEF RInv, FileInv, RestartWith, Restorable
<1>2. /\ windows' = [i \in kept |-> window_restored(disk.windows[i])]
      /\ focused' \in kept /\ broadcast' = FALSE
      /\ nextPane' = set_min_id(max_pane_id(disk) + 1)
      /\ nextWindow' = set_min_id(max_window_id(disk) + 1)
  BY DEF RestartWith, FocusRestored
<1>3. /\ nextPane' \in 1 .. (MaxPane + 1) /\ nextWindow' \in 1 .. (MaxWindow + 1)
      /\ \A i \in kept : /\ i < nextWindow'
                         /\ Range(disk.windows[i].layout) \subseteq 1 .. (nextPane' - 1)
  BY <1>1, <1>2, CountersRaised
<1>4. DOMAIN windows' = kept /\ windows' = [i \in DOMAIN windows' |-> windows'[i]]
  BY <1>2
<1>5. ASSUME NEW i \in kept
      PROVE  /\ windows'[i] \in WindowOver(1 .. MaxPane)
             /\ pane_ids(windows'[i]) = Range(disk.windows[i].layout)
             /\ windows'[i].focus = disk.windows[i].focus
             /\ NotTorn(saved.troubles) =>
                  /\ WellFormed(windows'[i], 1 .. MaxPane) /\ Planted(windows'[i], TRUE)
                  /\ Owned(windows'[i]) = Range(disk.windows[i].layout)
                  /\ Held(windows'[i]) = Range(disk.windows[i].layout)
  <2>1. windows'[i] = window_restored(disk.windows[i])
    BY <1>2
  <2>2. disk.windows[i] \in [layout : Seq(PaneId), focus : PaneId]
    BY <1>1 DEF TypedFile
  <2>3. NotTorn(saved.troubles) => /\ IsInjective(disk.windows[i].layout)
                                   /\ disk.windows[i].focus \in Range(disk.windows[i].layout)
    BY <1>1 DEF RInv, FileInv, SoundFile
  <2> QED BY <2>1, <2>2, <2>3, WindowRestored
<1>6. TInv' /\ WindowsIssued'
  <2>1. AllTyped(windows', MaxPane)
    BY <1>4, <1>5 DEF AllTyped
  <2>2. kept \subseteq WindowId
    BY <1>1 DEF TypedFile
  <2>3. Counters'
    BY <1>2, <1>3, <1>4, <2>2 DEF Counters
  <2>4. WindowsIssued'
    BY <1>3, <1>4 DEF WindowsIssued
  <2> QED BY <2>1, <2>3, <2>4 DEF TInv
<1>7. ASSUME NotTorn(saved.troubles)
      PROVE  Good(windows', MaxPane, nextPane') /\ Grove(windows', nextPane', TRUE)
  <2>1. \A i, j \in kept :
          i # j => Range(disk.windows[i].layout) \cap Range(disk.windows[j].layout) = {}
    BY <1>1, <1>7 DEF RInv, FileInv, SoundFile
  <2>2. \A i \in DOMAIN windows' :
          /\ WellFormed(windows'[i], 1 .. MaxPane) /\ Planted(windows'[i], TRUE)
          /\ Owned(windows'[i]) = Range(disk.windows[i].layout)
          /\ Held(windows'[i]) = Range(disk.windows[i].layout)
          /\ Range(disk.windows[i].layout) \subseteq 1 .. (nextPane' - 1)
    BY <1>3, <1>4, <1>5, <1>7
  <2>3. Disjoint(windows') /\ Apart(windows')
    <3>1. \A i, j \in DOMAIN windows' :
            i # j => Range(disk.windows[i].layout) \cap Range(disk.windows[j].layout) = {}
      BY <1>4, <2>1
    <3> QED BY <2>2, <3>1 DEF Disjoint, Apart
  <2>4. Good(windows', MaxPane, nextPane')
    BY <1>4, <2>2, <2>3 DEF Good
  <2>5. Grove(windows', nextPane', TRUE)
    BY <2>2, <2>3 DEF Grove
  <2> QED BY <2>4, <2>5
<1> QED BY <1>1, <1>2, <1>4, <1>5, <1>6, <1>7

LEMMA RestartKeeps ==
  ASSUME RInv, NEW kept, RestartWith(kept)
  PROVE  RInv'
<1>1. /\ exists' = TRUE /\ troubles' = saved.troubles \ {"ghost"}
      /\ \/ disk' = disk /\ saved' = saved
         \/ /\ disk' = session_snapshot(windows', focused')
            /\ saved' = Remembered(windows', focused', troubles')
  BY DEF RestartWith
<1>2. troubles' \subseteq Trouble /\ FileInv(disk, saved)
  BY <1>1 DEF RInv, FileInv
<1>3. TInv' /\ WindowsIssued'
  BY RestartWindows
<1>4. Sound(windows', nextPane', troubles')
  <2>1. NotTorn(troubles') => NotTorn(saved.troubles)
    BY <1>1 DEF NotTorn
  <2>2. "ghost" \notin troubles'
    BY <1>1
  <2>3. NotTorn(saved.troubles) => /\ Good(windows', MaxPane, nextPane')
                                   /\ Grove(windows', nextPane', TRUE)
    BY RestartWindows
  <2> QED BY <2>1, <2>2, <2>3 DEF Sound
<1>5. FileInv(disk', saved')
  <2>1. /\ AllTyped(windows', MaxPane) /\ DOMAIN windows' \subseteq WindowId
        /\ focused' \in WindowId
    BY <1>3 DEF TInv, Counters, WindowId
  <2>2. FileInv(session_snapshot(windows', focused'), Remembered(windows', focused', troubles'))
    BY <1>2, <1>4, <2>1, SnapshotKept
  <2> QED BY <1>1, <1>2, <2>2
<1> QED BY <1>1, <1>2, <1>3, <1>4, <1>5 DEF RInv

LEMMA ServeKeeps ==
  ASSUME RInv, Serve
  PROVE  RInv'
<1>1. /\ Next /\ troubles' = troubles \cup TroublesMade
      /\ exists' = exists /\ disk' = disk /\ saved' = saved
  BY DEF Serve
<1>2. TInv' /\ WindowsIssued'
  BY <1>1, TypedStep, IssuedStep DEF RInv
<1>3. TroublesMade \subseteq Trouble
  BY DEF TroublesMade
<1>4. ASSUME NotTorn(troubles')
      PROVE  /\ Good(windows', MaxPane, nextPane')
             /\ Grove(windows', nextPane', "ghost" \notin troubles')
  <2>1. NotTorn(troubles) /\ "foreign" \notin TroublesMade /\ "refused" \notin TroublesMade
    BY <1>1, <1>4 DEF NotTorn
  <2>2. ~ ForeignSwap /\ ~ SerialTakeRefused
    BY <2>1 DEF TroublesMade, Trouble
  <2>3. "ghost" \notin troubles' => "ghost" \notin troubles /\ ~ SplitSpawnFails
    BY <1>1 DEF TroublesMade, Trouble
  <2>4. IInv /\ Grove(windows, nextPane, "ghost" \notin troubles)
    BY <2>1 DEF RInv, TInv, Sound, IInv
  <2>5. IInv'
    BY <1>1, <2>4, RequestStep
  <2>6. PICK e \in BOOLEAN : e <=> "ghost" \notin troubles
    OBVIOUS
  <2>7. PICK e2 \in BOOLEAN : e2 <=> "ghost" \notin troubles'
    OBVIOUS
  <2>8. Grove(windows, nextPane, e)
    BY <2>4, <2>6 DEF Grove, Planted
  <2>9. Grove(windows', nextPane', e2)
    <3>1. e2 => e /\ ~ SplitSpawnFails
      BY <2>3, <2>6, <2>7
    <3> QED BY <1>1, <2>2, <2>4, <2>8, <3>1, GroveStep
  <2>10. Grove(windows', nextPane', "ghost" \notin troubles')
    BY <2>7, <2>9 DEF Grove, Planted
  <2> QED BY <2>5, <2>10 DEF IInv
<1>5. Sound(windows', nextPane', troubles')
  BY <1>4 DEF Sound
<1> QED BY <1>1, <1>2, <1>3, <1>5 DEF RInv

LEMMA RestartStep ==
  ASSUME RInv, [RestartNext]_restartVars
  PROVE  RInv'
<1>1. CASE UNCHANGED restartVars
  BY <1>1 DEF restartVars, vars, RInv, TInv, Counters, WindowsIssued
<1>2. CASE Serve
  BY <1>2, ServeKeeps
<1>3. CASE KillSession
  <2>1. /\ windows' = NoWindows /\ DOMAIN windows' = {} /\ exists' = FALSE /\ troubles' = {}
        /\ disk' = disk /\ saved' = saved
    BY <1>3, NoWindowsGood DEF KillSession
  <2>2. AllTyped(windows', MaxPane) /\ Sound(windows', nextPane', troubles')
    BY <2>1, NoWindowsGood
  <2>3. Counters' /\ WindowsIssued'
    BY <1>3, <2>1 DEF KillSession, RInv, TInv, Counters, WindowsIssued
  <2> QED BY <2>1, <2>2, <2>3 DEF RInv, TInv
<1>4. CASE CreateSession
  BY <1>4, CreateKeeps
<1>5. CASE Save
  <2>1. FileInv(session_snapshot(windows, focused), Remembered(windows, focused, troubles))
    <3>1. /\ AllTyped(windows, MaxPane) /\ DOMAIN windows \subseteq WindowId
          /\ focused \in WindowId
      BY DEF RInv, TInv, Counters
    <3>2. troubles \subseteq Trouble /\ Sound(windows, nextPane, troubles)
      BY DEF RInv
    <3> QED BY <3>1, <3>2, SnapshotKept
  <2>2. FileInv(disk', saved')
    BY <1>5, <2>1 DEF Save
  <2> QED BY <1>5, <2>2 DEF Save, vars, RInv, TInv, Counters, WindowsIssued
<1>6. ASSUME NEW kept, RestartWith(kept) PROVE RInv'
  BY <1>6, RestartKeeps
<1>7. CASE RestartEmpty
  <2>1. FileInv(disk', saved')
    BY <1>7, NothingKept DEF RestartEmpty, RInv
  <2>2. /\ windows' = NoWindows /\ DOMAIN windows' = {} /\ exists' = FALSE /\ troubles' = {}
        /\ focused' = 1 /\ broadcast' = FALSE /\ nextPane' = 1 /\ nextWindow' = 1
    BY <1>7, NoWindowsGood DEF RestartEmpty
  <2>3. AllTyped(windows', MaxPane) /\ Sound(windows', nextPane', troubles')
    BY <2>2, NoWindowsGood
  <2>4. Counters' /\ WindowsIssued'
    <3>1. 1 \in 1 .. (MaxPane + 1) /\ 1 \in 1 .. (MaxWindow + 1) /\ 1 \in WindowId
      BY SessionAssumption DEF WindowId
    <3> QED BY <2>2, <3>1 DEF Counters, WindowsIssued
  <2> QED BY <2>1, <2>2, <2>3, <2>4 DEF RInv, TInv
<1> QED BY <1>1, <1>2, <1>3, <1>4, <1>5, <1>6, <1>7 DEF RestartNext

LEMMA RestartStarts == RestartInit => RInv
<1> SUFFICES ASSUME RestartInit PROVE RInv
  OBVIOUS
<1>1. IInv /\ WindowsIssued /\ troubles = {} /\ exists = TRUE
  BY NewSessionGood DEF RestartInit, Init, WindowsIssued
<1>2. ASSUME NEW e PROVE Grove(windows, nextPane, e)
  <2>1. windows = [i \in {1} |-> NewWindow(1)] /\ nextPane = 2
    BY DEF RestartInit, Init
  <2>2. 1 \in 1 .. (2 - 1)
    OBVIOUS
  <2> QED BY <2>1, <2>2, NewWindowPlanted DEF Grove, Apart
<1>3. Sound(windows, nextPane, troubles)
  BY <1>1, <1>2 DEF Sound, IInv
<1>4. FileInv(disk, saved)
  BY NothingKept DEF RestartInit
<1> QED BY <1>1, <1>3, <1>4, GoodTyped DEF RInv

-----------------------------------------------------------------------------
(***************************************************************************)
(* The theorems about Restart.  Nothing is assumed of the constants:       *)
(* spawns may fail, serial ports be opened, swaps name any pane and        *)
(* requests name windows that are gone.                                    *)
(***************************************************************************)

\* At every moment of the server's lives the session is typed and so is the file,
\* both are good unless a request tore a tree, and the file is the last save.
THEOREM RestartInductive == RestartSpec => []RInv
<1>1. RInv /\ [RestartNext]_restartVars => RInv'
  BY RestartStep
<1> QED BY RestartStarts, <1>1, PTL DEF RestartSpec

\* Every variable has its type, the file included, whatever was saved.
THEOREM RestartTypeCorrect == RestartSpec => []RestartTypeOK
<1>1. RInv => RestartTypeOK
  <2> SUFFICES ASSUME RInv PROVE RestartTypeOK
    OBVIOUS
  <2>1. TypeOK
    BY DEF RInv, TInv, Counters, AllTyped, TypeOK, PaneId
  <2> QED BY <2>1 DEF RInv, FileInv, TypedFile, RestartTypeOK
<1> QED BY <1>1, RestartInductive, PTL

\* Pane and window ids stay unique across restarts: no pane has two owners, and
\* the counters are above every id in use, also when only some windows come back
\* (lib.rs, set_min_pane_id and set_min_window_id), unless the file was written
\* after a request that put an id in two trees.
THEOREM IdsUniqueAfterRestart == RestartSpec => []RestoredOwnedOnce
<1>1. RInv => RestoredOwnedOnce
  <2> SUFFICES ASSUME RInv, NotTorn(troubles)
               PROVE  OwnedOnce /\ \A i \in DOMAIN windows : i < nextWindow
    BY DEF RestoredOwnedOnce
  <2>1. nextPane \in Int /\ \A p \in 1 .. (nextPane - 1) : p < nextPane
    BY DEF RInv, TInv, Counters
  <2>2. OwnedOnce
    BY <2>1 DEF RInv, Sound, Good, Disjoint, WellFormed, OwnedOnce
  <2> QED BY <2>2 DEF RInv, WindowsIssued
<1> QED BY <1>1, RestartInductive, PTL

\* A restored window has a live focus and one tab for each of its panes, although
\* neither is checked against the tree of the file (window/mod.rs,
\* Window::restore_from_snapshot), unless the file was written after a request
\* that took the leaf of a pane away: a failed spawn is not enough.
THEOREM RestoredWindowsAreGood == RestartSpec => []RestoredWindowsGood
<1>1. RInv => RestoredWindowsGood
  BY DEF RInv, Sound, Good, WellFormed, FocusLive, OrderIsPermutation, RestoredWindowsGood
<1> QED BY <1>1, RestartInductive, PTL

\* Without trouble every tiled pane has its leaf and every leaf its pane, before
\* and after a restart; the restart makes good a failed spawn.
THEOREM LeavesSurviveRestart == RestartSpec => []TreesMatchUnlessTroubled
<1>1. RInv => TreesMatchUnlessTroubled
  <2> SUFFICES ASSUME RInv, troubles = {} PROVE LeavesMatchPanes
    BY DEF TreesMatchUnlessTroubled
  <2>1. NotTorn(troubles) /\ "ghost" \notin troubles
    BY DEF NotTorn
  <2>2. Grove(windows, nextPane, "ghost" \notin troubles)
    BY <2>1 DEF RInv, Sound
  <2>3. \A i \in DOMAIN windows : Planted(windows[i], "ghost" \notin troubles)
    BY <2>2 DEF Grove
  <2> QED BY <2>1, <2>3 DEF Planted, LeavesMatchPanes
<1> QED BY <1>1, RestartInductive, PTL

\* A restart brings back the tiled panes, the focus and the focused window of the
\* last save, whichever windows come back and whatever was killed, created or
\* rewritten since (lib.rs, run_server_inner).
THEOREM LastSaveComesBack == RestartSpec => RestoredAsSaved
<1> DEFINE A(kept) ==
      RestartWith(kept) /\ NotTorn(saved.troubles) =>
        /\ \A i \in kept :
             /\ windows'[i].focus = saved.windows[i].focus
             /\ saved.windows[i].panes \subseteq pane_ids(windows'[i])
             /\ saved.troubles = {} => pane_ids(windows'[i]) = saved.windows[i].panes
        /\ saved.focused \in kept => focused' = saved.focused
<1>1. ASSUME RInv, NEW kept PROVE A(kept)
  <2> SUFFICES ASSUME RestartWith(kept), NotTorn(saved.troubles)
               PROVE  /\ \A i \in kept :
                           /\ windows'[i].focus = saved.windows[i].focus
                           /\ saved.windows[i].panes \subseteq pane_ids(windows'[i])
                           /\ saved.troubles = {} =>
                                pane_ids(windows'[i]) = saved.windows[i].panes
                      /\ saved.focused \in kept => focused' = saved.focused
    OBVIOUS
  <2>1. /\ kept \subseteq DOMAIN disk.windows
        /\ \A i \in kept : /\ pane_ids(windows'[i]) = Range(disk.windows[i].layout)
                           /\ windows'[i].focus = disk.windows[i].focus
    BY <1>1, RestartWindows
  <2>2. Agrees(disk, saved)
    BY <1>1 DEF RInv, FileInv
  <2>3. ASSUME NEW i \in kept
        PROVE  /\ windows'[i].focus = saved.windows[i].focus
               /\ saved.windows[i].panes \subseteq pane_ids(windows'[i])
               /\ saved.troubles = {} => pane_ids(windows'[i]) = saved.windows[i].panes
    <3>1. /\ disk.windows[i].focus = saved.windows[i].focus
          /\ saved.windows[i].panes \subseteq Range(disk.windows[i].layout)
          /\ saved.troubles = {} => Range(disk.windows[i].layout) \subseteq saved.windows[i].panes
      BY <2>1, <2>2 DEF Agrees
    <3> QED BY <2>1, <3>1
  <2>4. saved.focused \in kept => focused' = saved.focused
    BY <2>2 DEF Agrees, RestartWith, FocusRestored
  <2> QED BY <2>3, <2>4
<1>2. RInv => [\A kept \in SUBSET DOMAIN disk.windows : A(kept)]_restartVars
  BY <1>1
<1> QED BY <1>2, RestartInductive, PTL DEF RestoredAsSaved

\* A session that is in the map has a live focused window, whichever windows did
\* not come back (session.rs, Session::restore_from_snapshot), as long as no
\* request names a window another client has closed.
THEOREM FocusSurvivesRestart ==
  ASSUME ~ StaleWindows
  PROVE  RestartSpec => []RestoredFocusLive
<1>1. RestartInit => RestoredFocusLive
  BY DEF RestartInit, Init, RestoredFocusLive, FocusedWindowLive, HasFocusedWindow
<1>2. RestoredFocusLive /\ [RestartNext]_restartVars => RestoredFocusLive'
  <2> SUFFICES ASSUME RestoredFocusLive, [RestartNext]_restartVars, exists'
               PROVE  FocusedWindowLive'
    BY DEF RestoredFocusLive
  <2>1. CASE UNCHANGED restartVars
    BY <2>1 DEF restartVars, vars, RestoredFocusLive, FocusedWindowLive, HasFocusedWindow
  <2>2. CASE Serve
    BY <2>2, LiveStep DEF Serve, RestoredFocusLive
  <2>3. CASE CreateSession
    BY <2>3 DEF CreateSession, FocusedWindowLive, HasFocusedWindow
  <2>4. CASE Save
    BY <2>4 DEF Save, vars, RestoredFocusLive, FocusedWindowLive, HasFocusedWindow
  <2>5. ASSUME NEW kept, RestartWith(kept) PROVE FocusedWindowLive'
    BY <2>5 DEF RestartWith, FocusRestored, FocusedWindowLive, HasFocusedWindow
  <2> QED BY <2>1, <2>2, <2>3, <2>4, <2>5 DEF RestartNext, KillSession, RestartEmpty
<1> QED BY <1>1, <1>2, PTL DEF RestartSpec

-----------------------------------------------------------------------------
(***************************************************************************)
(* A pane that moves leaves the session only inside the request.           *)
(***************************************************************************)

Tiled(ws) == UNION {pane_ids(ws[i]) : i \in DOMAIN ws}

\* What the operations that take or insert a pane do to a window's tiles.
LEMMA TakeByIdTiles ==
  ASSUME NEW N, NEW w \in WindowOver(1 .. N), NEW p, can_take_pane_by_id(w, p)
  PROVE  pane_ids(take_pane_by_id(w, p)) = pane_ids(w) \ {p}
BY DEF WindowOver, can_take_pane_by_id, take_pane_by_id, pane_ids

LEMMA TakeFocusedTyped ==
  ASSUME NEW N \in Nat, NEW ws, AllTyped(ws, N), NEW i \in DOMAIN ws
  PROVE  /\ AllTyped([ws EXCEPT ![i] = take_focused_pane(ws[i])], N)
         /\ DOMAIN [ws EXCEPT ![i] = take_focused_pane(ws[i])] = DOMAIN ws
<1> DEFINE v == take_focused_pane(ws[i])
<1>1. v \in WindowOver(1 .. N)
  <2>1. ws[i] \in WindowOver(1 .. N) /\ ws[i].focus \in 1 .. N
    BY DEF AllTyped, WindowOver
  <2> QED BY <2>1, TakeTyped
<1> HIDE DEF v
<1>2. AllTyped([ws EXCEPT ![i] = v], N)
  BY <1>1, SetTyped
<1> QED BY <1>2 DEF v

LEMMA TakeFocusedTiles ==
  ASSUME NEW N \in Nat, NEW w \in WindowOver(1 .. N)
  PROVE  /\ can_take_focused_pane(w) =>
              /\ w.focus \in pane_ids(w)
              /\ pane_ids(take_focused_pane(w)) = pane_ids(w) \ {w.focus}
         /\ ~ can_take_focused_pane(w) => pane_ids(take_focused_pane(w)) = pane_ids(w)
<1>1. CASE can_take_focused_pane(w)
  <2>1. /\ Cardinality(w.panes) > 1 /\ w.focus \in w.panes /\ w.focus \notin w.serial
        /\ ~ (Cardinality(w.panes) <= 1)
    <3>1. IsFiniteSet(w.panes)
      <4>1. w.panes \subseteq 1 .. N /\ IsFiniteSet(1 .. N)
        BY FS_Interval DEF WindowOver
      <4> QED BY <4>1, FS_Subset
    <3>2. Cardinality(w.panes) \in Nat
      BY <3>1, FS_CardinalityType
    <3> QED BY <1>1, <3>2 DEF can_take_focused_pane
  <2>2. /\ take_focused_pane(w).panes = w.panes \ {w.focus}
        /\ take_focused_pane(w).serial = w.serial
    BY <1>1, <2>1 DEF WindowOver, take_focused_pane
  <2> QED BY <1>1, <2>1, <2>2 DEF pane_ids
<1>2. CASE ~ can_take_focused_pane(w)
  <2>1. /\ take_focused_pane(w).panes = w.panes
        /\ take_focused_pane(w).serial = w.serial
    BY <1>2 DEF WindowOver, take_focused_pane
  <2> QED BY <1>2, <2>1 DEF pane_ids
<1> QED BY <1>1, <1>2

LEMMA InsertPaneTiles ==
  ASSUME NEW N, NEW w \in WindowOver(1 .. N), NEW p, NEW position
  PROVE  pane_ids(insert_pane_at(w, p, position)) = pane_ids(w) \cup {p}
BY DEF WindowOver, insert_pane_at, pane_ids

\* Changing one window of the map changes the tiles of the session with it: a
\* window loses p ...
LEMMA TilesLess ==
  ASSUME NEW N, NEW ws, AllTyped(ws, N), NEW i \in DOMAIN ws, NEW w,
         NEW p \in pane_ids(ws[i]), pane_ids(w) = pane_ids(ws[i]) \ {p}
  PROVE  Tiled([ws EXCEPT ![i] = w]) \cup {p} = Tiled(ws)
<1> DEFINE x == [ws EXCEPT ![i] = w]
<1>1. DOMAIN x = DOMAIN ws /\ \A j \in DOMAIN ws : x[j] = IF j = i THEN w ELSE ws[j]
  BY DEF AllTyped
<1> HIDE DEF x
<1>2. ASSUME NEW q \in Tiled(ws) PROVE q \in Tiled(x) \cup {p}
  <2>1. PICK j \in DOMAIN ws : q \in pane_ids(ws[j])
    BY DEF Tiled
  <2> QED BY <1>1, <2>1 DEF Tiled
<1>3. ASSUME NEW q \in Tiled(x) PROVE q \in Tiled(ws)
  <2>1. PICK j \in DOMAIN ws : q \in pane_ids(x[j])
    BY <1>1 DEF Tiled
  <2> QED BY <1>1, <2>1 DEF Tiled
<1>4. p \in Tiled(ws)
  BY DEF Tiled
<1> QED BY <1>2, <1>3, <1>4 DEF x

\* ... or goes when p was its only tile, ...
LEMMA TilesWithout ==
  ASSUME NEW ws, NEW i \in DOMAIN ws, NEW p, pane_ids(ws[i]) = {p}
  PROVE  Tiled(WithoutWindow(ws, i)) \cup {p} = Tiled(ws)
<1> DEFINE x == WithoutWindow(ws, i)
<1>1. DOMAIN x = DOMAIN ws \ {i} /\ \A j \in DOMAIN x : x[j] = ws[j]
  BY DEF WithoutWindow
<1> HIDE DEF x
<1>2. ASSUME NEW q \in Tiled(ws) PROVE q \in Tiled(x) \cup {p}
  <2>1. PICK j \in DOMAIN ws : q \in pane_ids(ws[j])
    BY DEF Tiled
  <2> QED BY <1>1, <2>1 DEF Tiled
<1>3. Tiled(x) \subseteq Tiled(ws) /\ p \in Tiled(ws)
  BY <1>1 DEF Tiled
<1> QED BY <1>2, <1>3 DEF x

\* ... and p is put into a window, or gets one of its own.
LEMMA TilesMore ==
  ASSUME NEW N, NEW ws, AllTyped(ws, N), NEW i \in DOMAIN ws, NEW w, NEW p,
         pane_ids(w) = pane_ids(ws[i]) \cup {p}
  PROVE  Tiled([ws EXCEPT ![i] = w]) = Tiled(ws) \cup {p}
<1> DEFINE x == [ws EXCEPT ![i] = w]
<1>1. DOMAIN x = DOMAIN ws /\ \A j \in DOMAIN ws : x[j] = IF j = i THEN w ELSE ws[j]
  BY DEF AllTyped
<1> HIDE DEF x
<1>2. ASSUME NEW q \in Tiled(ws) PROVE q \in Tiled(x)
  <2>1. PICK j \in DOMAIN ws : q \in pane_ids(ws[j])
    BY DEF Tiled
  <2> QED BY <1>1, <2>1 DEF Tiled
<1>3. ASSUME NEW q \in Tiled(x) PROVE q \in Tiled(ws) \cup {p}
  <2>1. PICK j \in DOMAIN ws : q \in pane_ids(x[j])
    BY <1>1 DEF Tiled
  <2> QED BY <1>1, <2>1 DEF Tiled
<1>4. p \in Tiled(x)
  BY <1>1 DEF Tiled
<1> QED BY <1>2, <1>3, <1>4 DEF x

LEMMA TilesSame ==
  ASSUME NEW N, NEW ws, AllTyped(ws, N), NEW i \in DOMAIN ws, NEW w,
         pane_ids(w) = pane_ids(ws[i])
  PROVE  Tiled([ws EXCEPT ![i] = w]) = Tiled(ws)
<1> DEFINE x == [ws EXCEPT ![i] = w]
<1>1. DOMAIN x = DOMAIN ws /\ \A j \in DOMAIN ws : x[j] = IF j = i THEN w ELSE ws[j]
  BY DEF AllTyped
<1> HIDE DEF x
<1>2. DOMAIN x = DOMAIN ws /\ \A j \in DOMAIN ws : pane_ids(x[j]) = pane_ids(ws[j])
  BY <1>1
<1> QED BY <1>2 DEF Tiled, x

LEMMA TilesNewWindow ==
  ASSUME NEW ws, NEW i, i \notin DOMAIN ws, NEW p
  PROVE  Tiled(WithWindow(ws, i, NewWindow(p))) = Tiled(ws) \cup {p}
<1> DEFINE x == WithWindow(ws, i, NewWindow(p))
<1>1. /\ DOMAIN x = DOMAIN ws \cup {i} /\ pane_ids(x[i]) = {p}
      /\ \A j \in DOMAIN ws : x[j] = ws[j]
  BY DEF WithWindow, NewWindow, pane_ids
<1> HIDE DEF x
<1> QED BY <1>1 DEF Tiled, x

\* move_pane's first half takes p out of the tiles and nothing else, whether
\* it leaves its window or takes the window along.
LEMMA AfterTakeTiles ==
  ASSUME TInv, NEW src \in DOMAIN windows, NEW p \in pane_ids(windows[src]), CanTake(src, p)
  PROVE  Tiled(AfterTake(src, p)) \cup {p} = Tiled(windows)
<1>1. AllTyped(windows, MaxPane) /\ windows[src] \in WindowOver(1 .. MaxPane)
  BY DEF TInv, AllTyped
<1>2. CASE IsLastPane(src)
  <2>1. windows[src].serial = {} /\ Cardinality(windows[src].panes) = 1
    BY <1>2 DEF CanTake, can_be_single_pane
  <2>2. ~ (Cardinality(windows[src].panes) > 1)
    BY <2>1
  <2>3. IsFiniteSet(windows[src].panes)
    <3>1. windows[src].panes \subseteq 1 .. MaxPane /\ MaxPane \in Int
      BY <1>1, SessionAssumption DEF WindowOver
    <3>2. IsFiniteSet(1 .. MaxPane)
      BY <3>1, FS_Interval
    <3> QED BY <3>1, <3>2, FS_Subset
  <2>4. PICK q : windows[src].panes = {q}
    BY <2>1, <2>3, FS_Singleton
  <2>5. pane_ids(windows[src]) = {p}
    BY <2>1, <2>4 DEF pane_ids
  <2>6. AfterTake(src, p) = WithoutWindow(windows, src)
    BY <1>2 DEF AfterTake
  <2> QED BY <2>5, <2>6, TilesWithout
<1>3. CASE ~ IsLastPane(src)
  <2>1. pane_ids(take_pane_by_id(windows[src], p)) = pane_ids(windows[src]) \ {p}
    BY <1>1, <1>3, TakeByIdTiles DEF CanTake
  <2>2. AfterTake(src, p) = [windows EXCEPT ![src] = take_pane_by_id(windows[src], p)]
    BY <1>3 DEF AfterTake
  <2> DEFINE v == take_pane_by_id(windows[src], p)
  <2> HIDE DEF v
  <2>3. Tiled([windows EXCEPT ![src] = v]) \cup {p} = Tiled(windows)
    BY <1>1, <2>1, TilesLess DEF v
  <2> QED BY <2>2, <2>3 DEF v
<1> QED BY <1>2, <1>3

\* A request that moves a pane leaves the session with the tiles it had.
LEMMA MoveKeepsTiles ==
  ASSUME ~ StaleWindows, TInv, WindowsIssued, MoveRequest
  PROVE  TiledPanes' = TiledPanes
<1>1. /\ AllTyped(windows, MaxPane) /\ MaxPane \in Nat
      /\ \A i \in DOMAIN windows : windows[i] \in WindowOver(1 .. MaxPane)
      /\ nextWindow \notin DOMAIN windows
  BY SessionAssumption DEF TInv, Counters, AllTyped, WindowsIssued, WindowId
<1>2. \A target \in NameableWindows : target \in DOMAIN windows
  BY DEF NameableWindows
<1> SUFFICES Tiled(windows') = Tiled(windows)
  BY DEF TiledPanes, Tiled
<1>3. CASE BreakPane
  <2> DEFINE w == windows[focused]
             x == [windows EXCEPT ![focused] = take_focused_pane(w)]
  <2>1. focused \in DOMAIN windows /\ can_take_focused_pane(w)
    BY <1>3 DEF BreakPane, HasFocusedWindow
  <2>2. AllTyped(x, MaxPane) /\ DOMAIN x = DOMAIN windows
    BY <1>1, <2>1, TakeFocusedTyped
  <2>3. Tiled(x) \cup {w.focus} = Tiled(windows)
    <3>1. /\ w.focus \in pane_ids(w)
          /\ pane_ids(take_focused_pane(w)) = pane_ids(w) \ {w.focus}
      BY <1>1, <2>1, TakeFocusedTiles
    <3> DEFINE v == take_focused_pane(w)
               p == w.focus
    <3>2. p \in pane_ids(windows[focused]) /\ pane_ids(v) = pane_ids(windows[focused]) \ {p}
      BY <3>1
    <3>3. AllTyped(windows, MaxPane) /\ focused \in DOMAIN windows
      BY <1>1, <2>1
    <3> HIDE DEF v, p
    <3>4. Tiled([windows EXCEPT ![focused] = v]) \cup {p} = Tiled(windows)
      BY <3>2, <3>3, TilesLess
    <3> QED BY <3>4 DEF v, p
  <2>4. windows' = WithWindow(x, nextWindow, NewWindow(w.focus))
    BY <1>3 DEF BreakPane
  <2> HIDE DEF x, w
  <2> QED BY <1>1, <2>2, <2>3, <2>4, TilesNewWindow
<1>4. CASE TakeFocusedRefused
  <2>1. /\ focused \in DOMAIN windows /\ ~ can_take_focused_pane(windows[focused])
        /\ windows' = [windows EXCEPT ![focused] = take_focused_pane(windows[focused])]
    BY <1>4 DEF TakeFocusedRefused, HasFocusedWindow, SetFocusedWindow
  <2> DEFINE v == take_focused_pane(windows[focused])
  <2>2. pane_ids(v) = pane_ids(windows[focused])
    BY <1>1, <2>1, TakeFocusedTiles
  <2> HIDE DEF v
  <2>3. Tiled([windows EXCEPT ![focused] = v]) = Tiled(windows)
    BY <1>1, <2>1, <2>2, TilesSame
  <2> QED BY <2>1, <2>3 DEF v
<1>5. ASSUME NEW target \in NameableWindows, JoinPane(target) \/ JoinMissingWindow(target)
      PROVE  Tiled(windows') = Tiled(windows)
  <2> DEFINE w == windows[focused]
             x == [windows EXCEPT ![focused] = take_focused_pane(w)]
  <2>1. /\ focused \in DOMAIN windows /\ can_take_focused_pane(w)
        /\ target # focused /\ target \in DOMAIN windows
        /\ windows' = [windows EXCEPT ![focused] = take_focused_pane(w),
                                      ![target] = insert_pane_at(@, w.focus, NoPosition)]
    BY <1>2, <1>5 DEF JoinPane, JoinMissingWindow, HasFocusedWindow
  <2>2. AllTyped(x, MaxPane) /\ DOMAIN x = DOMAIN windows
    BY <1>1, <2>1, TakeFocusedTyped
  <2>3. Tiled(x) \cup {w.focus} = Tiled(windows)
    <3>1. /\ w.focus \in pane_ids(w)
          /\ pane_ids(take_focused_pane(w)) = pane_ids(w) \ {w.focus}
      BY <1>1, <2>1, TakeFocusedTiles
    <3> DEFINE v == take_focused_pane(w)
               p == w.focus
    <3>2. p \in pane_ids(windows[focused]) /\ pane_ids(v) = pane_ids(windows[focused]) \ {p}
      BY <3>1
    <3>3. AllTyped(windows, MaxPane) /\ focused \in DOMAIN windows
      BY <1>1, <2>1
    <3> HIDE DEF v, p
    <3>4. Tiled([windows EXCEPT ![focused] = v]) \cup {p} = Tiled(windows)
      BY <3>2, <3>3, TilesLess
    <3> QED BY <3>4 DEF v, p
  <2>4. windows' = [x EXCEPT ![target] = insert_pane_at(x[target], w.focus, NoPosition)]
    BY <2>1
  <2> HIDE DEF x, w
  <2>5. pane_ids(insert_pane_at(x[target], w.focus, NoPosition))
          = pane_ids(x[target]) \cup {w.focus}
    BY <2>1, <2>2, <1>1, InsertPaneTiles DEF AllTyped
  <2> DEFINE v == insert_pane_at(x[target], w.focus, NoPosition)
             p == w.focus
  <2> HIDE DEF v, p
  <2>6. pane_ids(v) = pane_ids(x[target]) \cup {p}
    BY <2>5 DEF v, p
  <2>7. AllTyped(x, MaxPane)
    BY <2>2
  <2>8. target \in DOMAIN x
    BY <2>1, <2>2
  <2>9. Tiled([x EXCEPT ![target] = v]) = Tiled(x) \cup {p}
    BY <2>6, <2>7, <2>8, TilesMore
  <2>10. windows' = [x EXCEPT ![target] = v] /\ Tiled(x) \cup {p} = Tiled(windows)
    BY <2>3, <2>4 DEF v, p
  <2> QED BY <2>9, <2>10
<1>6. ASSUME NEW src \in DOMAIN windows, NEW p \in PaneId, MovePaneToNewWindow(src, p)
      PROVE  Tiled(windows') = Tiled(windows)
  <2> DEFINE x == AfterTake(src, p)
  <2>1. p \in pane_ids(windows[src]) /\ CanTake(src, p)
    BY <1>6 DEF MovePaneToNewWindow
  <2>2. AllTyped(x, MaxPane) /\ DOMAIN x \subseteq DOMAIN windows
    BY <2>1, AfterTakeTyped
  <2>3. Tiled(x) \cup {p} = Tiled(windows)
    BY <2>1, AfterTakeTiles
  <2>4. windows' = WithWindow(x, nextWindow, NewWindow(p))
    BY <1>6 DEF MovePaneToNewWindow
  <2> HIDE DEF x
  <2> QED BY <1>1, <2>2, <2>3, <2>4, TilesNewWindow
<1>7. ASSUME NEW src \in DOMAIN windows, NEW p \in PaneId, NEW target \in NameableWindows
      PROVE  ~ MovePaneToMissingWindow(src, p, target)
  BY <1>2, <1>7 DEF MovePaneToMissingWindow
<1>8. ASSUME NEW src \in DOMAIN windows, NEW p \in PaneId, NEW target \in NameableWindows,
             NEW position \in {NoPosition} \cup 0 .. MaxPane,
             MovePaneToWindow(src, p, target, position)
      PROVE  Tiled(windows') = Tiled(windows)
  <2> DEFINE x == AfterTake(src, p)
  <2>1. p \in pane_ids(windows[src]) /\ CanTake(src, p) /\ src # target
    BY <1>8 DEF MovePaneToWindow
  <2>2. AllTyped(x, MaxPane) /\ DOMAIN windows \ {src} \subseteq DOMAIN x
    BY <2>1, AfterTakeTyped
  <2>3. Tiled(x) \cup {p} = Tiled(windows)
    BY <2>1, AfterTakeTiles
  <2>4. windows' = [x EXCEPT ![target] = insert_pane_at(x[target], p, position)]
    BY <1>8 DEF MovePaneToWindow
  <2> HIDE DEF x
  <2>5. target \in DOMAIN x
    BY <1>2, <2>1, <2>2
  <2>6. pane_ids(insert_pane_at(x[target], p, position)) = pane_ids(x[target]) \cup {p}
    BY <2>2, <2>5, <1>1, InsertPaneTiles DEF AllTyped
  <2> DEFINE v == insert_pane_at(x[target], p, position)
  <2> HIDE DEF v
  <2>7. Tiled([x EXCEPT ![target] = v]) = Tiled(x) \cup {p}
    BY <2>2, <2>5, <2>6, TilesMore DEF v
  <2> QED BY <2>3, <2>4, <2>7 DEF v
<1> QED BY <1>3, <1>4, <1>5, <1>6, <1>7, <1>8 DEF MoveRequest

\* As long as no request names a window another client has closed, breaking,
\* joining and moving panes keeps every tiled pane of the session, also when
\* shells fail to start, serial panes are open and swaps name foreign panes.
THEOREM MovesKeepPanes ==
  ASSUME ~ StaleWindows
  PROVE  Spec => MovesConservePanes
<1>1. Init => WindowsIssued
  BY DEF Init, WindowsIssued
<1>2. TInv /\ WindowsIssued /\ [Next]_vars => WindowsIssued'
  BY IssuedStep
<1>3. TInv /\ WindowsIssued => [TiledPanes' # TiledPanes => ~ MoveRequest]_vars
  BY MoveKeepsTiles
<1>4. Init => TInv
  BY NewSessionGood, GoodTyped
<1>5. TInv /\ [Next]_vars => TInv'
  BY TypedStep
<1> QED BY <1>1, <1>2, <1>3, <1>4, <1>5, PTL DEF Spec, MovesConservePanes

\* The same of a session that is saved, killed and restored in between, also from
\* a file that gives one pane to two windows (session.rs, break_pane, join_pane and
\* move_pane).
THEOREM MovesKeepPanesAcrossRestarts ==
  ASSUME ~ StaleWindows
  PROVE  RestartSpec => MovesConservePanes
<1>1. RInv => [TiledPanes' # TiledPanes => ~ MoveRequest]_vars
  BY MoveKeepsTiles DEF RInv
<1> QED BY <1>1, RestartInductive, PTL DEF MovesConservePanes
=============================================================================
