--------------------------- MODULE CountingLemmas ---------------------------
(***************************************************************************)
(* Facts about numbers and sequences that the proofs about several         *)
(* components use: least and greatest elements, induction over the numbers *)
(* up to a bound, sequences cut in two or shortened by one, and finite     *)
(* sets numbered in the order of a rank.                                   *)
(*                                                                         *)
(* Counting is induction stated about a set instead of a predicate.        *)
(***************************************************************************)
EXTENDS Integers, SequencesExt, FiniteSetTheorems, SequenceTheorems, WellFoundedInduction, TLAPS

\* A set of naturals that is not empty has a least element, and Min is it.
LEMMA MinProperty ==
  ASSUME NEW T \in SUBSET Nat, T # {}
  PROVE  Min(T) \in T /\ \A y \in T : Min(T) <= y
<1>1. PICK x \in T : \A y \in T : ~ (<<y, x>> \in OpToRel(<, Nat))
  BY NatLessThanWellFounded, WFMin
<1>2. \A y \in T : ~ (y < x)
  BY <1>1 DEF OpToRel
<1>3. \A y \in T : x <= y
  BY <1>2
<1> QED BY <1>3 DEF Min

\* A bounded set of naturals that is not empty has a greatest element.
LEMMA MaxProperty ==
  ASSUME NEW N \in Nat, NEW T \in SUBSET (1 .. N), T # {}
  PROVE  Max(T) \in T
<1> DEFINE U == {N - x : x \in T}
<1>1. U \in SUBSET Nat /\ U # {}
  <2>1. \A x \in T : x \in Nat /\ x <= N /\ N - x \in Nat
    OBVIOUS
  <2> QED BY <2>1
<1>2. Min(U) \in U /\ \A y \in U : Min(U) <= y
  BY <1>1, MinProperty
<1>3. PICK x \in T : Min(U) = N - x
  BY <1>2
<1>4. ASSUME NEW y \in T PROVE x >= y
  <2>1. N - y \in U /\ x \in Nat /\ y \in Nat
    OBVIOUS
  <2>2. N - x <= N - y
    BY <1>2, <1>3, <2>1
  <2> QED BY <2>1, <2>2
<1> QED BY <1>4 DEF Max

\* The greater and the smaller of two numbers.
LEMMA OfTwo ==
  ASSUME NEW m \in Nat, NEW n \in Nat
  PROVE  /\ Max({m, n}) \in Nat /\ m <= Max({m, n}) /\ n <= Max({m, n})
         /\ Min({m, n}) \in {m, n}
<1>1. \E x \in {m, n} : \A y \in {m, n} : x >= y
  <2>1. CASE m <= n
    BY <2>1
  <2>2. CASE ~(m <= n)
    BY <2>2
  <2> QED BY <2>1, <2>2
<1>2. Max({m, n}) \in {m, n} /\ \A y \in {m, n} : Max({m, n}) >= y
  BY <1>1 DEF Max
<1>3. Min({m, n}) \in {m, n}
  BY MinProperty
<1> QED BY <1>2, <1>3

\* Counting from 0 in steps of one reaches every number up to N.
LEMMA Counting ==
  ASSUME NEW N \in Nat, NEW K, 0 \in K, \A k \in 0 .. N : k \in K /\ k < N => k + 1 \in K
  PROVE  \A k \in 0 .. N : k \in K
<1> DEFINE T == {k \in 0 .. N : k \notin K}
<1> SUFFICES ASSUME T # {} PROVE FALSE
  OBVIOUS
<1>1. Min(T) \in T /\ \A y \in T : Min(T) <= y
  <2>1. T \in SUBSET Nat
    OBVIOUS
  <2> HIDE DEF T
  <2> QED BY <2>1, MinProperty
<1>2. PICK m \in 0 .. N : m \notin K /\ \A y \in T : m <= y
  BY <1>1
<1>3. m # 0 /\ m - 1 \in 0 .. N /\ m - 1 < N
  BY <1>2
<1>4. m - 1 \in K
  BY <1>2, <1>3
<1>5. m - 1 + 1 = m
  BY <1>2
<1> QED BY <1>2, <1>3, <1>4, <1>5

\* A set of positions that is not empty has a last one.
LEMMA MaxIs ==
  ASSUME NEW k \in Nat, NEW t \in SUBSET (1 .. k + 1), t # {}
  PROVE  /\ Max(t) \in t
         /\ k + 1 \in t => Max(t) = k + 1
<1>1. k + 1 \in Nat
  OBVIOUS
<1>2. Max(t) \in t
  BY <1>1, MaxProperty
<1>3. ASSUME k + 1 \in t PROVE Max(t) = k + 1
  <2>1. \A y \in t : y \in 1 .. k + 1 /\ k + 1 >= y
    OBVIOUS
  <2>2. \A x \in t : (\A y \in t : x >= y) => x = k + 1
    BY <1>3, <2>1
  <2>3. \E x \in t : \A y \in t : x >= y
    BY <1>3, <2>1
  <2>4. Max(t) \in t /\ \A y \in t : Max(t) >= y
    BY <2>3 DEF Max
  <2> QED BY <2>2, <2>4
<1> QED BY <1>2, <1>3

\* Steps of a staircase that starts at 0: they grow, and each number below the end
\* is on exactly one of them.
LEMMA Staircase ==
  ASSUME NEW n \in Nat, NEW s, \A i \in 0 .. n : s[i] \in Nat, s[0] = 0,
         \A i \in 0 .. n - 1 : s[i] <= s[i + 1]
  PROVE  /\ \A i, j \in 0 .. n : i <= j => s[i] <= s[j]
         /\ \A x \in 0 .. s[n] - 1 : \E i \in 0 .. n - 1 : s[i] <= x /\ x < s[i + 1]
<1>1. ASSUME NEW i \in 0 .. n, NEW j \in 0 .. n, i <= j PROVE s[i] <= s[j]
  <2> DEFINE K == {k \in 0 .. n : i <= k => s[i] <= s[k]}
  <2>1. 0 \in K
    OBVIOUS
  <2>2. ASSUME NEW k \in 0 .. n, k \in K, k < n PROVE k + 1 \in K
    <3>1. k + 1 \in 0 .. n /\ k \in 0 .. n - 1 /\ s[k] \in Nat /\ s[k + 1] \in Nat
          /\ s[i] \in Nat /\ s[k] <= s[k + 1]
      BY <2>2
    <3>2. CASE i <= k
      BY <2>2, <3>1, <3>2
    <3>3. CASE ~ (i <= k)
      <4>1. i <= k + 1 => i = k + 1
        BY <3>3
      <4> QED BY <3>1, <4>1
    <3> QED BY <3>2, <3>3
  <2> HIDE DEF K
  <2>3. j \in K
    BY <2>1, <2>2, Counting
  <2> QED BY <1>1, <2>3 DEF K
<1>2. ASSUME NEW x \in 0 .. s[n] - 1
      PROVE  \E i \in 0 .. n - 1 : s[i] <= x /\ x < s[i + 1]
  <2> DEFINE T == {i \in 0 .. n : x < s[i]}
  <2>1. n \in 0 .. n /\ s[n] \in Nat
    OBVIOUS
  <2>2. T \in SUBSET Nat /\ n \in T
    BY <2>1
  <2> HIDE DEF T
  <2>3. Min(T) \in T /\ \A y \in T : Min(T) <= y
    BY <2>2, MinProperty
  <2>4. PICK m \in 0 .. n : x < s[m] /\ \A y \in T : m <= y
    BY <2>3 DEF T
  <2>5. m # 0
    BY <2>4
  <2>6. m - 1 \in 0 .. n - 1 /\ m - 1 \in 0 .. n /\ m - 1 + 1 = m /\ ~ (m <= m - 1)
    BY <2>5
  <2>7. m - 1 \notin T
    BY <2>4, <2>6
  <2>8. s[m - 1] <= x
    BY <2>6, <2>7 DEF T
  <2> QED BY <2>4, <2>6, <2>8
<1> QED BY <1>1, <1>2

\* A sequence is its first n elements and the rest.
LEMMA CutInTwo ==
  ASSUME NEW S, NEW s \in Seq(S), NEW n \in 0 .. Len(s)
  PROVE  /\ SubSeq(s, 1, n) \in Seq(S) /\ SubSeq(s, n + 1, Len(s)) \in Seq(S)
         /\ Len(SubSeq(s, 1, n)) = n
         /\ s = SubSeq(s, 1, n) \o SubSeq(s, n + 1, Len(s))
<1> DEFINE a == SubSeq(s, 1, n)
           b == SubSeq(s, n + 1, Len(s))
<1>1. Len(s) \in Nat /\ n \in Nat /\ n <= Len(s)
  OBVIOUS
<1>2. a \in Seq(S) /\ Len(a) = n /\ \A i \in 1 .. n : a[i] = s[i]
  BY <1>1, SubSeqProperties
<1>3. b \in Seq(S) /\ Len(b) = Len(s) - n /\ \A i \in 1 .. Len(s) - n : b[i] = s[n + i]
  BY <1>1, SubSeqProperties
<1> HIDE DEF a, b
<1>4. /\ a \o b \in Seq(S) /\ Len(a \o b) = Len(a) + Len(b)
      /\ \A i \in 1 .. Len(a) + Len(b) : (a \o b)[i] = IF i <= Len(a) THEN a[i] ELSE b[i - Len(a)]
  BY <1>2, <1>3, ConcatProperties
<1>5. Len(a \o b) = Len(s)
  BY <1>1, <1>2, <1>3, <1>4
<1>6. ASSUME NEW i \in 1 .. Len(s) PROVE (a \o b)[i] = s[i]
  <2>1. i \in 1 .. Len(a) + Len(b)
    BY <1>1, <1>2, <1>3
  <2>2. CASE i <= n
    <3>1. i \in 1 .. n /\ i <= Len(a)
      BY <1>1, <1>2, <2>2
    <3> QED BY <1>2, <1>4, <2>1, <3>1
  <2>3. CASE ~(i <= n)
    <3>1. i - n \in 1 .. Len(s) - n /\ n + (i - n) = i /\ ~(i <= Len(a)) /\ i - Len(a) = i - n
      BY <1>1, <1>2, <2>3
    <3> QED BY <1>3, <1>4, <2>1, <3>1
  <2> QED BY <2>2, <2>3
<1>7. a \o b = s
  BY <1>4, <1>5, <1>6, SeqEqual
<1> QED BY <1>2, <1>3, <1>7 DEF a, b

\* RemoveAt, element by element.
LEMMA RemoveAtElements ==
  ASSUME NEW S, NEW s \in Seq(S), NEW i \in 1 .. Len(s)
  PROVE  /\ RemoveAt(s, i) \in Seq(S)
         /\ Len(RemoveAt(s, i)) = Len(s) - 1
         /\ \A j \in 1 .. (Len(s) - 1) :
              RemoveAt(s, i)[j] = IF j < i THEN s[j] ELSE s[j + 1]
<1> DEFINE a == SubSeq(s, 1, i - 1)
           b == SubSeq(s, i + 1, Len(s))
<1>1. Len(s) \in Nat /\ i \in Nat /\ 1 <= i /\ i <= Len(s)
  OBVIOUS
<1>2. a \in Seq(S) /\ Len(a) = i - 1 /\ \A j \in 1 .. (i - 1) : a[j] = s[j]
  BY <1>1, SubSeqProperties
<1>3. /\ b \in Seq(S) /\ Len(b) = Len(s) - i
      /\ \A j \in 1 .. (Len(s) - i) : b[j] = s[i + j]
  BY <1>1, SubSeqProperties
<1> HIDE DEF a, b
<1>4. /\ a \o b \in Seq(S)
      /\ Len(a \o b) = Len(s) - 1
      /\ \A j \in 1 .. (Len(s) - 1) :
           (a \o b)[j] = IF j <= i - 1 THEN a[j] ELSE b[j - (i - 1)]
  <2>1. Len(a) + Len(b) = Len(s) - 1
    BY <1>1, <1>2, <1>3
  <2>2. /\ a \o b \in Seq(S)
        /\ Len(a \o b) = Len(a) + Len(b)
        /\ \A j \in 1 .. (Len(a) + Len(b)) :
             (a \o b)[j] = IF j <= Len(a) THEN a[j] ELSE b[j - Len(a)]
    BY <1>2, <1>3, ConcatProperties
  <2> QED BY <1>2, <2>1, <2>2
<1>5. \A j \in 1 .. (Len(s) - 1) : (a \o b)[j] = IF j < i THEN s[j] ELSE s[j + 1]
  BY <1>1, <1>2, <1>3, <1>4
<1>6. RemoveAt(s, i) = a \o b
  BY DEF RemoveAt, a, b
<1> QED BY <1>4, <1>5, <1>6

\* A ranking gives the elements of K different naturals; counting the elements
\* of lower rank numbers K from 0.
IsRanking(rank, K) ==
  /\ rank \in [K -> Nat]
  /\ \A a, b \in K : rank[a] = rank[b] => a = b

CountsBelow(before, rank, K) ==
  before = [a \in K |-> Cardinality({x \in K : rank[x] < rank[a]})]

IsNumbering(before, K, n) ==
  /\ before \in [K -> 0 .. (n - 1)]
  /\ \A a, b \in K : before[a] = before[b] => a = b
  /\ \A k \in 0 .. (n - 1) : \E a \in K : before[a] = k

\* Counting the elements of lower rank numbers a finite set: the count is an
\* injection of the set into 0 .. n - 1, hence a bijection.
LEMMA CountBelow ==
  ASSUME NEW K, NEW rank, NEW before,
         IsFiniteSet(K), IsRanking(rank, K), CountsBelow(before, rank, K)
  PROVE  IsNumbering(before, K, Cardinality(K))
<1>a. PICK n \in Nat : n = Cardinality(K)
  BY FS_CardinalityType
<1>b. /\ rank \in [K -> Nat]
      /\ \A a, b \in K : rank[a] = rank[b] => a = b
  BY DEF IsRanking
<1> DEFINE Below(id) == {x \in K : rank[x] < rank[id]}
<1>1. before = [id \in K |-> Cardinality(Below(id))]
  BY DEF CountsBelow
<1>2. ASSUME NEW id \in K
      PROVE  IsFiniteSet(Below(id)) /\ Cardinality(Below(id)) \in 0 .. (n - 1)
  <2>1. Below(id) \in SUBSET (K \ {id})
    BY <1>b
  <2>2. IsFiniteSet(K \ {id}) /\ Cardinality(K \ {id}) = n - 1
    BY <1>a, FS_RemoveElement
  <2> HIDE DEF Below
  <2>3. IsFiniteSet(Below(id)) /\ Cardinality(Below(id)) <= n - 1
    BY <2>1, <2>2, FS_Subset
  <2>4. Cardinality(Below(id)) \in Nat
    BY <2>3, FS_CardinalityType
  <2> QED BY <2>3, <2>4
<1>3. ASSUME NEW a \in K, NEW b \in K, rank[a] < rank[b]
      PROVE  before[a] # before[b]
  <2>1. rank[a] \in Nat /\ rank[b] \in Nat
    BY <1>b
  <2>2. \A x \in K : rank[x] \in Nat
    BY <1>b
  <2>3. Below(a) \in SUBSET (Below(b) \ {a})
    BY <1>3, <2>1, <2>2
  <2>4. a \in Below(b)
    BY <1>3
  <2>5. IsFiniteSet(Below(b)) /\ Cardinality(Below(b)) \in 0 .. (n - 1)
    BY <1>2
  <2>6. Cardinality(Below(a)) \in 0 .. (n - 1)
    BY <1>2
  <2> HIDE DEF Below
  <2>7. IsFiniteSet(Below(b) \ {a}) /\ Cardinality(Below(b) \ {a}) = Cardinality(Below(b)) - 1
    BY <2>4, <2>5, FS_RemoveElement
  <2>8. Cardinality(Below(a)) <= Cardinality(Below(b)) - 1
    BY <2>3, <2>7, FS_Subset
  <2> QED BY <1>1, <2>5, <2>6, <2>8
<1>4. \A id \in K : before[id] \in 0 .. (n - 1)
  <2> HIDE DEF Below
  <2> QED BY <1>1, <1>2
<1>5. ASSUME NEW a \in K, NEW b \in K, before[a] = before[b] PROVE a = b
  <2>1. rank[a] \in Nat /\ rank[b] \in Nat
    BY <1>b
  <2>2. ASSUME rank[a] < rank[b] PROVE FALSE
    <3>1. before[a] # before[b]
      BY <1>3, <2>2
    <3> QED BY <1>5, <3>1
  <2>3. ASSUME rank[b] < rank[a] PROVE FALSE
    <3>1. before[b] # before[a]
      BY <1>3, <2>3
    <3> QED BY <1>5, <3>1
  <2>4. rank[a] = rank[b]
    BY <2>1, <2>2, <2>3
  <2> QED BY <1>b, <2>4
<1>6. \A k \in 0 .. (n - 1) : \E id \in K : before[id] = k
  <2>1. before \in [K -> 0 .. (n - 1)]
    BY <1>1, <1>4
  <2>2. IsInjective(before)
    BY <1>5, <2>1 DEF IsInjective
  <2>3. before \in Injection(K, 0 .. (n - 1))
    BY <2>1, <2>2, Zenon DEF Injection
  <2>4. 0 \in Int /\ n - 1 \in Int
    OBVIOUS
  <2>5. /\ IsFiniteSet(0 .. (n - 1))
        /\ Cardinality(0 .. (n - 1)) = IF 0 > n - 1 THEN 0 ELSE n - 1 - 0 + 1
    BY <2>4, FS_Interval
  <2>6. Cardinality(0 .. (n - 1)) = Cardinality(K)
    BY <1>a, <2>5
  <2>7. before \in Surjection(K, 0 .. (n - 1))
    BY <2>3, <2>5, <2>6, FS_Injection
  <2> QED BY <2>7 DEF Surjection
<1>7. before \in [K -> 0 .. (n - 1)]
  BY <1>1, <1>4
<1> QED BY <1>a, <1>5, <1>6, <1>7 DEF IsNumbering
=============================================================================
