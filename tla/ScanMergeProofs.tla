---------------------------- MODULE ScanMergeProofs ----------------------------
(***************************************************************************)
(* Proofs about ScanMerge and the two label parsers of Labels.             *)
(*                                                                         *)
(* The first part is about orders: what Ordered returns, and that it is    *)
(* the only ascending enumeration of a set.                                *)
(***************************************************************************)
EXTENDS ScanMerge, FiniteSetTheorems, SequenceTheorems, WellFoundedInduction, TLAPS

Totals == INSTANCE SequenceFacts WITH op <- Plus, base <- 0
Packs == INSTANCE SequenceFacts WITH op <- Extend, base <- EmptyPack

-----------------------------------------------------------------------------
(* Orders *)

\* A strict total order on a set.
IsOrder(S, less) ==
    /\ \A x \in S : <<x, x>> \notin less
    /\ \A x, y, z \in S : <<x, y>> \in less /\ <<y, z>> \in less => <<x, z>> \in less
    /\ \A x, y \in S : x = y \/ <<x, y>> \in less \/ <<y, x>> \in less

\* s lists the members of S, each once, in ascending order.
Enumerates(s, n, S, less) ==
    /\ s \in [1..n -> S]
    /\ \A x \in S : \E i \in 1..n : s[i] = x
    /\ \A i, j \in 1..n : i < j => <<s[i], s[j]>> \in less

Rank(S, less, x) == Cardinality({y \in S : <<y, x>> \in less})

\* A member of an ascending enumeration has as many members before it as it has
\* places before its own.
LEMMA RankOfPlace ==
    ASSUME NEW S, NEW less, IsOrder(S, less), NEW n \in Nat, NEW s, Enumerates(s, n, S, less),
           NEW i \in 1..n
    PROVE  Rank(S, less, s[i]) = i - 1
<1> DEFINE below == {y \in S : <<y, s[i]>> \in less}
           f == [k \in 1..(i - 1) |-> s[k]]
<1>1. s \in [1..n -> S] /\ s[i] \in S /\ i - 1 \in Nat
  BY DEF Enumerates
<1>2. \A k \in 1..(i - 1) : s[k] \in below
  BY <1>1 DEF Enumerates
<1>3. \A y \in below : \E k \in 1..(i - 1) : s[k] = y
  <2> SUFFICES ASSUME NEW y \in below PROVE \E k \in 1..(i - 1) : s[k] = y
    OBVIOUS
  <2>1. PICK k \in 1..n : s[k] = y
    BY DEF Enumerates
  <2>2. ~(i < k)
    <3> SUFFICES ASSUME i < k PROVE FALSE
      OBVIOUS
    <3>1. <<s[i], y>> \in less /\ <<y, s[i]>> \in less
      BY <2>1 DEF Enumerates
    <3> QED BY <3>1, <1>1 DEF IsOrder
  <2>3. k # i
    BY <2>1, <1>1 DEF IsOrder
  <2> QED BY <2>1, <2>2, <2>3
<1>4. \A j, k \in 1..(i - 1) : j # k => s[j] # s[k]
  <2> SUFFICES ASSUME NEW j \in 1..(i - 1), NEW k \in 1..(i - 1), j < k PROVE s[j] # s[k]
    OBVIOUS
  <2>1. <<s[j], s[k]>> \in less /\ s[k] \in S
    BY <1>1 DEF Enumerates
  <2> QED BY <2>1 DEF IsOrder
<1>5. f \in Bijection(1..(i - 1), below)
  <2>1. f \in [1..(i - 1) -> below]
    BY <1>2
  <2> QED BY <2>1, <1>3, <1>4 DEF Bijection, Injection, Surjection, IsInjective
<1>6. IsFiniteSet(1..(i - 1)) /\ Cardinality(1..(i - 1)) = i - 1
  BY <1>1, FS_Interval
<1>7. Cardinality(below) = i - 1
  <2> HIDE DEF below, f
  <2> QED BY <1>5, <1>6, FS_Bijection DEF ExistsBijection
<1> QED BY <1>7 DEF Rank

\* There is only one, and Ordered returns it.
LEMMA OrderedIs ==
    ASSUME NEW S, NEW less, IsOrder(S, less), NEW n \in Nat, NEW s, Enumerates(s, n, S, less)
    PROVE  n = Cardinality(S) /\ IsFiniteSet(S) /\ Ordered(S, less) = s
<1>1. s \in [1..n -> S]
  BY DEF Enumerates
<1>2. \A i \in 1..n : Rank(S, less, s[i]) = i - 1
  BY RankOfPlace
<1>3. s \in Bijection(1..n, S)
  <2>1. \A j, k \in 1..n : s[j] = s[k] => j = k
    BY <1>2
  <2> QED BY <1>1, <2>1 DEF Enumerates, Bijection, Injection, Surjection, IsInjective
<1>4. n = Cardinality(S) /\ IsFiniteSet(S)
  <2>1. IsFiniteSet(1..n) /\ Cardinality(1..n) = n
    BY FS_Interval
  <2> QED BY <2>1, <1>3, FS_Bijection DEF ExistsBijection
<1>5. \A i \in 1..n : (CHOOSE x \in S : Rank(S, less, x) = i - 1) = s[i]
  <2> SUFFICES ASSUME NEW i \in 1..n
               PROVE  (CHOOSE x \in S : Rank(S, less, x) = i - 1) = s[i]
    OBVIOUS
  <2>1. s[i] \in S /\ Rank(S, less, s[i]) = i - 1
    BY <1>1, <1>2
  <2>2. \A x \in S : Rank(S, less, x) = i - 1 => x = s[i]
    <3> SUFFICES ASSUME NEW x \in S, Rank(S, less, x) = i - 1 PROVE x = s[i]
      OBVIOUS
    <3>1. PICK k \in 1..n : s[k] = x
      BY DEF Enumerates
    <3>2. k - 1 = i - 1
      BY <3>1, <1>2
    <3> QED BY <3>1, <3>2
  <2> QED BY <2>1, <2>2
<1>6. Ordered(S, less) = [i \in 1..n |-> CHOOSE x \in S : Rank(S, less, x) = i - 1]
  BY <1>4 DEF Ordered, Rank
<1> QED BY <1>1, <1>4, <1>5, <1>6

\* The number of members before one grows along the order.
LEMMA RankGrows ==
    ASSUME NEW S, IsFiniteSet(S), NEW less, IsOrder(S, less), NEW x \in S, NEW y \in S,
           <<x, y>> \in less
    PROVE  /\ Rank(S, less, x) < Rank(S, less, y) /\ Rank(S, less, y) < Cardinality(S)
           /\ Rank(S, less, x) \in Nat
<1> DEFINE a == {z \in S : <<z, x>> \in less}
           b == {z \in S : <<z, y>> \in less}
<1>1. a \subseteq b /\ x \in b /\ x \notin a /\ b \subseteq S /\ y \notin b /\ a \subseteq S
  BY DEF IsOrder
<1> HIDE DEF a, b
<1>2. IsFiniteSet(b) /\ Cardinality(b) <= Cardinality(S) /\ (Cardinality(S) = Cardinality(b) => S = b)
  BY <1>1, FS_Subset
<1>3. Cardinality(a) <= Cardinality(b) /\ (Cardinality(b) = Cardinality(a) => b = a) /\ IsFiniteSet(a)
  BY <1>1, <1>2, FS_Subset
<1>4. Cardinality(a) \in Nat /\ Cardinality(b) \in Nat /\ Cardinality(S) \in Nat
  BY <1>2, <1>3, FS_CardinalityType
<1>5. Cardinality(a) < Cardinality(b) /\ Cardinality(b) < Cardinality(S)
  BY <1>1, <1>2, <1>3, <1>4
<1> QED BY <1>4, <1>5 DEF Rank, a, b

\* Ordered lists every member of a finite set in ascending order.
LEMMA OrderedEnumerates ==
    ASSUME NEW S, IsFiniteSet(S), NEW less, IsOrder(S, less)
    PROVE  Cardinality(S) \in Nat /\ Enumerates(Ordered(S, less), Cardinality(S), S, less)
<1> DEFINE n == Cardinality(S)
           f == [x \in S |-> Rank(S, less, x) + 1]
<1>1. n \in Nat
  BY FS_CardinalityType
<1>2. \A x \in S : Rank(S, less, x) \in Nat /\ Rank(S, less, x) < n
  <2> SUFFICES ASSUME NEW x \in S PROVE Rank(S, less, x) \in Nat /\ Rank(S, less, x) < n
    OBVIOUS
  <2> DEFINE a == {z \in S : <<z, x>> \in less}
  <2>1. a \subseteq S /\ x \notin a
    BY DEF IsOrder
  <2> HIDE DEF a
  <2>2. Cardinality(a) <= Cardinality(S) /\ (Cardinality(S) = Cardinality(a) => S = a) /\ IsFiniteSet(a)
    BY <2>1, FS_Subset
  <2>3. Cardinality(a) \in Nat
    BY <2>2, FS_CardinalityType
  <2> QED BY <2>1, <2>2, <2>3, <1>1 DEF Rank, a
<1>3. \A x, y \in S : Rank(S, less, x) = Rank(S, less, y) => x = y
  <2> SUFFICES ASSUME NEW x \in S, NEW y \in S, x # y
               PROVE  Rank(S, less, x) # Rank(S, less, y)
    OBVIOUS
  <2>1. <<x, y>> \in less \/ <<y, x>> \in less
    BY DEF IsOrder
  <2> QED BY <2>1, <1>2, RankGrows
<1>4. f \in Injection(S, 1..n)
  <2>1. f \in [S -> 1..n]
    BY <1>1, <1>2
  <2>2. \A x, y \in S : f[x] = f[y] => x = y
    BY <1>2, <1>3
  <2> QED BY <2>1, <2>2 DEF Injection, IsInjective
<1>5. IsFiniteSet(1..n) /\ Cardinality(1..n) = n
  BY <1>1, FS_Interval
<1>6. f \in Surjection(S, 1..n)
  <2> HIDE DEF f
  <2> QED BY <1>4, <1>5, FS_Injection DEF n
<1>7. \A i \in 1..n : \E x \in S : Rank(S, less, x) = i - 1
  <2> SUFFICES ASSUME NEW i \in 1..n PROVE \E x \in S : Rank(S, less, x) = i - 1
    OBVIOUS
  <2>1. PICK x \in S : f[x] = i
    BY <1>6 DEF Surjection
  <2> QED BY <2>1, <1>2
<1> DEFINE s == [i \in 1..n |-> CHOOSE x \in S : Rank(S, less, x) = i - 1]
<1>8. Ordered(S, less) = s
  BY DEF Ordered, Rank
<1>9. \A i \in 1..n : s[i] \in S /\ Rank(S, less, s[i]) = i - 1
  <2> SUFFICES ASSUME NEW i \in 1..n PROVE s[i] \in S /\ Rank(S, less, s[i]) = i - 1
    OBVIOUS
  <2> QED BY <1>7
<1>10. s \in [1..n -> S]
  BY <1>9
<1>11. \A x \in S : \E i \in 1..n : s[i] = x
  <2> SUFFICES ASSUME NEW x \in S PROVE \E i \in 1..n : s[i] = x
    OBVIOUS
  <2> DEFINE i == Rank(S, less, x) + 1
  <2>1. i \in 1..n /\ Rank(S, less, x) = i - 1
    BY <1>1, <1>2
  <2>2. s[i] = x
    <3> HIDE DEF s, i
    <3> QED BY <2>1, <1>9, <1>3
  <2> QED BY <2>1, <2>2
<1>12. \A i, j \in 1..n : i < j => <<s[i], s[j]>> \in less
  <2> HIDE DEF s
  <2> SUFFICES ASSUME NEW i \in 1..n, NEW j \in 1..n, i < j PROVE <<s[i], s[j]>> \in less
    OBVIOUS
  <2>1. s[i] \in S /\ s[j] \in S /\ Rank(S, less, s[i]) = i - 1 /\ Rank(S, less, s[j]) = j - 1
    BY <1>9
  <2>2. s[i] # s[j]
    BY <2>1
  <2>3. CASE <<s[j], s[i]>> \in less
    BY <2>1, <2>3, RankGrows
  <2> QED BY <2>1, <2>2, <2>3 DEF IsOrder
<1> HIDE DEF s
<1> QED BY <1>1, <1>8, <1>10, <1>11, <1>12 DEF Enumerates

-----------------------------------------------------------------------------
(* Numbers and rows *)

Ascending(S) == {p \in S \X S : p[1] < p[2]}

LEMMA AscendingIsOrder == ASSUME NEW S, S \subseteq Int PROVE IsOrder(S, Ascending(S))
BY DEF IsOrder, Ascending

\* InOrder of a finite set of numbers, element by element.
LEMMA InOrderIs ==
    ASSUME NEW S, S \subseteq Int, IsFiniteSet(S)
    PROVE  /\ Cardinality(S) \in Nat /\ InOrder(S) \in [1..Cardinality(S) -> S]
           /\ \A x \in S : \E i \in 1..Cardinality(S) : InOrder(S)[i] = x
           /\ \A i, j \in 1..Cardinality(S) : i < j => InOrder(S)[i] < InOrder(S)[j]
<1>1. InOrder(S) = Ordered(S, Ascending(S))
  BY DEF InOrder, Ascending
<1>2. Cardinality(S) \in Nat /\ Enumerates(InOrder(S), Cardinality(S), S, Ascending(S))
  BY <1>1, AscendingIsOrder, OrderedEnumerates
<1> QED BY <1>2 DEF Enumerates, Ascending

\* An ascending list of the members is InOrder.
LEMMA InOrderUnique ==
    ASSUME NEW S, S \subseteq Int, NEW n \in Nat, NEW s \in [1..n -> S],
           \A x \in S : \E i \in 1..n : s[i] = x,
           \A i, j \in 1..n : i < j => s[i] < s[j]
    PROVE  n = Cardinality(S) /\ IsFiniteSet(S) /\ InOrder(S) = s
<1>1. InOrder(S) = Ordered(S, Ascending(S))
  BY DEF InOrder, Ascending
<1>2. Enumerates(s, n, S, Ascending(S))
  BY DEF Enumerates, Ascending
<1> QED BY <1>1, <1>2, AscendingIsOrder, OrderedIs

\* A member beyond the others comes last.
LEMMA InOrderAppend ==
    ASSUME NEW S, S \subseteq Int, IsFiniteSet(S), NEW x \in Int, \A y \in S : y < x
    PROVE  /\ InOrder(S) \in Seq(S) /\ Len(InOrder(S)) = Cardinality(S)
           /\ InOrder(S \cup {x}) = Append(InOrder(S), x)
           /\ Cardinality(S \cup {x}) = Cardinality(S) + 1
<1> DEFINE n == Cardinality(S)
           s == InOrder(S)
           t == Append(s, x)
<1>1. /\ n \in Nat /\ s \in [1..n -> S]
      /\ \A y \in S : \E i \in 1..n : s[i] = y
      /\ \A i, j \in 1..n : i < j => s[i] < s[j]
  BY InOrderIs
<1> HIDE DEF n, s
<1>2. s \in Seq(S) /\ Len(s) = n
  BY <1>1
<1>3. /\ t \in [1..(n + 1) -> S \cup {x}] /\ t[n + 1] = x
      /\ \A i \in 1..n : t[i] = s[i]
  <2>1. s \in Seq(S \cup {x}) /\ x \in S \cup {x}
    BY <1>1, <1>2
  <2>2. /\ t \in Seq(S \cup {x}) /\ Len(t) = n + 1 /\ t[n + 1] = x
        /\ \A i \in 1..n : t[i] = s[i]
    BY <2>1, <1>2, <1>1
  <2> HIDE DEF t
  <2>3. t \in [1..Len(t) -> S \cup {x}]
    BY <2>2, LenProperties
  <2> QED BY <2>2, <2>3
<1> HIDE DEF t
<1>4. \A y \in S \cup {x} : \E i \in 1..(n + 1) : t[i] = y
  <2> SUFFICES ASSUME NEW y \in S \cup {x} PROVE \E i \in 1..(n + 1) : t[i] = y
    OBVIOUS
  <2>1. CASE y = x
    BY <2>1, <1>1, <1>3
  <2>2. CASE y # x
    <3>1. PICK i \in 1..n : s[i] = y
      BY <2>2, <1>1
    <3>2. i \in 1..(n + 1) /\ t[i] = y
      BY <3>1, <1>1, <1>3
    <3> QED BY <3>2
  <2> QED BY <2>1, <2>2
<1>5. \A i, j \in 1..(n + 1) : i < j => t[i] < t[j]
  <2> SUFFICES ASSUME NEW i \in 1..(n + 1), NEW j \in 1..(n + 1), i < j PROVE t[i] < t[j]
    OBVIOUS
  <2>1. i \in 1..n /\ t[i] = s[i] /\ s[i] \in S
    BY <1>1, <1>3
  <2>2. CASE j = n + 1
    BY <2>1, <2>2, <1>3
  <2>3. CASE j # n + 1
    BY <2>1, <2>3, <1>1, <1>3
  <2> QED BY <2>2, <2>3
<1>6. n + 1 \in Nat /\ S \cup {x} \subseteq Int
  BY <1>1
<1>7. n + 1 = Cardinality(S \cup {x}) /\ InOrder(S \cup {x}) = t
  <2> DEFINE m == n + 1
             T == S \cup {x}
  <2>1. /\ m \in Nat /\ T \subseteq Int /\ t \in [1..m -> T]
        /\ \A y \in T : \E i \in 1..m : t[i] = y
        /\ \A i, j \in 1..m : i < j => t[i] < t[j]
    BY <1>3, <1>4, <1>5, <1>6
  <2> HIDE DEF m, T
  <2>2. m = Cardinality(T) /\ InOrder(T) = t
    BY <2>1, InOrderUnique
  <2> QED BY <2>2 DEF m, T
<1> QED BY <1>2, <1>7 DEF n, s, t

LEMMA InOrderEmpty == InOrder({}) = <<>>
<1>1. /\ {} \subseteq Int /\ 0 \in Nat /\ <<>> \in [1..0 -> {}]
      /\ \A x \in {} : \E i \in 1..0 : <<>>[i] = x
      /\ \A i, j \in 1..0 : i < j => <<>>[i] < <<>>[j]
  OBVIOUS
<1> QED BY <1>1, InOrderUnique

Row == [1..5 -> Int]
Point == Int \X Int

LexicographicOn(S) == {p \in S \X S : Before(p[1], p[2])}

LEMMA BeforeIs ==
    ASSUME NEW a \in Row, NEW b \in Row
    PROVE  Before(a, b) <=>
               \/ a[1] < b[1]
               \/ a[1] = b[1] /\ a[2] < b[2]
               \/ a[1] = b[1] /\ a[2] = b[2] /\ a[3] < b[3]
               \/ a[1] = b[1] /\ a[2] = b[2] /\ a[3] = b[3] /\ a[4] < b[4]
               \/ a[1] = b[1] /\ a[2] = b[2] /\ a[3] = b[3] /\ a[4] = b[4] /\ a[5] < b[5]
<1> DEFINE P(k) == a[k] < b[k] /\ \A j \in 1..(k - 1) : a[j] = b[j]
<1>1. Before(a, b) <=> P(1) \/ P(2) \/ P(3) \/ P(4) \/ P(5)
  <2>1. 1..5 = {1, 2, 3, 4, 5}
    OBVIOUS
  <2> QED BY <2>1 DEF Before
<1>2. 1..(1 - 1) = {} /\ 1..(2 - 1) = {1} /\ 1..(3 - 1) = {1, 2} /\ 1..(4 - 1) = {1, 2, 3}
      /\ 1..(5 - 1) = {1, 2, 3, 4}
  OBVIOUS
<1>3. P(1) <=> a[1] < b[1]
  BY <1>2
<1>4. P(2) <=> a[1] = b[1] /\ a[2] < b[2]
  BY <1>2
<1>5. P(3) <=> a[1] = b[1] /\ a[2] = b[2] /\ a[3] < b[3]
  BY <1>2
<1>6. P(4) <=> a[1] = b[1] /\ a[2] = b[2] /\ a[3] = b[3] /\ a[4] < b[4]
  BY <1>2
<1>7. P(5) <=> a[1] = b[1] /\ a[2] = b[2] /\ a[3] = b[3] /\ a[4] = b[4] /\ a[5] < b[5]
  BY <1>2
<1> HIDE DEF P
<1> QED BY <1>1, <1>3, <1>4, <1>5, <1>6, <1>7

LEMMA RowsEqual ==
    ASSUME NEW a \in Row, NEW b \in Row, a[1] = b[1], a[2] = b[2], a[3] = b[3], a[4] = b[4],
           a[5] = b[5]
    PROVE  a = b
<1>1. \A k \in 1..5 : a[k] = b[k]
  BY DEF Row
<1> QED BY <1>1 DEF Row

\* The lexicographic order of rows is one.
LEMMA BeforeIsStrict == ASSUME NEW a \in Row PROVE ~Before(a, a)
<1>1. a[1] \in Int /\ a[2] \in Int /\ a[3] \in Int /\ a[4] \in Int /\ a[5] \in Int
  BY DEF Row
<1> QED BY <1>1, BeforeIs

LEMMA BeforeIsTransitive ==
    ASSUME NEW a \in Row, NEW b \in Row, NEW c \in Row, Before(a, b), Before(b, c)
    PROVE  Before(a, c)
<1>1. /\ a[1] \in Int /\ a[2] \in Int /\ a[3] \in Int /\ a[4] \in Int /\ a[5] \in Int
      /\ b[1] \in Int /\ b[2] \in Int /\ b[3] \in Int /\ b[4] \in Int /\ b[5] \in Int
      /\ c[1] \in Int /\ c[2] \in Int /\ c[3] \in Int /\ c[4] \in Int /\ c[5] \in Int
  BY DEF Row
<1>2. \A x, y \in {a, b, c} : Before(x, y) <=>
               \/ x[1] < y[1]
               \/ x[1] = y[1] /\ x[2] < y[2]
               \/ x[1] = y[1] /\ x[2] = y[2] /\ x[3] < y[3]
               \/ x[1] = y[1] /\ x[2] = y[2] /\ x[3] = y[3] /\ x[4] < y[4]
               \/ x[1] = y[1] /\ x[2] = y[2] /\ x[3] = y[3] /\ x[4] = y[4] /\ x[5] < y[5]
  BY BeforeIs
<1> QED BY <1>1, <1>2

LEMMA BeforeIsTotal ==
    ASSUME NEW a \in Row, NEW b \in Row
    PROVE  a = b \/ Before(a, b) \/ Before(b, a)
<1>1. /\ a[1] \in Int /\ a[2] \in Int /\ a[3] \in Int /\ a[4] \in Int /\ a[5] \in Int
      /\ b[1] \in Int /\ b[2] \in Int /\ b[3] \in Int /\ b[4] \in Int /\ b[5] \in Int
  BY DEF Row
<1>2. CASE a[1] # b[1]
  BY <1>1, <1>2, BeforeIs
<1>3. CASE a[1] = b[1] /\ a[2] # b[2]
  BY <1>1, <1>3, BeforeIs
<1>4. CASE a[1] = b[1] /\ a[2] = b[2] /\ a[3] # b[3]
  BY <1>1, <1>4, BeforeIs
<1>5. CASE a[1] = b[1] /\ a[2] = b[2] /\ a[3] = b[3] /\ a[4] # b[4]
  BY <1>1, <1>5, BeforeIs
<1>6. CASE a[1] = b[1] /\ a[2] = b[2] /\ a[3] = b[3] /\ a[4] = b[4] /\ a[5] # b[5]
  BY <1>1, <1>6, BeforeIs
<1> QED BY <1>2, <1>3, <1>4, <1>5, <1>6, RowsEqual

LEMMA LexicographicIsOrder ==
    ASSUME NEW S, S \subseteq Row PROVE IsOrder(S, LexicographicOn(S))
<1>1. \A x \in S : <<x, x>> \notin LexicographicOn(S)
  BY BeforeIsStrict DEF LexicographicOn
<1>2. \A x, y, z \in S : <<x, y>> \in LexicographicOn(S) /\ <<y, z>> \in LexicographicOn(S)
                             => <<x, z>> \in LexicographicOn(S)
  BY BeforeIsTransitive DEF LexicographicOn
<1>3. \A x, y \in S : x = y \/ <<x, y>> \in LexicographicOn(S) \/ <<y, x>> \in LexicographicOn(S)
  BY BeforeIsTotal DEF LexicographicOn
<1> QED BY <1>1, <1>2, <1>3 DEF IsOrder

-----------------------------------------------------------------------------
(* Duplicated rows *)

LEMMA EarlierIsOrder ==
    ASSUME NEW rows \in Seq(Row) PROVE IsOrder(DOMAIN rows, Earlier(rows))
<1>1. \A i \in DOMAIN rows : rows[i] \in Row /\ i \in Int
  OBVIOUS
<1>2. \A i, j \in DOMAIN rows :
          <<i, j>> \in Earlier(rows) <=>
              \/ Before(rows[i], rows[j])
              \/ rows[i] = rows[j] /\ i < j
  BY DEF Earlier
<1>3. \A i \in DOMAIN rows : <<i, i>> \notin Earlier(rows)
  BY <1>1, <1>2, BeforeIsStrict
<1>4. ASSUME NEW i \in DOMAIN rows, NEW j \in DOMAIN rows, NEW k \in DOMAIN rows,
             <<i, j>> \in Earlier(rows), <<j, k>> \in Earlier(rows)
      PROVE  <<i, k>> \in Earlier(rows)
  <2>1. rows[i] \in Row /\ rows[j] \in Row /\ rows[k] \in Row /\ i \in Int /\ j \in Int /\ k \in Int
    BY <1>1
  <2>2. Before(rows[i], rows[j]) /\ Before(rows[j], rows[k]) => Before(rows[i], rows[k])
    BY <2>1, BeforeIsTransitive
  <2>3. \/ Before(rows[i], rows[j])
        \/ rows[i] = rows[j] /\ i < j
    BY <1>2, <1>4
  <2>4. \/ Before(rows[j], rows[k])
        \/ rows[j] = rows[k] /\ j < k
    BY <1>2, <1>4
  <2>5. \/ Before(rows[i], rows[k])
        \/ rows[i] = rows[k] /\ i < k
    BY <2>1, <2>2, <2>3, <2>4
  <2> QED BY <2>5, <1>2
<1>5. ASSUME NEW i \in DOMAIN rows, NEW j \in DOMAIN rows
      PROVE  i = j \/ <<i, j>> \in Earlier(rows) \/ <<j, i>> \in Earlier(rows)
  <2>1. rows[i] \in Row /\ rows[j] \in Row /\ i \in Int /\ j \in Int
    BY <1>1
  <2>2. rows[i] = rows[j] \/ Before(rows[i], rows[j]) \/ Before(rows[j], rows[i])
    BY <2>1, BeforeIsTotal
  <2> QED BY <2>1, <2>2, <1>2
<1> QED BY <1>3, <1>4, <1>5 DEF IsOrder

\* The sorted indices, and the places where a row begins that is not the one before.
Sorted(rows) == Ordered(DOMAIN rows, Earlier(rows))
New(rows) ==
    {k \in DOMAIN Sorted(rows) : k = 1 \/ rows[Sorted(rows)[k - 1]] # rows[Sorted(rows)[k]]}

LEMMA SortedIs ==
    ASSUME NEW rows \in Seq(Row)
    PROVE  /\ Sorted(rows) \in [1..Len(rows) -> 1..Len(rows)]
           /\ \A i \in 1..Len(rows) : \E k \in 1..Len(rows) : Sorted(rows)[k] = i
           /\ \A j, k \in 1..Len(rows) : j < k =>
                  \/ Before(rows[Sorted(rows)[j]], rows[Sorted(rows)[k]])
                  \/ /\ rows[Sorted(rows)[j]] = rows[Sorted(rows)[k]]
                     /\ Sorted(rows)[j] < Sorted(rows)[k]
<1>1. DOMAIN rows = 1..Len(rows) /\ Len(rows) \in Nat
  OBVIOUS
<1>2. IsFiniteSet(1..Len(rows)) /\ Cardinality(1..Len(rows)) = Len(rows)
  BY <1>1, FS_Interval
<1>3. Enumerates(Sorted(rows), Len(rows), DOMAIN rows, Earlier(rows))
  BY <1>1, <1>2, EarlierIsOrder, OrderedEnumerates DEF Sorted
<1> QED BY <1>1, <1>3 DEF Enumerates, Earlier

\* No row comes back once another has followed it.
LEMMA RowsDoNotReturn ==
    ASSUME NEW rows \in Seq(Row), NEW j \in 1..Len(rows), NEW k \in New(rows), j < k
    PROVE  Before(rows[Sorted(rows)[j]], rows[Sorted(rows)[k]])
<1> DEFINE s == Sorted(rows)
           n == Len(rows)
<1>1. n \in Nat /\ s \in [1..n -> 1..n] /\ \A i \in 1..n : rows[i] \in Row
  BY SortedIs
<1>2. k \in 1..n /\ (k = 1 \/ rows[s[k - 1]] # rows[s[k]])
  BY <1>1 DEF New
<1>3. \A a, b \in 1..n : a < b => Before(rows[s[a]], rows[s[b]]) \/ rows[s[a]] = rows[s[b]]
  BY SortedIs
<1> HIDE DEF s, n
<1>4. k - 1 \in 1..n /\ j <= k - 1 /\ j \in 1..n /\ k # 1
  BY <1>1, <1>2 DEF n
<1>5. rows[s[j]] \in Row /\ rows[s[k]] \in Row /\ rows[s[k - 1]] \in Row
  BY <1>1, <1>2, <1>4
<1>6. Before(rows[s[k - 1]], rows[s[k]])
  BY <1>2, <1>3, <1>4
<1>7. CASE j = k - 1
  BY <1>6, <1>7 DEF s
<1>8. CASE j # k - 1
  <2>1. Before(rows[s[j]], rows[s[k - 1]]) \/ rows[s[j]] = rows[s[k - 1]]
    BY <1>3, <1>4, <1>8
  <2>2. CASE Before(rows[s[j]], rows[s[k - 1]])
    BY <2>2, <1>5, <1>6, BeforeIsTransitive DEF s
  <2>3. CASE rows[s[j]] = rows[s[k - 1]]
    BY <2>3, <1>6 DEF s
  <2> QED BY <2>1, <2>2, <2>3
<1> QED BY <1>7, <1>8

\* The row at any place begins at a place no later.
LEMMA RowsBegin ==
    ASSUME NEW rows \in Seq(Row), NEW v \in ToSet(rows)
    PROVE  \E k \in New(rows) : rows[Sorted(rows)[k]] = v
<1> DEFINE s == Sorted(rows)
           n == Len(rows)
           T == {k \in 1..n : rows[s[k]] = v}
<1>1. n \in Nat /\ s \in [1..n -> 1..n] /\ DOMAIN s = 1..n
      /\ \A i \in 1..n : \E k \in 1..n : s[k] = i
  BY SortedIs
<1>2. T # {}
  <2>1. PICK i \in 1..n : rows[i] = v
    BY DEF ToSet
  <2>2. PICK k \in 1..n : s[k] = i
    BY <1>1, <2>1
  <2> QED BY <2>1, <2>2
<1>3. T \subseteq Nat
  BY <1>1
<1>4. \E k \in T : \A j \in T : ~(<<j, k>> \in OpToRel(<, Nat))
  <2> HIDE DEF T
  <2> QED BY <1>2, <1>3, WFMin, NatLessThanWellFounded
<1>5. PICK k \in T : \A j \in T : ~(<<j, k>> \in OpToRel(<, Nat))
  BY <1>4
<1>6. \A j \in T : ~(j < k)
  BY <1>3, <1>5 DEF OpToRel
<1>7. k - 1 \notin T /\ k \in 1..n /\ rows[s[k]] = v
  <2>1. k \in 1..n /\ rows[s[k]] = v
    OBVIOUS
  <2>2. k - 1 < k
    BY <2>1
  <2> QED BY <2>1, <2>2, <1>6
<1>8. k = 1 \/ rows[s[k - 1]] # rows[s[k]]
  BY <1>1, <1>7
<1>9. k \in New(rows)
  BY <1>1, <1>7, <1>8 DEF New
<1> QED BY <1>7, <1>9

LEMMA NewIs ==
    ASSUME NEW rows \in Seq(Row)
    PROVE  /\ New(rows) \subseteq 1..Len(rows) /\ IsFiniteSet(New(rows))
           /\ Cardinality(New(rows)) \in Nat
<1>1. New(rows) \subseteq 1..Len(rows) /\ Len(rows) \in Nat
  BY SortedIs DEF New
<1>2. IsFiniteSet(1..Len(rows))
  BY <1>1, FS_Interval
<1> QED BY <1>1, <1>2, FS_Subset, FS_CardinalityType

\* The first row of every kind, in the order of the rows.
Firsts(rows) == [i \in 1..Cardinality(New(rows)) |-> Sorted(rows)[InOrder(New(rows))[i]]]

LEMMA FirstsAre ==
    ASSUME NEW rows \in Seq(Row)
    PROVE  LET m == Cardinality(New(rows))
           IN  /\ m \in Nat /\ Firsts(rows) \in [1..m -> 1..Len(rows)]
               /\ \A i, j \in 1..m : i < j => Before(rows[Firsts(rows)[i]], rows[Firsts(rows)[j]])
               /\ \A v \in ToSet(rows) : \E i \in 1..m : rows[Firsts(rows)[i]] = v
               /\ \A i \in 1..m : \A l \in 1..Len(rows) :
                      rows[l] = rows[Firsts(rows)[i]] => Firsts(rows)[i] <= l
<1> DEFINE m == Cardinality(New(rows))
           s == Sorted(rows)
           p == InOrder(New(rows))
           f == Firsts(rows)
           n == Len(rows)
<1>1. /\ New(rows) \subseteq 1..n /\ IsFiniteSet(New(rows)) /\ m \in Nat /\ n \in Nat
      /\ New(rows) \subseteq Int
  BY NewIs
<1>2. /\ p \in [1..m -> New(rows)]
      /\ \A k \in New(rows) : \E i \in 1..m : p[i] = k
      /\ \A i, j \in 1..m : i < j => p[i] < p[j]
  BY <1>1, InOrderIs
<1>3. s \in [1..n -> 1..n] /\ \A i \in 1..n : \E k \in 1..n : s[k] = i
  BY SortedIs
<1>4. f = [i \in 1..m |-> s[p[i]]]
  BY DEF Firsts
<1>0. \A i \in 1..m : p[i] \in New(rows) /\ p[i] \in 1..n
  BY <1>1, <1>2
<1> HIDE DEF s, p, f, n, m
<1>5. f \in [1..m -> 1..n] /\ \A i \in 1..m : f[i] = s[p[i]]
  BY <1>0, <1>3, <1>4
<1>6. \A i, j \in 1..m : i < j => Before(rows[f[i]], rows[f[j]])
  <2> SUFFICES ASSUME NEW i \in 1..m, NEW j \in 1..m, i < j PROVE Before(rows[f[i]], rows[f[j]])
    OBVIOUS
  <2>1. p[i] < p[j]
    BY <1>2
  <2>2. p[i] \in 1..Len(rows) /\ p[j] \in New(rows)
    BY <1>0 DEF n
  <2>3. Before(rows[Sorted(rows)[p[i]]], rows[Sorted(rows)[p[j]]])
    BY <2>1, <2>2, RowsDoNotReturn
  <2> QED BY <2>3, <1>5 DEF s
<1>7. \A v \in ToSet(rows) : \E i \in 1..m : rows[f[i]] = v
  <2> SUFFICES ASSUME NEW v \in ToSet(rows) PROVE \E i \in 1..m : rows[f[i]] = v
    OBVIOUS
  <2>1. PICK k \in New(rows) : rows[s[k]] = v
    BY RowsBegin DEF s
  <2>2. PICK i \in 1..m : p[i] = k
    BY <1>2
  <2> QED BY <2>1, <2>2, <1>5
<1>8. ASSUME NEW i \in 1..m, NEW l \in 1..n, rows[l] = rows[f[i]]
      PROVE  f[i] <= l
  <2>1. PICK k \in 1..n : s[k] = l
    BY <1>3
  <2>2. p[i] \in New(rows) /\ p[i] \in 1..n /\ f[i] = s[p[i]]
    BY <1>0, <1>5
  <2>3. rows[l] \in Row
    BY DEF n
  <2>4. ~(k < p[i])
    <3> SUFFICES ASSUME k < p[i] PROVE FALSE
      OBVIOUS
    <3>1. Before(rows[l], rows[f[i]])
      BY <2>1, <2>2, RowsDoNotReturn DEF n, s
    <3> QED BY <3>1, <1>8, <2>3, BeforeIsStrict
  <2>5. CASE k = p[i]
    BY <2>1, <2>2, <2>5, <1>5
  <2>6. CASE p[i] < k
    <3>1. Before(rows[s[p[i]]], rows[s[k]]) \/ s[p[i]] < s[k]
      BY <2>1, <2>2, <2>6, SortedIs DEF n, s
    <3>2. ~Before(rows[s[p[i]]], rows[s[k]])
      BY <2>1, <2>2, <2>3, <1>8, BeforeIsStrict
    <3>3. s[p[i]] < s[k] /\ s[p[i]] = f[i] /\ s[k] = l
      BY <3>1, <3>2, <2>1, <2>2
    <3>4. f[i] \in Int /\ l \in Int
      BY <1>1, <1>5
    <3> QED BY <3>3, <3>4
  <2> QED BY <2>1, <2>2, <2>4, <2>5, <2>6, <1>1
<1> QED BY <1>1, <1>5, <1>6, <1>7, <1>8 DEF s, p, f, n, m

\* The conditional permutation of the native engine is that of np.unique.
THEOREM KeptIsUnique ==
    ASSUME NEW rows \in Seq(Row)
    PROVE  /\ Kept(rows) = IF Cardinality(ToSet(rows)) < Len(rows) THEN Unique(rows)
                           ELSE [l \in DOMAIN rows |-> l]
           /\ Kept(rows) \in Seq(1..Len(rows)) /\ Len(Kept(rows)) <= Len(rows)
<1> DEFINE V == ToSet(rows)
           m == Cardinality(New(rows))
           n == Len(rows)
           f == Firsts(rows)
           u == [i \in 1..m |-> rows[f[i]]]
           w == Lexicographic(V)
<1>1. n \in Nat /\ V \subseteq Row /\ DOMAIN rows = 1..n /\ \A l \in 1..n : rows[l] \in V
  BY DEF ToSet
<1>2. /\ m \in Nat /\ f \in [1..m -> 1..n]
      /\ \A i, j \in 1..m : i < j => Before(rows[f[i]], rows[f[j]])
      /\ \A v \in V : \E i \in 1..m : rows[f[i]] = v
      /\ \A i \in 1..m : \A l \in 1..n : rows[l] = rows[f[i]] => f[i] <= l
  BY FirstsAre
<1>3. Kept(rows) = IF m < n THEN f ELSE [l \in 1..n |-> l]
  BY <1>1 DEF Kept, Firsts, Sorted, New
<1>4. Unique(rows) = [i \in DOMAIN w |-> Min({l \in DOMAIN rows : rows[l] = w[i]})]
  BY DEF Unique
<1>5. w = Ordered(V, LexicographicOn(V))
  BY DEF Lexicographic, LexicographicOn
<1> HIDE DEF V, m, n, f, w
<1>6. u \in [1..m -> V] /\ \A i \in 1..m : u[i] = rows[f[i]]
  BY <1>1, <1>2
<1> HIDE DEF u
<1>7. Enumerates(u, m, V, LexicographicOn(V))
  BY <1>2, <1>6, ZenonT(30) DEF Enumerates, LexicographicOn
<1>8. m = Cardinality(V) /\ w = u
  BY <1>1, <1>2, <1>5, <1>7, LexicographicIsOrder, OrderedIs
<1>9. \A i \in 1..m : Min({l \in DOMAIN rows : rows[l] = w[i]}) = f[i]
  <2> SUFFICES ASSUME NEW i \in 1..m PROVE Min({l \in DOMAIN rows : rows[l] = w[i]}) = f[i]
    OBVIOUS
  <2> DEFINE T == {l \in DOMAIN rows : rows[l] = w[i]}
  <2>1. f[i] \in T /\ (\A l \in T : f[i] <= l) /\ T \subseteq Int
    BY <1>1, <1>2, <1>6, <1>8
  <2> HIDE DEF T
  <2>2. ASSUME NEW x \in T, \A y \in T : x <= y PROVE x = f[i]
    <3>1. x <= f[i] /\ f[i] <= x /\ x \in Int /\ f[i] \in Int
      BY <2>1, <2>2
    <3> QED BY <3>1
  <2>3. Min(T) = f[i]
    BY <2>1, <2>2 DEF Min
  <2> QED BY <2>3 DEF T
<1>10. Unique(rows) = f
  <2>1. DOMAIN w = 1..m
    BY <1>6, <1>8
  <2>2. Unique(rows) = [i \in 1..m |-> f[i]]
    BY <2>1, <1>4, <1>9
  <2> QED BY <2>2, <1>2
<1>11. m <= n
  <2>1. IsFiniteSet(1..Len(rows)) /\ Cardinality(1..Len(rows)) = n
    BY <1>1, FS_Interval DEF n
  <2>2. New(rows) \subseteq 1..Len(rows)
    BY NewIs
  <2> QED BY <2>1, <2>2, FS_Subset DEF m
<1>12. Kept(rows) \in Seq(1..n) /\ Len(Kept(rows)) <= n
  <2>1. CASE m < n
    BY <2>1, <1>1, <1>2, <1>3
  <2>2. CASE ~(m < n)
    <3>1. [l \in 1..n |-> l] \in Seq(1..n) /\ Len([l \in 1..n |-> l]) = n
      BY <1>1
    <3> QED BY <3>1, <2>2, <1>3, <1>1
  <2> QED BY <2>1, <2>2
<1> QED BY <1>1, <1>3, <1>8, <1>10, <1>11, <1>12 DEF V, n

-----------------------------------------------------------------------------
(* The two parsers *)

LEMMA Extremes ==
    ASSUME NEW S, S \subseteq Int, IsFiniteSet(S), S # {}
    PROVE  Min(S) \in S /\ Max(S) \in S
<1> DEFINE n == Cardinality(S)
           s == InOrder(S)
<1>1. /\ n \in Nat /\ s \in [1..n -> S] /\ \A x \in S : \E i \in 1..n : s[i] = x
      /\ \A i, j \in 1..n : i < j => s[i] < s[j]
  BY InOrderIs
<1> HIDE DEF n, s
<1>2. 1 \in 1..n /\ n \in 1..n
  <2>1. PICK x \in S : TRUE
    OBVIOUS
  <2>2. PICK i \in 1..n : s[i] = x
    BY <1>1
  <2> QED BY <1>1, <2>2
<1>3. s[1] \in S /\ s[n] \in S
  BY <1>1, <1>2
<1>4. \A x \in S : s[1] <= x /\ x <= s[n]
  <2> SUFFICES ASSUME NEW x \in S PROVE s[1] <= x /\ x <= s[n]
    OBVIOUS
  <2>1. PICK i \in 1..n : s[i] = x
    BY <1>1
  <2>2. i = 1 \/ s[1] < s[i]
    BY <1>1, <1>2
  <2>3. i = n \/ s[i] < s[n]
    BY <1>1, <1>2
  <2>4. s[1] \in Int /\ s[n] \in Int /\ x \in Int
    BY <1>3
  <2> QED BY <2>1, <2>2, <2>3, <2>4
<1>5. Min(S) \in S
  <2>1. \E x \in S : \A y \in S : x <= y
    BY <1>3, <1>4
  <2> QED BY <2>1 DEF Min
<1>6. Max(S) \in S
  <2>1. \A y \in S : s[n] >= y
    <3> SUFFICES ASSUME NEW y \in S PROVE s[n] >= y
      OBVIOUS
    <3>1. y <= s[n] /\ y \in Int /\ s[n] \in Int
      BY <1>3, <1>4
    <3> QED BY <3>1
  <2>2. \E x \in S : \A y \in S : x >= y
    BY <1>3, <2>1
  <2> QED BY <2>2 DEF Max
<1> QED BY <1>5, <1>6

LEMMA ValueType == ASSUME NEW t, ReferenceToken(t) PROVE ValueOf(t) \in Int
<1>1. t \in DOMAIN Number \/ t = "-0" \/ t = "inf"
  BY DEF ReferenceToken, NativeToken
<1>2. CASE t = "-0"
  BY <1>2 DEF ValueOf
<1>3. CASE t = "inf"
  BY <1>3, InfiniteAssumption DEF ValueOf
<1>4. CASE t \in DOMAIN Number
  <2>1. t # "-0" /\ t # "inf" /\ Number[t] \in Int
    BY <1>4, LabelAssumption DEF Special
  <2> QED BY <2>1 DEF ValueOf
<1> QED BY <1>1, <1>2, <1>3, <1>4

\* A line that can be read as a polygon has at least one point.
LEMMA PointsType ==
    ASSUME NEW line \in Seq(Token), Len(line) >= 3, Len(line) % 2 = 1,
           \A k \in DOMAIN line : ReferenceToken(line[k])
    PROVE  /\ Points(line) \in Seq(Point) /\ Len(Points(line)) > 0
           /\ BoxRow(line) \in Row
<1> DEFINE n == (Len(line) - 1) \div 2
           p == Points(line)
           xs == {q[1] : q \in ToSet(p)}
           ys == {q[2] : q \in ToSet(p)}
<1>1. Len(line) \in Nat /\ n \in Nat /\ n > 0 /\ 2 * n + 1 <= Len(line) /\ DOMAIN line = 1..Len(line)
  OBVIOUS
<1>2. \A k \in 1..Len(line) : ValueOf(line[k]) \in Int
  BY <1>1, ValueType
<1>3. \A k \in 1..n : 2 * k \in 1..Len(line) /\ 2 * k + 1 \in 1..Len(line)
  BY <1>1
<1>4. p = [k \in 1..n |-> <<ValueOf(line[2 * k]), ValueOf(line[2 * k + 1])>>]
  BY DEF Points
<1> HIDE DEF n, p
<1>5. \A k \in 1..n : <<ValueOf(line[2 * k]), ValueOf(line[2 * k + 1])>> \in Point
  BY <1>2, <1>3 DEF Point
<1>6. p \in [1..n -> Point]
  BY <1>4, <1>5
<1>7. p \in Seq(Point) /\ Len(p) = n
  BY <1>1, <1>6
<1>8. IsFiniteSet(ToSet(p)) /\ ToSet(p) \subseteq Point /\ ToSet(p) # {}
  <2>1. ToSet(p) = {p[i] : i \in 1..n}
    BY <1>6 DEF ToSet
  <2>2. p \in Surjection(1..n, ToSet(p))
    BY <2>1, <1>6 DEF Surjection
  <2>3. IsFiniteSet(1..n)
    BY <1>1, FS_Interval
  <2> QED BY <2>1, <2>2, <2>3, <1>1, <1>6, FS_Surjection
<1>9. IsFiniteSet(xs) /\ IsFiniteSet(ys)
  <2> DEFINE f == [q \in ToSet(p) |-> q[1]]
             g == [q \in ToSet(p) |-> q[2]]
  <2>1. f \in Surjection(ToSet(p), xs) /\ g \in Surjection(ToSet(p), ys)
    BY DEF Surjection
  <2> HIDE DEF f, g
  <2> QED BY <2>1, <1>8, FS_Surjection
<1>10. xs \subseteq Int /\ ys \subseteq Int /\ xs # {} /\ ys # {}
  BY <1>8 DEF Point
<1>11. BoxRow(line) = <<ValueOf(line[1]), (Min(xs) + Max(xs)) \div 2, (Min(ys) + Max(ys)) \div 2,
                        Max(xs) - Min(xs), Max(ys) - Min(ys)>>
  BY DEF BoxRow, p
<1> HIDE DEF xs, ys
<1>12. Min(xs) \in Int /\ Max(xs) \in Int /\ Min(ys) \in Int /\ Max(ys) \in Int
  BY <1>9, <1>10, Extremes
<1>13. ValueOf(line[1]) \in Int
  BY <1>1, <1>2
<1>14. BoxRow(line) \in Row
  BY <1>11, <1>12, <1>13, SMTT(30) DEF Row
<1> QED BY <1>1, <1>7, <1>14 DEF p

\* The rows of a text, line by line.
Rows(text) == [l \in DOMAIN text |-> RowOf(text[l], HasPolygons(text))]

LEMMA ReadableRows ==
    ASSUME NEW text \in Seq(Seq(Token)), Readable(text, HasPolygons(text))
    PROVE  /\ Rows(text) \in Seq(Row) /\ Len(Rows(text)) = Len(text)
           /\ HasPolygons(text) => \A l \in DOMAIN text : Points(text[l]) \in Seq(Point)
<1>1. DOMAIN text = 1..Len(text) /\ Len(text) \in Nat /\ \A l \in DOMAIN text : text[l] \in Seq(Token)
  OBVIOUS
<1>2. ASSUME NEW l \in DOMAIN text
      PROVE  /\ RowOf(text[l], HasPolygons(text)) \in Row
             /\ HasPolygons(text) => Points(text[l]) \in Seq(Point)
  <2>1. /\ IF HasPolygons(text) THEN Len(text[l]) >= 3 /\ Len(text[l]) % 2 = 1 /\ Len(text[l]) # 5
           ELSE Len(text[l]) = 5
        /\ \A k \in DOMAIN text[l] : ReferenceToken(text[l][k])
    BY DEF Readable
  <2>2. CASE HasPolygons(text)
    <3>1. BoxRow(text[l]) \in Row /\ Points(text[l]) \in Seq(Point)
      BY <2>1, <2>2, <1>1, PointsType
    <3> QED BY <3>1, <2>2 DEF RowOf
  <2>3. CASE ~HasPolygons(text)
    <3>1. text[l] \in Seq(Token) /\ Len(text[l]) = 5
      BY <2>1, <2>3, <1>1
    <3>1a. DOMAIN text[l] = 1..5
      BY <3>1
    <3>2. \A k \in 1..5 : ValueOf(text[l][k]) \in Int
      BY <2>1, <3>1a, ValueType
    <3> QED BY <3>2, <2>3 DEF RowOf, Row
  <2> QED BY <2>2, <2>3
<1>3. Rows(text) \in [1..Len(text) -> Row]
  BY <1>1, <1>2 DEF Rows
<1> HIDE DEF Rows
<1>4. Rows(text) \in Seq(Row) /\ Len(Rows(text)) = Len(text)
  BY <1>1, <1>3
<1> QED BY <1>2, <1>4

LEMMA AcceptableIsReadable ==
    ASSUME NEW text, NEW polygons, Acceptable(text, polygons)
    PROVE  Readable(text, polygons)
BY DEF Acceptable, Readable, ReferenceToken

\* What a record of the native engine and a verdict of the reference can be.
RecordType == [status : {Valid, NoFile, Empty, Reference, TooLarge}, rows : Seq(Row),
               segments : Seq(Seq(Point)), duplicates : Nat]

VerdictType == [ok : BOOLEAN, rows : Seq(Row), segments : Seq(Seq(Point)), missing : {0, 1},
                empty : {0, 1}, duplicates : Nat]

\* A polygon for every row, or none at all.
Paired(r) == Len(r.segments) = 0 \/ Len(r.segments) = Len(r.rows)

LEMMA RecordIs ==
    ASSUME NEW status \in {Valid, NoFile, Empty, Reference, TooLarge}
    PROVE  Record(status) \in RecordType /\ Paired(Record(status))
<1>1. <<>> \in Seq(Row) /\ <<>> \in Seq(Seq(Point)) /\ Len(<<>>) = 0
  OBVIOUS
<1> QED BY <1>1 DEF Record, RecordType, Paired

\* A valid text, by rows and polygons that are kept.
Chose(rows, segments, duplicates, text) ==
    LET kept == Kept(Rows(text))
    IN  /\ rows = [i \in DOMAIN kept |-> Rows(text)[kept[i]]]
        /\ segments = IF HasPolygons(text) THEN [i \in DOMAIN kept |-> Points(text[kept[i]])]
                      ELSE <<>>
        /\ duplicates = Len(Rows(text)) - Len(kept)

LEMMA ChoseTypes ==
    ASSUME NEW text \in Seq(Seq(Token)), Readable(text, HasPolygons(text)),
           NEW rows, NEW segments, NEW duplicates, Chose(rows, segments, duplicates, text)
    PROVE  /\ rows \in Seq(Row) /\ segments \in Seq(Seq(Point)) /\ duplicates \in Nat
           /\ Len(segments) = 0 \/ Len(segments) = Len(rows)
<1> DEFINE n == Len(text)
           kept == Kept(Rows(text))
<1>1. n \in Nat /\ DOMAIN text = 1..n
  OBVIOUS
<1>2. /\ Rows(text) \in Seq(Row) /\ Len(Rows(text)) = n
      /\ HasPolygons(text) => \A l \in 1..n : Points(text[l]) \in Seq(Point)
  BY <1>1, ReadableRows
<1>3. kept \in Seq(1..n) /\ Len(kept) <= n /\ Len(kept) \in Nat
  BY <1>2, KeptIsUnique
<1>4. /\ rows = [i \in DOMAIN kept |-> Rows(text)[kept[i]]]
      /\ segments = IF HasPolygons(text) THEN [i \in DOMAIN kept |-> Points(text[kept[i]])]
                    ELSE <<>>
      /\ duplicates = n - Len(kept)
  BY <1>2 DEF Chose
<1> HIDE DEF n, kept
<1>3a. DOMAIN kept = 1..Len(kept) /\ \A i \in 1..Len(kept) : kept[i] \in 1..n
  <2>1. kept \in [1..Len(kept) -> 1..n]
    BY <1>3, LenProperties
  <2> QED BY <2>1
<1>5. rows \in Seq(Row) /\ Len(rows) = Len(kept)
  <2>1. \A l \in 1..n : Rows(text)[l] \in Row
    BY <1>1, <1>2
  <2>2. rows \in [1..Len(kept) -> Row]
    BY <2>1, <1>3a, <1>4
  <2> QED BY <2>2, <1>3
<1>6. CASE HasPolygons(text)
  <2>1. \A l \in 1..n : Points(text[l]) \in Seq(Point)
    BY <1>2, <1>6
  <2>2. segments \in [1..Len(kept) -> Seq(Point)]
    BY <2>1, <1>3a, <1>4, <1>6
  <2>3. segments \in Seq(Seq(Point)) /\ Len(segments) = Len(kept)
    <3>1. segments \in Seq(Seq(Point))
      BY <2>2, <1>3
    <3> QED BY <3>1, <2>2, <1>3
  <2> QED BY <2>3, <1>1, <1>3, <1>4, <1>5
<1>7. CASE ~HasPolygons(text)
  <2>1. segments = <<>> /\ segments \in Seq(Seq(Point))
    BY <1>4, <1>7
  <2> QED BY <2>1, <1>1, <1>3, <1>4, <1>5
<1> QED BY <1>6, <1>7

\* Every row of a text in range.
AllInRange(text, single) == \A l \in DOMAIN text : InRange(Rows(text)[l], single)

\* The three outcomes of the native parser.
LEMMA ParseIs ==
    ASSUME NEW text \in Seq(Seq(Token)), NEW single
    PROVE  LET r == Parse(text, single)
           IN  \/ text = <<>> /\ r = Record(Empty)
               \/ /\ text # <<>> /\ r = Record(Reference)
                  /\ ~(Acceptable(text, HasPolygons(text)) /\ AllInRange(text, single))
               \/ /\ text # <<>> /\ r.status = Valid
                  /\ Acceptable(text, HasPolygons(text)) /\ AllInRange(text, single)
                  /\ r = [status |-> Valid, rows |-> r.rows, segments |-> r.segments,
                          duplicates |-> r.duplicates]
                  /\ Chose(r.rows, r.segments, r.duplicates, text)
<1>1. CASE text = <<>>
  BY <1>1 DEF Parse
<1>2. CASE text # <<>> /\ ~(Acceptable(text, HasPolygons(text)) /\ AllInRange(text, single))
  BY <1>2 DEF Parse, AllInRange, Rows
<1>3. CASE text # <<>> /\ Acceptable(text, HasPolygons(text)) /\ AllInRange(text, single)
  <2> DEFINE kept == Kept(Rows(text))
             rows == [i \in DOMAIN kept |-> Rows(text)[kept[i]]]
             segments == IF HasPolygons(text) THEN [i \in DOMAIN kept |-> Points(text[kept[i]])]
                         ELSE <<>>
             duplicates == Len(Rows(text)) - Len(kept)
             r == [status |-> Valid, rows |-> rows, segments |-> segments,
                   duplicates |-> duplicates]
  <2>1. Parse(text, single) = r
    BY <1>3 DEF Parse, AllInRange, Rows
  <2>2. Chose(rows, segments, duplicates, text)
    BY DEF Chose
  <2> HIDE DEF rows, segments, duplicates
  <2> QED BY <2>1, <2>2, <1>3
<1> QED BY <1>1, <1>2, <1>3

LEMMA ParseType ==
    ASSUME NEW text \in Seq(Seq(Token)), NEW single
    PROVE  Parse(text, single) \in RecordType /\ Paired(Parse(text, single))
<1> DEFINE r == Parse(text, single)
<1>1. CASE r = Record(Empty) \/ r = Record(Reference)
  BY <1>1, RecordIs
<1>2. CASE /\ Acceptable(text, HasPolygons(text))
           /\ r = [status |-> Valid, rows |-> r.rows, segments |-> r.segments,
                   duplicates |-> r.duplicates]
           /\ Chose(r.rows, r.segments, r.duplicates, text)
  <2> HIDE DEF r
  <2>1. /\ r.rows \in Seq(Row) /\ r.segments \in Seq(Seq(Point)) /\ r.duplicates \in Nat
        /\ Len(r.segments) = 0 \/ Len(r.segments) = Len(r.rows)
    BY <1>2, AcceptableIsReadable, ChoseTypes
  <2> QED BY <2>1, <1>2 DEF RecordType, Paired, r
<1> QED BY <1>1, <1>2, ParseIs

\* The two outcomes of the reference for a text with lines.
LEMMA VerifyIs ==
    ASSUME NEW text \in Seq(Seq(Token)), NEW single, text # <<>>
    PROVE  LET v == Verify(TextFile(text), single)
           IN  \/ /\ ~v.ok /\ v = Verdict(FALSE, <<>>, <<>>, 0, 0, 0)
                  /\ ~(Readable(text, HasPolygons(text)) /\ AllInRange(text, single))
               \/ /\ v.ok /\ v = Verdict(TRUE, v.rows, v.segments, 0, 0, v.duplicates)
                  /\ Readable(text, HasPolygons(text)) /\ AllInRange(text, single)
                  /\ Chose(v.rows, v.segments, v.duplicates, text)
<1> DEFINE rows == Rows(text)
           unique == IF Cardinality(ToSet(rows)) < Len(rows) THEN Unique(rows)
                     ELSE [l \in DOMAIN rows |-> l]
           v == Verify(TextFile(text), single)
           chosen == [i \in DOMAIN unique |-> rows[unique[i]]]
           segments == IF HasPolygons(text) THEN [i \in DOMAIN unique |-> Points(text[unique[i]])]
                       ELSE <<>>
<1>1. v = IF ~(Readable(text, HasPolygons(text)) /\ AllInRange(text, single))
          THEN Verdict(FALSE, <<>>, <<>>, 0, 0, 0)
          ELSE Verdict(TRUE, chosen, segments, 0, 0, Len(rows) - Len(unique))
  <2>1. v = IF ~Readable(text, HasPolygons(text))
               \/ \E l \in DOMAIN text : ~InRange(rows[l], single)
            THEN Verdict(FALSE, <<>>, <<>>, 0, 0, 0)
            ELSE Verdict(TRUE, chosen, segments, 0, 0, Len(rows) - Len(unique))
    BY DEF Verify, TextFile, Rows
  <2>2. AllInRange(text, single) <=> ~\E l \in DOMAIN text : ~InRange(rows[l], single)
    BY DEF AllInRange
  <2> HIDE DEF v, chosen, segments, rows, unique
  <2> QED BY <2>1, <2>2
<1>2. CASE ~(Readable(text, HasPolygons(text)) /\ AllInRange(text, single))
  BY <1>1, <1>2 DEF Verdict
<1>3. CASE Readable(text, HasPolygons(text)) /\ AllInRange(text, single)
  <2>1. unique = Kept(rows)
    BY <1>3, ReadableRows, KeptIsUnique
  <2>2. Chose(chosen, segments, Len(rows) - Len(unique), text)
    <3> HIDE DEF unique
    <3> QED BY <2>1 DEF Chose
  <2> HIDE DEF chosen, segments, unique, rows, v
  <2>3. v = Verdict(TRUE, chosen, segments, 0, 0, Len(rows) - Len(unique))
    BY <1>1, <1>3
  <2>4. v.ok /\ v.rows = chosen /\ v.segments = segments /\ v.duplicates = Len(rows) - Len(unique)
    BY <2>3 DEF Verdict
  <2>5. Chose(v.rows, v.segments, v.duplicates, text)
    BY <2>2, <2>4
  <2> QED BY <2>3, <2>4, <2>5, <1>3 DEF v
<1> QED BY <1>2, <1>3

\* What both make of the same lines is the same.
LEMMA ChoseSame ==
    ASSUME NEW text, NEW rows, NEW segments, NEW duplicates, Chose(rows, segments, duplicates, text),
           NEW rows2, NEW segments2, NEW duplicates2, Chose(rows2, segments2, duplicates2, text)
    PROVE  rows = rows2 /\ segments = segments2 /\ duplicates = duplicates2
BY DEF Chose

LEMMA VerifyEmpty ==
    ASSUME NEW single PROVE Verify(TextFile(<<>>), single) = Verdict(TRUE, <<>>, <<>>, 0, 1, 0)
BY DEF Verify, TextFile

LEMMA VerifyMissing ==
    ASSUME NEW single PROVE Verify(Missing, single) = Verdict(TRUE, <<>>, <<>>, 1, 0, 0)
BY DEF Verify, Missing

\* What the native parser reads, the reference reads in the same way, for every
\* text: rows, polygons, their order and the number of duplicates (parse of
\* parser.rs, verify_image_label).
THEOREM NativeAgrees ==
    ASSUME NEW text \in Seq(Seq(Token)), NEW single, Parse(text, single).status # Reference
    PROVE  LET r == Parse(text, single)
               v == Verify(TextFile(text), single)
           IN  /\ r.status \in {Valid, Empty}
               /\ v.ok /\ r.rows = v.rows /\ r.segments = v.segments
               /\ r.duplicates = v.duplicates /\ v.missing = 0
               /\ r.status = Empty => v.empty = 1
               /\ r.status = Valid => v.empty = 0
<1> DEFINE r == Parse(text, single)
           v == Verify(TextFile(text), single)
<1>1. CASE text = <<>> /\ r = Record(Empty)
  <2>1. v = Verdict(TRUE, <<>>, <<>>, 0, 1, 0)
    BY <1>1, VerifyEmpty
  <2> QED BY <2>1, <1>1 DEF Record, Verdict, Empty, Valid
<1>2. CASE /\ text # <<>> /\ r.status = Valid
           /\ Acceptable(text, HasPolygons(text)) /\ AllInRange(text, single)
           /\ Chose(r.rows, r.segments, r.duplicates, text)
  <2>1. Readable(text, HasPolygons(text))
    BY <1>2, AcceptableIsReadable
  <2> HIDE DEF r, v
  <2>2. /\ v.ok /\ v = Verdict(TRUE, v.rows, v.segments, 0, 0, v.duplicates)
        /\ Chose(v.rows, v.segments, v.duplicates, text)
    BY <2>1, <1>2, VerifyIs DEF v
  <2>3. v.missing = 0 /\ v.empty = 0
    BY <2>2 DEF Verdict
  <2>4. r.rows = v.rows /\ r.segments = v.segments /\ r.duplicates = v.duplicates
    BY <2>2, <1>2, ChoseSame
  <2> QED BY <2>2, <2>3, <2>4, <1>2 DEF r, v, Empty, Valid
<1>3. CASE r = Record(Reference)
  BY <1>3 DEF Record
<1> QED BY <1>1, <1>2, <1>3, ParseIs

\* A text that only the reference accepts holds a token the two readers of
\* numbers take differently (number, ReferenceToken).
THEOREM UnclearTokens ==
    ASSUME NEW text \in Seq(Seq(Token)), NEW single, Parse(text, single).status = Reference,
           Verify(TextFile(text), single).ok
    PROVE  \E l \in DOMAIN text : \E k \in DOMAIN text[l] : text[l][k] \in {"inf", "-0"}
<1>1. text # <<>> /\ ~(Acceptable(text, HasPolygons(text)) /\ AllInRange(text, single))
  <2>1. Parse(text, single) # Record(Empty) /\ Parse(text, single).status # Valid
    BY DEF Record, Empty, Reference, Valid
  <2> QED BY <2>1, ParseIs
<1>2. Readable(text, HasPolygons(text)) /\ AllInRange(text, single)
  BY <1>1, VerifyIs
<1>3. PICK l \in DOMAIN text :
          ~(/\ IF HasPolygons(text) THEN Len(text[l]) >= 3 /\ Len(text[l]) % 2 = 1 /\ Len(text[l]) # 5
               ELSE Len(text[l]) = 5
            /\ \A k \in DOMAIN text[l] : NativeToken(text[l][k])
            /\ HasPolygons(text) => \A k \in 2..Len(text[l]) : text[l][k] # "-0")
  BY <1>1, <1>2 DEF Acceptable
<1>4. /\ IF HasPolygons(text) THEN Len(text[l]) >= 3 /\ Len(text[l]) % 2 = 1 /\ Len(text[l]) # 5
         ELSE Len(text[l]) = 5
      /\ \A k \in DOMAIN text[l] : ReferenceToken(text[l][k])
  BY <1>2 DEF Readable
<1>5. text[l] \in Seq(Token) /\ DOMAIN text[l] = 1..Len(text[l])
  OBVIOUS
<1>6. CASE \E k \in DOMAIN text[l] : ~NativeToken(text[l][k])
  BY <1>4, <1>6 DEF ReferenceToken
<1>7. CASE \E k \in 2..Len(text[l]) : text[l][k] = "-0"
  BY <1>5, <1>7
<1> QED BY <1>3, <1>4, <1>6, <1>7

-----------------------------------------------------------------------------
(* Totals *)

LEMMA SameTotal ==
    ASSUME NEW s PROVE Totals!FoldLeft(Plus, 0, s) = Total(s)
  BY DEF Totals!FoldLeft, Totals!MapThenFoldSet, Totals!Max, FoldLeft, MapThenFoldSet, Max, Total

LEMMA TotalEmpty == ASSUME NEW s, DOMAIN s = {} PROVE Total(s) = 0
BY Totals!FoldEmpty, SameTotal

LEMMA TotalStep ==
    ASSUME NEW n \in Nat, NEW s, DOMAIN s = 1..(n + 1)
    PROVE  Total(s) = Total([i \in 1..n |-> s[i]]) + s[n + 1]
<1>1. Totals!FoldLeft(Plus, 0, s) = Plus(Totals!FoldLeft(Plus, 0, [i \in 1..n |-> s[i]]), s[n + 1])
  BY Totals!FoldStep
<1> QED BY <1>1, SameTotal DEF Plus

LEMMA TotalType == ASSUME NEW n \in Nat, NEW s \in [1..n -> Nat] PROVE Total(s) \in Nat
<1> DEFINE T == {k \in Nat : \A t \in [1..k -> Nat] : Total(t) \in Nat}
<1>1. 0 \in T
  <2> SUFFICES ASSUME NEW t \in [1..0 -> Nat] PROVE Total(t) \in Nat
    OBVIOUS
  <2>1. DOMAIN t = {}
    OBVIOUS
  <2> QED BY <2>1, TotalEmpty
<1>2. ASSUME NEW k \in Nat, k \in T PROVE k + 1 \in T
  <2> SUFFICES ASSUME NEW t \in [1..(k + 1) -> Nat] PROVE Total(t) \in Nat
    OBVIOUS
  <2> DEFINE less == [i \in 1..k |-> t[i]]
  <2>1. less \in [1..k -> Nat] /\ t[k + 1] \in Nat /\ DOMAIN t = 1..(k + 1)
    OBVIOUS
  <2>2. Total(less) \in Nat
    BY <1>2, <2>1
  <2>3. Total(t) = Total(less) + t[k + 1]
    BY <2>1, TotalStep
  <2> HIDE DEF less
  <2> QED BY <2>1, <2>2, <2>3
<1>3. Nat \subseteq T
  <2> HIDE DEF T
  <2> QED BY <1>1, <1>2, Totals!Induct
<1> QED BY <1>3

\* Smaller summands, a smaller total.
LEMMA TotalMonotone ==
    ASSUME NEW n \in Nat, NEW s \in [1..n -> Nat], NEW r \in [1..n -> Nat],
           \A i \in 1..n : s[i] <= r[i]
    PROVE  Total(s) <= Total(r)
<1> DEFINE P(k) == \A t \in [1..k -> Nat] : \A u \in [1..k -> Nat] :
                       (\A i \in 1..k : t[i] <= u[i]) => Total(t) <= Total(u)
           T == {k \in Nat : P(k)}
<1>1. 0 \in T
  <2> SUFFICES ASSUME NEW t \in [1..0 -> Nat], NEW u \in [1..0 -> Nat] PROVE Total(t) <= Total(u)
    OBVIOUS
  <2>1. DOMAIN t = {} /\ DOMAIN u = {}
    OBVIOUS
  <2>2. Total(t) = 0 /\ Total(u) = 0
    BY <2>1, TotalEmpty
  <2> QED BY <2>2
<1>2. ASSUME NEW k \in Nat, k \in T PROVE k + 1 \in T
  <2> SUFFICES P(k + 1)
    <3> HIDE DEF P
    <3> QED OBVIOUS
  <2> TAKE t \in [1..(k + 1) -> Nat]
  <2> TAKE u \in [1..(k + 1) -> Nat]
  <2> HAVE \A i \in 1..(k + 1) : t[i] <= u[i]
  <2> DEFINE a == [i \in 1..k |-> t[i]]
             b == [i \in 1..k |-> u[i]]
  <2>1. /\ a \in [1..k -> Nat] /\ t[k + 1] \in Nat /\ DOMAIN t = 1..(k + 1)
        /\ b \in [1..k -> Nat] /\ u[k + 1] \in Nat /\ DOMAIN u = 1..(k + 1)
        /\ \A i \in 1..k : a[i] <= b[i]
        /\ t[k + 1] <= u[k + 1]
    <3>1. k + 1 \in 1..(k + 1) /\ \A i \in 1..k : i \in 1..(k + 1)
      OBVIOUS
    <3>2. \A i \in 1..k : a[i] = t[i] /\ b[i] = u[i]
      OBVIOUS
    <3>3. a \in [1..k -> Nat] /\ b \in [1..k -> Nat]
      BY <3>1
    <3> HIDE DEF a, b
    <3> QED BY <3>1, <3>2, <3>3
  <2>2. Total(a) <= Total(b)
    BY <1>2, <2>1
  <2>3. Total(t) = Total(a) + t[k + 1] /\ Total(u) = Total(b) + u[k + 1]
    BY <2>1, TotalStep
  <2>4. Total(a) \in Nat /\ Total(b) \in Nat
    BY <2>1, TotalType
  <2> HIDE DEF a, b
  <2> QED BY <2>1, <2>2, <2>3, <2>4
<1>3. Nat \subseteq T
  <2> HIDE DEF T
  <2> QED BY <1>1, <1>2, Totals!Induct
<1> QED BY <1>3

\* A summand in place of a zero adds itself.
LEMMA TotalUpdate ==
    ASSUME NEW n \in Nat, NEW s \in [1..n -> Nat], NEW r \in [1..n -> Nat], NEW p \in 1..n,
           s[p] = 0, \A i \in 1..n : i # p => s[i] = r[i]
    PROVE  Total(r) = Total(s) + r[p]
<1> DEFINE T == {k \in Nat : k >= p /\ k <= n =>
                     Total([i \in 1..k |-> r[i]]) = Total([i \in 1..k |-> s[i]]) + r[p]}
<1>1. 0 \in T
  OBVIOUS
<1>2. ASSUME NEW k \in Nat, k \in T PROVE k + 1 \in T
  <2> SUFFICES ASSUME k + 1 >= p, k + 1 <= n
               PROVE  Total([i \in 1..(k + 1) |-> r[i]]) = Total([i \in 1..(k + 1) |-> s[i]]) + r[p]
    OBVIOUS
  <2> DEFINE R(m) == [i \in 1..m |-> r[i]]
             S(m) == [i \in 1..m |-> s[i]]
  <2>1. Total(R(k + 1)) = Total(R(k)) + r[k + 1]
    <3>1. DOMAIN R(k + 1) = 1..(k + 1) /\ [i \in 1..k |-> R(k + 1)[i]] = R(k) /\ R(k + 1)[k + 1] = r[k + 1]
      OBVIOUS
    <3> HIDE DEF R
    <3> QED BY <3>1, TotalStep, ZenonT(30)
  <2>2. Total(S(k + 1)) = Total(S(k)) + s[k + 1]
    <3>1. DOMAIN S(k + 1) = 1..(k + 1) /\ [i \in 1..k |-> S(k + 1)[i]] = S(k) /\ S(k + 1)[k + 1] = s[k + 1]
      OBVIOUS
    <3> HIDE DEF S
    <3> QED BY <3>1, TotalStep, ZenonT(30)
  <2>3. Total(R(k)) \in Nat /\ Total(S(k)) \in Nat /\ r[k + 1] \in Nat /\ s[k + 1] \in Nat /\ r[p] \in Nat
    <3>1. R(k) \in [1..k -> Nat] /\ S(k) \in [1..k -> Nat] /\ k + 1 \in 1..n
      OBVIOUS
    <3> QED BY <3>1, TotalType
  <2>4. CASE k >= p
    <3>1. Total(R(k)) = Total(S(k)) + r[p]
      BY <1>2, <2>4
    <3>2. r[k + 1] = s[k + 1]
      BY <2>4
    <3> HIDE DEF R, S
    <3>3. Total(R(k + 1)) = Total(S(k + 1)) + r[p]
      BY <2>1, <2>2, <2>3, <3>1, <3>2
    <3> QED BY <3>3 DEF R, S
  <2>5. CASE k + 1 = p
    <3>1. R(k) = S(k) /\ s[k + 1] = 0 /\ r[k + 1] = r[p]
      BY <2>5
    <3> HIDE DEF R, S
    <3>2. Total(R(k + 1)) = Total(S(k + 1)) + r[p]
      BY <2>1, <2>2, <2>3, <3>1
    <3> QED BY <3>2 DEF R, S
  <2>6. k >= p \/ k + 1 = p
    OBVIOUS
  <2> QED BY <2>4, <2>5, <2>6
<1>3. Nat \subseteq T
  <2> HIDE DEF T
  <2> QED BY <1>1, <1>2, Totals!Induct
<1>4. Total([i \in 1..n |-> r[i]]) = Total([i \in 1..n |-> s[i]]) + r[p]
  BY <1>3
<1>5. [i \in 1..n |-> r[i]] = r /\ [i \in 1..n |-> s[i]] = s
  OBVIOUS
<1> QED BY <1>4, <1>5

-----------------------------------------------------------------------------
(* Types *)

File == {TextFile(t) : t \in Seq(Seq(Token))} \cup {Missing}
Fingerprint == {Nothing} \cup {Seen(f) : f \in File}
Capture == [record : RecordType, file : Fingerprint, data : Fingerprint]
Places == {"images", "capture", "invalid", "parse", "merge", "done", "failed"}

Types ==
    /\ config \in Scans /\ pc \in Places /\ writes \in Nat /\ faults \in Nat
    /\ image = [i \in Source |-> image[i]] /\ label \in [Source -> File]
    /\ start \in Nat /\ 1 <= start
    /\ start <= config.sources \/ (start = 1 /\ config.sources = 0)
    /\ todo \subseteq Chunk
    /\ shape = [i \in Source |-> shape[i]]
    /\ captured \in [Source -> Capture] /\ retained \in Nat
    /\ imageProof = [i \in Source |-> imageProof[i]]
    /\ labelProof \in [Source -> Fingerprint] /\ unavailable \in BOOLEAN
    /\ source \in Nat
    /\ pc = "merge" => start <= source /\ source <= Stop + 1

LEMMA ConfigIs ==
    ASSUME config \in Scans
    PROVE  /\ config.sources \in Nat /\ config.inFlight \in Nat \ {0} /\ config.single \in BOOLEAN
           /\ config.snapshot \in BOOLEAN /\ config.maxFile \in Nat /\ config.maxFallback \in Nat
           /\ Files \subseteq File
<1>1. config \in [dataset : DOMAIN ImagesOf \cap DOMAIN TextsOf, sources : Nat,
                  inFlight : Nat \ {0}, single : BOOLEAN, snapshot : BOOLEAN,
                  maxFile : Nat \ {0}, maxFallback : Nat \ {0},
                  maxWrites : Nat, maxFaults : Nat]
  BY ScanAssumption
<1>2. config.dataset \in DOMAIN TextsOf
  BY <1>1
<1>3. TextsOf[config.dataset] \subseteq Seq(Seq(Token))
  BY <1>2, ScanAssumption
<1>4. Files \subseteq File
  BY <1>3 DEF Files, File
<1> QED BY <1>1, <1>4

LEMMA StopIs ==
    ASSUME config \in Scans, start \in Nat, 1 <= start,
           start <= config.sources \/ (start = 1 /\ config.sources = 0)
    PROVE  /\ Stop \in Nat /\ Stop <= config.sources /\ start <= Stop + 1
           /\ Chunk \subseteq Source /\ Chunk \subseteq Nat
           /\ \A i : i \in Chunk <=> i \in Nat /\ start <= i /\ i <= Stop
BY ConfigIs DEF Stop, Chunk, Source

LEMMA ParseOfType ==
    ASSUME NEW file \in File
    PROVE  ParseOf(file) \in RecordType /\ Paired(ParseOf(file))
<1>1. CASE file = Missing
  <2>1. file.kind = "missing"
    BY <1>1 DEF Missing
  <2> QED BY <2>1, RecordIs DEF ParseOf
<1>2. CASE \E t \in Seq(Seq(Token)) : file = TextFile(t)
  <2>1. PICK t \in Seq(Seq(Token)) : file = TextFile(t)
    BY <1>2
  <2>2. file.kind # "missing" /\ file.text = t
    BY <2>1 DEF TextFile
  <2>3. ParseOf(file) = Parse(t, config.single)
    BY <2>2 DEF ParseOf
  <2> QED BY <2>3, ParseType
<1> QED BY <1>1, <1>2 DEF File

LEMMA SizeType == ASSUME NEW file \in File PROVE Size(file.text) \in Nat
<1>1. file.text \in Seq(Seq(Token))
  <2>1. CASE file = Missing
    BY <2>1 DEF Missing
  <2>2. CASE \E t \in Seq(Seq(Token)) : file = TextFile(t)
    BY <2>2 DEF TextFile
  <2> QED BY <2>1, <2>2 DEF File
<1> DEFINE t == file.text
           s == [l \in DOMAIN t |-> Len(t[l])]
<1>2. Len(t) \in Nat /\ DOMAIN t = 1..Len(t)
  BY <1>1
<1>3. \A l \in 1..Len(t) : Len(t[l]) \in Nat
  <2> SUFFICES ASSUME NEW l \in 1..Len(t) PROVE Len(t[l]) \in Nat
    OBVIOUS
  <2>1. t[l] \in Seq(Token)
    BY <1>1
  <2> QED BY <2>1
<1>4. s \in [1..Len(t) -> Nat]
  BY <1>2, <1>3
<1>5. Total(s) \in Nat
  <2> HIDE DEF s
  <2> QED BY <1>2, <1>4, TotalType
<1> QED BY <1>5 DEF Size

LEMMA SeenType ==
    /\ Nothing \in Fingerprint
    /\ \A f \in File : Seen(f) \in Fingerprint /\ Seen(f) # Nothing /\ Seen(f).of = f
    /\ \A p \in Fingerprint : p # Nothing => p.of \in File /\ p = Seen(p.of)
<1>1. \A f : Seen(f) # Nothing /\ Seen(f).of = f
  BY DEF Seen, Nothing
<1> QED BY <1>1 DEF Fingerprint

LEMMA UnreadType == Unread \in Capture
<1>1. Record(NoFile) \in RecordType
  BY RecordIs
<1> QED BY <1>1, SeenType DEF Unread, Capture

LEMMA CaptureIs ==
    ASSUME NEW c \in Capture
    PROVE  /\ c.record \in RecordType /\ c.file \in Fingerprint /\ c.data \in Fingerprint
           /\ c = [record |-> c.record, file |-> c.file, data |-> c.data]
BY DEF Capture

LEMMA InitTypes == ASSUME Init PROVE Types
<1>1. /\ config \in Scans /\ start = 1 /\ pc = "images" /\ todo = Chunk
      /\ image \in [Source -> ImagesOf[config.dataset]] /\ label \in [Source -> Files]
      /\ writes = 0 /\ faults = 0
      /\ shape = [i \in Source |-> NoShape] /\ captured = NoneRead /\ retained = 0
      /\ imageProof = [i \in Source |-> Nothing] /\ labelProof = [i \in Source |-> Nothing]
      /\ unavailable = FALSE /\ source = 1
  BY DEF Init
<1>2. config.sources \in Nat /\ Files \subseteq File
  BY <1>1, ConfigIs
<1>3. label \in [Source -> File]
  BY <1>1, <1>2
<1>4. captured \in [Source -> Capture]
  BY <1>1, UnreadType DEF NoneRead
<1>5. labelProof \in [Source -> Fingerprint]
  BY <1>1, SeenType
<1>6. start <= config.sources \/ (start = 1 /\ config.sources = 0)
  BY <1>1, <1>2
<1>7. /\ image = [i \in Source |-> image[i]] /\ shape = [i \in Source |-> shape[i]]
      /\ imageProof = [i \in Source |-> imageProof[i]]
  BY <1>1
<1>8. pc \in Places /\ pc # "merge"
  BY <1>1 DEF Places
<1>9. /\ writes \in Nat /\ faults \in Nat /\ start \in Nat /\ 1 <= start
      /\ todo \subseteq Chunk /\ retained \in Nat /\ source \in Nat
  BY <1>1, <1>2
<1>10. unavailable \in BOOLEAN
  BY <1>1
<1> QED BY <1>10, <1>1, <1>3, <1>4, <1>5, <1>6, <1>7, <1>8, <1>9 DEF Types

\* The parts of Types: the dataset, the place of the scan, what it has read.
DataTypes ==
    /\ config \in Scans /\ writes \in Nat /\ faults \in Nat
    /\ image = [i \in Source |-> image[i]] /\ label \in [Source -> File]

PlaceTypes ==
    /\ pc \in Places /\ start \in Nat /\ 1 <= start
    /\ start <= config.sources \/ (start = 1 /\ config.sources = 0)
    /\ todo \subseteq Chunk /\ source \in Nat
    /\ pc = "merge" => start <= source /\ source <= Stop + 1

ReadTypes ==
    /\ shape = [i \in Source |-> shape[i]]
    /\ captured \in [Source -> Capture] /\ retained \in Nat
    /\ imageProof = [i \in Source |-> imageProof[i]]
    /\ labelProof \in [Source -> Fingerprint] /\ unavailable \in BOOLEAN

LEMMA TypesParts == Types <=> DataTypes /\ PlaceTypes /\ ReadTypes
BY DEF Types, DataTypes, PlaceTypes, ReadTypes

LEMMA TypesNext == ASSUME DataTypes', PlaceTypes', ReadTypes' PROVE Types'
BY DEF Types, DataTypes, PlaceTypes, ReadTypes

LEMMA SameConfig ==
    ASSUME config' = config
    PROVE  /\ Source' = Source
           /\ start' = start => Stop' = Stop /\ Chunk' = Chunk
BY DEF Source, Stop, Chunk

LEMMA DataTypesKept ==
    ASSUME DataTypes, config' = config, image' = image, label' = label, writes' = writes,
           faults' \in Nat
    PROVE  DataTypes'
BY SameConfig DEF DataTypes

LEMMA ReadTypesKept ==
    ASSUME ReadTypes, config' = config, shape' = shape, captured' = captured, retained' = retained,
           imageProof' = imageProof, labelProof' = labelProof, unavailable' = unavailable
    PROVE  ReadTypes'
BY SameConfig DEF ReadTypes

LEMMA PlaceTypesKept ==
    ASSUME PlaceTypes, config' = config, start' = start, source' = source, todo' \subseteq todo,
           pc' \in Places, pc' = "merge" => pc = "merge"
    PROVE  PlaceTypes'
BY SameConfig DEF PlaceTypes

LEMMA Faults == ASSUME faults \in Nat, Fault \/ NoFault PROVE faults' \in Nat
BY DEF Fault, NoFault

LEMMA Troubles == ASSUME ReadTrouble PROVE Fault \/ NoFault
BY DEF ReadTrouble

\* A scan that raises keeps everything but its place.
LEMMA FailTypes ==
    ASSUME Types, Fail, Fault \/ NoFault, UNCHANGED <<dataset, config>>
    PROVE  Types'
<1>1. DataTypes'
  BY TypesParts, Faults, DataTypesKept DEF dataset, DataTypes
<1>2. PlaceTypes'
  BY TypesParts, PlaceTypesKept DEF Fail, Places, loop
<1>3. ReadTypes'
  BY TypesParts, ReadTypesKept DEF Fail, proofs
<1> QED BY <1>1, <1>2, <1>3, TypesNext

LEMMA VerifyImageTypes ==
    ASSUME Types, NEW i \in Source, VerifyImage(i) PROVE Types'
<1>1. CASE config.snapshot /\ ReadTrouble /\ Fail /\ UNCHANGED <<dataset, config>>
  BY <1>1, FailTypes, Troubles
<1>2. CASE /\ \/ ~config.snapshot /\ NoFault /\ UNCHANGED <<imageProof, unavailable>>
              \/ /\ config.snapshot /\ NoFault
                 /\ imageProof' = [imageProof EXCEPT ![i] = Seen(image[i])]
                 /\ UNCHANGED unavailable
              \/ /\ config.snapshot /\ ReadTrouble
                 /\ unavailable' = TRUE /\ UNCHANGED imageProof
           /\ shape' = [shape EXCEPT ![i] = ShapeFor(i)]
           /\ todo' = todo \ {i}
           /\ UNCHANGED <<pc, start, captured, retained, labelProof, packed, loop, merged>>
           /\ UNCHANGED <<dataset, config>>
  <2>1. DataTypes'
    BY <1>2, TypesParts, Faults, Troubles, DataTypesKept DEF dataset, DataTypes
  <2>2. PlaceTypes'
    BY <1>2, TypesParts, PlaceTypesKept DEF PlaceTypes, loop
  <2>3. Source' = Source
    BY <1>2, SameConfig
  <2>4. shape' = [j \in Source |-> shape'[j]]
    BY <1>2 DEF Types
  <2>5. imageProof' = [j \in Source |-> imageProof'[j]]
    BY <1>2 DEF Types
  <2>6. unavailable' \in BOOLEAN
    BY <1>2 DEF Types
  <2>7. captured' \in [Source -> Capture] /\ retained' \in Nat /\ labelProof' \in [Source -> Fingerprint]
    BY <1>2 DEF Types
  <2> QED BY <2>1, <2>2, <2>3, <2>4, <2>5, <2>6, <2>7, TypesNext DEF ReadTypes
<1> QED BY <1>1, <1>2 DEF VerifyImage

LEMMA BeginLabelsTypes ==
    ASSUME Types, BeginLabels PROVE Types'
<1>1. DataTypes'
  BY TypesParts, DataTypesKept DEF BeginLabels, dataset, DataTypes
<1>2. PlaceTypes'
  <2>1. /\ config' = config /\ start' = start /\ source' = source
        /\ pc' = IF config.snapshot THEN "capture" ELSE "parse"
        /\ todo' \subseteq Chunk
    BY DEF BeginLabels, loop, ValidIn
  <2> QED BY <2>1, TypesParts, SameConfig DEF PlaceTypes, Places
<1>3. ReadTypes'
  <2>1. /\ config' = config /\ captured' = NoneRead /\ retained' = 0 /\ shape' = shape
        /\ UNCHANGED <<imageProof, labelProof, unavailable>>
    BY DEF BeginLabels, proofs
  <2>2. captured' \in [Source -> Capture]
    BY <2>1, UnreadType DEF NoneRead
  <2> QED BY <2>1, <2>2, TypesParts, SameConfig DEF ReadTypes
<1> QED BY <1>1, <1>2, <1>3, TypesNext

LEMMA ParseInsteadTypes ==
    ASSUME Types, ParseInstead, Fault \/ NoFault, UNCHANGED <<dataset, config>>
    PROVE  Types'
<1>1. DataTypes'
  BY TypesParts, Faults, DataTypesKept DEF dataset, DataTypes
<1>2. PlaceTypes'
  <2>1. /\ config' = config /\ start' = start /\ source' = source /\ pc' = "parse"
        /\ todo' \subseteq Chunk
    BY DEF ParseInstead, loop, ValidIn
  <2> QED BY <2>1, TypesParts, SameConfig DEF PlaceTypes, Places
<1>3. ReadTypes'
  <2>1. /\ config' = config /\ captured' = NoneRead /\ retained' = 0 /\ shape' = shape
        /\ UNCHANGED <<imageProof, labelProof>>
    BY DEF ParseInstead
  <2>2. captured' \in [Source -> Capture]
    BY <2>1, UnreadType DEF NoneRead
  <2>3. unavailable' \in BOOLEAN
    BY DEF ParseInstead
  <2> QED BY <2>1, <2>2, <2>3, TypesParts, SameConfig DEF ReadTypes
<1> QED BY <1>1, <1>2, <1>3, TypesNext

\* What reading one label leaves in the record of it.
Read(f) ==
    [record |-> ParseOf(f), file |-> Seen(f),
     data |-> IF ParseOf(f).status = Reference THEN Seen(f) ELSE Nothing]

LEMMA ReadType == ASSUME NEW f \in File PROVE Read(f) \in Capture /\ BytesKept(f) \in Nat
<1>1. ParseOf(f) \in RecordType /\ Seen(f) \in Fingerprint /\ Nothing \in Fingerprint
  BY ParseOfType, SeenType
<1>2. Read(f) \in Capture
  BY <1>1 DEF Read, Capture
<1> QED BY <1>2, SizeType DEF BytesKept

\* The step of snapshot_labels that reads one label.
CaptureOne(i) ==
    /\ FitsBudget(label[i])
    /\ captured' = [captured EXCEPT ![i] = Read(label[i])]
    /\ retained' = retained + BytesKept(label[i])
    /\ todo' = todo \ {i} /\ NoFault
    /\ UNCHANGED <<pc, start, shape, proofs, packed, loop, merged>>
    /\ UNCHANGED <<dataset, config>>

LEMMA CaptureLabelIs ==
    ASSUME NEW i, CaptureLabel(i)
    PROVE  /\ pc = "capture" /\ i \in todo
           /\ \/ CaptureOne(i)
              \/ ParseInstead /\ (Fault \/ NoFault) /\ UNCHANGED <<dataset, config>>
              \/ Fail /\ (Fault \/ NoFault) /\ UNCHANGED <<dataset, config>>
BY Troubles DEF CaptureLabel, CaptureOne, Read

LEMMA CaptureLabelTypes == ASSUME Types, NEW i \in Source, CaptureLabel(i) PROVE Types'
<1>1. CASE CaptureOne(i)
  <2>1. DataTypes'
    BY <1>1, TypesParts, Faults, DataTypesKept DEF CaptureOne, dataset, DataTypes
  <2>2. PlaceTypes'
    BY <1>1, TypesParts, PlaceTypesKept DEF CaptureOne, PlaceTypes, loop
  <2>3. label[i] \in File
    BY DEF Types
  <2>4. captured' \in [Source -> Capture] /\ retained' \in Nat
    BY <1>1, <2>3, ReadType DEF CaptureOne, Types
  <2> QED BY <1>1, <2>1, <2>2, <2>4, TypesParts, TypesNext, SameConfig DEF CaptureOne, ReadTypes, proofs
<1> QED BY <1>1, CaptureLabelIs, ParseInsteadTypes, FailTypes

LEMMA CapturedAllTypes == ASSUME Types, CapturedAll PROVE Types'
<1>1. DataTypes'
  BY TypesParts, DataTypesKept DEF CapturedAll, dataset, DataTypes
<1>2. PlaceTypes'
  <2>1. /\ config' = config /\ start' = start /\ source' = source /\ pc' = "invalid"
        /\ todo' \subseteq Chunk
    BY DEF CapturedAll, loop
  <2> QED BY <2>1, TypesParts, SameConfig DEF PlaceTypes, Places
<1>3. ReadTypes'
  BY TypesParts, ReadTypesKept DEF CapturedAll, proofs
<1> QED BY <1>1, <1>2, <1>3, TypesNext

\* The two ways FingerprintInvalid goes on: one fingerprint more, or none of the
\* invalid images' labels keeps its own.
FingerprintOne(i) ==
    /\ captured' = [captured EXCEPT ![i].file = Seen(label[i])]
    /\ todo' = todo \ {i} /\ UNCHANGED unavailable

FingerprintNone ==
    /\ captured' = [j \in Source |-> IF j \in ValidIn(Chunk) THEN captured[j] ELSE Unread]
    /\ unavailable' = TRUE /\ todo' = {}

LEMMA FingerprintIs ==
    ASSUME NEW i, FingerprintInvalid(i)
    PROVE  /\ pc = "invalid" /\ i \in todo
           /\ \/ /\ FingerprintOne(i) \/ FingerprintNone
                 /\ Fault \/ NoFault
                 /\ UNCHANGED <<pc, start, shape, retained, imageProof, labelProof, packed, loop, merged>>
                 /\ UNCHANGED <<dataset, config>>
              \/ Fail /\ (Fault \/ NoFault) /\ UNCHANGED <<dataset, config>>
BY Troubles DEF FingerprintInvalid, FingerprintOne, FingerprintNone

LEMMA FingerprintInvalidTypes == ASSUME Types, NEW i \in Source, FingerprintInvalid(i) PROVE Types'
<1>1. CASE /\ FingerprintOne(i) \/ FingerprintNone
           /\ Fault \/ NoFault
           /\ UNCHANGED <<pc, start, shape, retained, imageProof, labelProof, packed, loop, merged>>
           /\ UNCHANGED <<dataset, config>>
  <2>1. DataTypes'
    BY <1>1, TypesParts, Faults, DataTypesKept DEF dataset, DataTypes
  <2>2. PlaceTypes'
    <3>1. todo' \subseteq todo
      BY <1>1 DEF FingerprintOne, FingerprintNone
    <3> QED BY <1>1, <3>1, TypesParts, PlaceTypesKept DEF PlaceTypes, loop
  <2>3. label[i] \in File
    BY DEF Types
  <2>4. CASE FingerprintOne(i)
    <3> DEFINE c == [captured[i] EXCEPT !.file = Seen(label[i])]
    <3>0. captured[i] \in Capture /\ captured \in [Source -> Capture]
      BY DEF Types
    <3>1. c \in Capture
      BY <2>3, <3>0, SeenType DEF Capture
    <3>2. captured' = [captured EXCEPT ![i] = c]
      BY <2>4 DEF FingerprintOne
    <3>3. captured' \in [Source -> Capture]
      <4> HIDE DEF c
      <4> QED BY <3>0, <3>1, <3>2
    <3>4. ReadTypes'
      BY <1>1, <2>4, <3>3, TypesParts, SameConfig DEF FingerprintOne, ReadTypes
    <3> QED BY <2>1, <2>2, <3>4, TypesNext
  <2>5. CASE FingerprintNone
    <3>1. captured' \in [Source -> Capture]
      BY <2>5, UnreadType DEF FingerprintNone, Types
    <3>2. unavailable' \in BOOLEAN
      BY <2>5 DEF FingerprintNone
    <3>3. ReadTypes'
      BY <1>1, <3>1, <3>2, TypesParts, SameConfig DEF ReadTypes
    <3> QED BY <2>1, <2>2, <3>3, TypesNext
  <2> QED BY <1>1, <2>4, <2>5
<1> QED BY <1>1, FingerprintIs, FailTypes

\* What parse_files can make of a label file: a limit, its record, a failure.
Parsed(f) == {Record(TooLarge), ParseOf(f), Record(Reference)}

LEMMA ParseFileIs ==
    ASSUME NEW i, ParseFile(i)
    PROVE  /\ pc = "parse" /\ i \in todo /\ todo' = todo \ {i} /\ (Fault \/ NoFault)
           /\ \E record \in Parsed(label[i]) :
                 /\ captured' = [captured EXCEPT ![i].record = record]
                 /\ record \in {Record(TooLarge), ParseOf(label[i])} \/ Fault
                       \/ ParseOf(label[i]).status = Reference
           /\ UNCHANGED <<dataset, config, pc, start, shape, retained, proofs, packed, loop, merged>>
BY DEF ParseFile, Parsed

LEMMA ParseFileTypes == ASSUME Types, NEW i \in Source, ParseFile(i) PROVE Types'
<1>1. DataTypes'
  BY ParseFileIs, TypesParts, Faults, DataTypesKept DEF dataset, DataTypes
<1>2. PlaceTypes'
  <2>1. todo' \subseteq todo
    BY ParseFileIs
  <2> QED BY ParseFileIs, <2>1, TypesParts, PlaceTypesKept DEF PlaceTypes, loop
<1>3. captured[i] \in Capture /\ captured \in [Source -> Capture] /\ label[i] \in File
  BY DEF Types
<1>4. PICK record \in Parsed(label[i]) : captured' = [captured EXCEPT ![i].record = record]
  BY ParseFileIs
<1>5. record \in RecordType
  BY <1>3, ParseOfType, RecordIs DEF Parsed
<1> DEFINE c == [captured[i] EXCEPT !.record = record]
<1>6. c \in Capture
  BY <1>3, <1>5 DEF Capture
<1>7. captured' = [captured EXCEPT ![i] = c]
  BY <1>4
<1>8. captured' \in [Source -> Capture]
  <2> HIDE DEF c
  <2> QED BY <1>3, <1>6, <1>7
<1>9. ReadTypes'
  BY ParseFileIs, <1>8, TypesParts, SameConfig DEF ReadTypes, proofs
<1> QED BY <1>1, <1>2, <1>9, TypesNext

LEMMA PackChunkTypes == ASSUME Types, PackChunk PROVE Types'
<1>1. DataTypes'
  BY TypesParts, DataTypesKept DEF PackChunk, dataset, DataTypes
<1>2. /\ config' = config /\ start' = start /\ todo' = todo /\ pc' = "merge" /\ source' = start
      /\ start <= Stop + 1
  BY StopIs DEF PackChunk, Types
<1>3. PlaceTypes'
  BY <1>2, TypesParts, SameConfig DEF PlaceTypes, Places
<1>4. \A i \in Source : LabelProof(i) \in Fingerprint /\ labelProof[i] \in Fingerprint
  BY CaptureIs DEF LabelProof, Types
<1>5. labelProof' \in [Source -> Fingerprint]
  BY <1>4, SeenType DEF PackChunk
<1>6. ReadTypes'
  BY <1>5, TypesParts, SameConfig DEF PackChunk, ReadTypes
<1> QED BY <1>1, <1>3, <1>6, TypesNext

\* A step of the merge goes on to the next source.
LEMMA AdvanceTypes ==
    ASSUME Types, pc = "merge", source <= Stop, Advance, Fault \/ NoFault
    PROVE  Types'
<1>1. DataTypes'
  BY TypesParts, Faults, DataTypesKept DEF Advance, dataset, DataTypes
<1>2. /\ config' = config /\ start' = start /\ todo' = todo /\ pc' = pc /\ source' = source + 1
      /\ Stop \in Nat
  BY StopIs DEF Advance, Types
<1>3. PlaceTypes'
  BY <1>2, TypesParts, SameConfig DEF PlaceTypes
<1>4. ReadTypes'
  BY TypesParts, ReadTypesKept DEF Advance, proofs
<1> QED BY <1>1, <1>3, <1>4, TypesNext

LEMMA NextChunkTypes == ASSUME Types, NextChunk PROVE Types'
<1>1. DataTypes'
  BY TypesParts, DataTypesKept DEF NextChunk, dataset, DataTypes
<1>2. ReadTypes'
  BY TypesParts, ReadTypesKept DEF NextChunk, proofs
<1>3. config' = config /\ source' = source
  BY DEF NextChunk, loop
<1>4. CASE pc' = "done" /\ UNCHANGED <<start, todo>>
  <2>1. PlaceTypes'
    BY <1>3, <1>4, TypesParts, PlaceTypesKept DEF Places
  <2> QED BY <1>1, <1>2, <2>1, TypesNext
<1>5. CASE /\ Stop # config.sources /\ pc' = "images" /\ start' = Stop + 1
           /\ todo' = {i \in Source : Stop < i /\ i <= Stop + config.inFlight}
  <2>1. /\ Stop \in Nat /\ Stop < config.sources /\ config.inFlight \in Nat \ {0}
        /\ config.sources \in Nat
    BY <1>5, StopIs, ConfigIs DEF Types
  <2>2. start' \in Nat /\ 1 <= start' /\ start' <= config'.sources
    BY <1>3, <1>5, <2>1
  <2>3. Stop' = IF Stop + 1 + config.inFlight > config.sources THEN config.sources
                ELSE Stop + 1 + config.inFlight - 1
    BY <1>3, <1>5 DEF Stop
  <2>4. todo' \subseteq Chunk'
    <3> SUFFICES ASSUME NEW j \in todo' PROVE j \in Chunk'
      OBVIOUS
    <3>1. j \in Nat /\ Stop < j /\ j <= Stop + config.inFlight /\ j <= config.sources
      BY <1>5, <2>1 DEF Source
    <3>2. j <= Stop'
      BY <3>1, <2>1, <2>3
    <3>3. Stop' \in Nat /\ start' <= j
      BY <3>1, <2>1, <2>3, <1>5
    <3> QED BY <3>1, <3>2, <3>3, <2>2 DEF Chunk
  <2>5. PlaceTypes'
    BY <1>3, <1>5, <2>2, <2>4, TypesParts DEF PlaceTypes, Places
  <2> QED BY <1>1, <1>2, <2>5, TypesNext
<1> QED BY <1>4, <1>5 DEF NextChunk

LEMMA ChangeTypes ==
    ASSUME Types, Change, image' = [i \in Source |-> image'[i]], label' \in [Source -> File]
    PROVE  Types'
<1>1. config' = config /\ writes' = writes + 1 /\ faults' = faults
  BY DEF Change
<1>2. DataTypes'
  BY <1>1, TypesParts, SameConfig DEF DataTypes
<1>3. PlaceTypes'
  BY TypesParts, PlaceTypesKept DEF Change, loop, PlaceTypes
<1>4. ReadTypes'
  BY TypesParts, ReadTypesKept DEF Change, proofs
<1> QED BY <1>2, <1>3, <1>4, TypesNext

LEMMA WriteTypes ==
    ASSUME Types, NEW i \in Source
    PROVE  /\ \A c : WriteImage(i, c) => Types'
           /\ \A f \in Files : WriteLabel(i, f) => Types'
<1>1. ASSUME NEW c, WriteImage(i, c) PROVE Types'
  <2>1. image' = [j \in Source |-> image'[j]] /\ label' \in [Source -> File]
    BY <1>1 DEF WriteImage, Types
  <2> QED BY <1>1, <2>1, ChangeTypes DEF WriteImage
<1>2. ASSUME NEW f \in Files, WriteLabel(i, f) PROVE Types'
  <2>1. f \in File
    BY ConfigIs DEF Types
  <2>2. image' = [j \in Source |-> image'[j]] /\ label' \in [Source -> File]
    BY <1>2, <2>1 DEF WriteLabel, Types
  <2> QED BY <1>2, <2>2, ChangeTypes DEF WriteLabel
<1> QED BY <1>1, <1>2

LEMMA StutterTypes == ASSUME Types, UNCHANGED vars PROVE Types'
<1>1. DataTypes' /\ PlaceTypes' /\ ReadTypes'
  BY TypesParts, DataTypesKept, PlaceTypesKept, ReadTypesKept
     DEF vars, dataset, proofs, loop, DataTypes, PlaceTypes
<1> QED BY <1>1, TypesNext

LEMMA StepTypes == ASSUME Types, [Next]_vars PROVE Types'
<1>1. CASE SkipInvalid \/ MergeNative
  BY <1>1, AdvanceTypes DEF SkipInvalid, MergeNative, ToMerge
<1>2. CASE MergeReference
  <2>1. Fault \/ NoFault
    BY <1>2 DEF MergeReference
  <2> QED BY <1>2, <2>1, AdvanceTypes DEF MergeReference, ToMerge
<1>3. CASE MergeTooLarge
  BY <1>3, FailTypes DEF MergeTooLarge
<1> QED BY <1>1, <1>2, <1>3, BeginLabelsTypes, CapturedAllTypes, PackChunkTypes, NextChunkTypes,
           VerifyImageTypes, CaptureLabelTypes, FingerprintInvalidTypes, ParseFileTypes, WriteTypes,
           StutterTypes DEF Next

\* Every variable has its type, whatever the datasets, the limits and the order
\* in which the pools take the images and the labels.
THEOREM ScanTypes == Spec => []Types
BY InitTypes, StepTypes, PTL DEF Spec

-----------------------------------------------------------------------------
(* The bytes kept for the reference *)

Held(c) == IF c.data = Nothing THEN 0 ELSE Size(c.data.of.text)
HeldBy(c) == [i \in Source |-> Held(c[i])]

\* While labels are captured, retained is what has been kept; what is still to be
\* read holds nothing, and no label that is only fingerprinted ever does.
BudgetInv ==
    /\ Total(HeldBy(captured)) <= config.maxFallback
    /\ pc = "capture" => /\ retained = Total(HeldBy(captured))
                         /\ \A i \in todo : captured[i].data = Nothing

LEMMA HeldType ==
    ASSUME config \in Scans, NEW c \in [Source -> Capture]
    PROVE  /\ HeldBy(c) \in [1..config.sources -> Nat] /\ Total(HeldBy(c)) \in Nat
           /\ \A i \in Source : HeldBy(c)[i] = Held(c[i])
<1>1. \A i \in Source : Held(c[i]) \in Nat
  <2> SUFFICES ASSUME NEW i \in Source PROVE Held(c[i]) \in Nat
    OBVIOUS
  <2>1. c[i].data \in Fingerprint
    BY CaptureIs
  <2>2. CASE c[i].data # Nothing
    <3>1. c[i].data.of \in File
      BY <2>1, <2>2, SeenType
    <3> QED BY <2>2, <3>1, SizeType DEF Held
  <2> QED BY <2>2 DEF Held
<1>2. HeldBy(c) \in [1..config.sources -> Nat]
  BY <1>1 DEF HeldBy, Source
<1> QED BY <1>2, TotalType, ConfigIs DEF HeldBy

LEMMA NothingHeld ==
    ASSUME config \in Scans
    PROVE  NoneRead \in [Source -> Capture] /\ Total(HeldBy(NoneRead)) = 0
<1>1. NoneRead \in [Source -> Capture] /\ \A i \in Source : Held(NoneRead[i]) = 0
  BY UnreadType DEF NoneRead, Held, Unread
<1> DEFINE T == {k \in Nat : Total([i \in 1..k |-> 0]) = 0}
<1>2. 0 \in T
  BY TotalEmpty
<1>3. ASSUME NEW k \in Nat, k \in T PROVE k + 1 \in T
  <2> DEFINE z == [i \in 1..(k + 1) |-> 0]
  <2>1. DOMAIN z = 1..(k + 1) /\ [i \in 1..k |-> z[i]] = [i \in 1..k |-> 0] /\ z[k + 1] = 0
    OBVIOUS
  <2>2. Total([i \in 1..k |-> 0]) = 0
    BY <1>3
  <2> HIDE DEF z
  <2>3. Total(z) = Total([i \in 1..k |-> 0]) + 0
    BY <2>1, TotalStep
  <2>4. Total(z) = 0
    BY <2>2, <2>3
  <2> QED BY <2>4 DEF z
<1>4. Nat \subseteq T
  <2> HIDE DEF T
  <2> QED BY <1>2, <1>3, Totals!Induct
<1>5. Total([i \in 1..config.sources |-> 0]) = 0
  BY <1>4, ConfigIs
<1>6. HeldBy(NoneRead) = [i \in 1..config.sources |-> 0]
  BY <1>1 DEF HeldBy, Source
<1> QED BY <1>1, <1>5, <1>6

\* A step that holds no more than before, outside the capture of labels.
LEMMA BudgetKept ==
    ASSUME Types, BudgetInv, config' = config, captured' \in [Source -> Capture],
           \A i \in Source : captured'[i].data \in {captured[i].data, Nothing},
           pc' # "capture"
    PROVE  BudgetInv'
<1> DEFINE n == config.sources
           s == HeldBy(captured')
           t == HeldBy(captured)
<1>1. /\ s \in [1..n -> Nat] /\ t \in [1..n -> Nat] /\ Total(s) \in Nat /\ Total(t) \in Nat
      /\ n \in Nat /\ config.maxFallback \in Nat
  BY HeldType, ConfigIs DEF Types
<1>2. \A i \in 1..n : s[i] <= t[i]
  <2> SUFFICES ASSUME NEW i \in Source PROVE s[i] <= t[i]
    BY DEF Source
  <2>1. s[i] = Held(captured'[i]) /\ t[i] = Held(captured[i])
    BY DEF HeldBy
  <2>2. s[i] \in Nat /\ t[i] \in Nat
    BY <1>1 DEF Source
  <2> HIDE DEF s, t
  <2>3. s[i] = t[i] \/ s[i] = 0
    BY <2>1 DEF Held
  <2> QED BY <2>2, <2>3
<1>3. Total(s) <= Total(t)
  <2> HIDE DEF s, t, n
  <2> QED BY <1>1, <1>2, TotalMonotone
<1>4. Total(s) <= config.maxFallback
  <2>1. Total(t) <= config.maxFallback
    BY DEF BudgetInv
  <2> HIDE DEF s, t
  <2> QED BY <1>1, <1>3, <2>1
<1>5. HeldBy(captured)' = s
  BY SameConfig DEF HeldBy
<1> QED BY <1>4, <1>5 DEF BudgetInv

LEMMA BudgetSame ==
    ASSUME Types, BudgetInv, config' = config, captured' = captured, pc' # "capture"
    PROVE  BudgetInv'
BY BudgetKept DEF Types

\* The label that snapshot_labels has just read fits.
LEMMA BudgetCapture ==
    ASSUME Types, BudgetInv, NEW i \in Source, i \in todo, pc = "capture", CaptureOne(i)
    PROVE  BudgetInv'
<1> DEFINE n == config.sources
           s == HeldBy(captured)
           r == HeldBy(captured')
           b == BytesKept(label[i])
<1>1. /\ label[i] \in File /\ Read(label[i]) \in Capture /\ b \in Nat
      /\ captured \in [Source -> Capture]
  BY ReadType DEF Types
<1>2. /\ config' = config /\ captured' = [captured EXCEPT ![i] = Read(label[i])]
      /\ retained' = retained + b /\ todo' = todo \ {i} /\ pc' = pc
      /\ retained + b <= config.maxFallback
  BY DEF CaptureOne, FitsBudget, dataset
<1>3. captured' \in [Source -> Capture]
  BY <1>1, <1>2
<1>4. /\ s \in [1..n -> Nat] /\ r \in [1..n -> Nat] /\ n \in Nat
  BY <1>1, <1>3, HeldType, ConfigIs DEF Types
<1>5. captured[i].data = Nothing /\ retained = Total(s)
  BY DEF BudgetInv
<1>6. s[i] = 0 /\ r[i] = b
  <2>1. s[i] = Held(captured[i]) /\ r[i] = Held(Read(label[i]))
    BY <1>1, <1>2 DEF HeldBy
  <2>2. Held(Read(label[i])) = b
    BY <1>1, SeenType DEF Held, Read, BytesKept
  <2> QED BY <1>5, <2>1, <2>2 DEF Held
<1>7. \A j \in 1..n : j # i => s[j] = r[j]
  BY <1>1, <1>2 DEF HeldBy, Source
<1>8. Total(r) = Total(s) + b
  <2>1. i \in 1..n
    BY DEF Source
  <2> HIDE DEF s, r, n, b
  <2>2. Total(r) = Total(s) + r[i]
    BY <1>4, <1>6, <1>7, <2>1, TotalUpdate
  <2> QED BY <2>2, <1>6
<1>9. HeldBy(captured)' = r
  BY <1>2, SameConfig DEF HeldBy
<1>10. \A j \in todo' : captured'[j].data = Nothing
  <2>1. todo \subseteq Source
    BY StopIs DEF Types
  <2> QED BY <1>1, <1>2, <2>1 DEF BudgetInv
<1> HIDE DEF s, r, b
<1>11. Total(r) <= config'.maxFallback /\ retained' = Total(r)
  BY <1>2, <1>5, <1>8
<1> QED BY <1>9, <1>10, <1>11 DEF BudgetInv

\* The labels of a chunk are about to be read: nothing is held.
LEMMA BudgetFresh ==
    ASSUME Types, config' = config, captured' = NoneRead, retained' = 0, todo' \subseteq Source
    PROVE  BudgetInv'
<1>1. HeldBy(captured)' = HeldBy(NoneRead)
  BY SameConfig DEF HeldBy
<1>2. Total(HeldBy(NoneRead)) = 0 /\ config.maxFallback \in Nat
  BY NothingHeld, ConfigIs DEF Types
<1>3. \A i \in todo' : captured'[i].data = Nothing
  BY DEF NoneRead, Unread
<1> QED BY <1>1, <1>2, <1>3 DEF BudgetInv

LEMMA BudgetStep == ASSUME Types, BudgetInv, [Next]_vars PROVE BudgetInv'
<1>0. Types'
  BY StepTypes
<1>1. captured' \in [Source -> Capture] /\ config' = config
  <2>1. config' = config
    BY DEF Next, vars, BeginLabels, CapturedAll, PackChunk, SkipInvalid, MergeNative, MergeReference,
           MergeTooLarge, NextChunk, VerifyImage, CaptureLabel, FingerprintInvalid, ParseFile,
           WriteImage, WriteLabel, Change, Advance
  <2> QED BY <1>0, <2>1, SameConfig DEF Types
<1>2. ASSUME Fail PROVE BudgetInv'
  BY <1>1, <1>2, BudgetSame DEF Fail
<1>3. ASSUME ParseInstead PROVE BudgetInv'
  <2>1. todo' \subseteq Source
    BY <1>3, StopIs DEF ParseInstead, ValidIn, Types
  <2> QED BY <1>1, <1>3, <2>1, BudgetFresh DEF ParseInstead
<1>4. CASE BeginLabels
  <2>1. todo' \subseteq Source
    BY <1>4, StopIs DEF BeginLabels, ValidIn, Types
  <2> QED BY <1>1, <1>4, <2>1, BudgetFresh DEF BeginLabels
<1>5. ASSUME NEW i \in Source, VerifyImage(i) PROVE BudgetInv'
  <2>1. CASE Fail
    BY <2>1, <1>2
  <2>2. CASE pc' = pc /\ captured' = captured
    BY <2>2, <1>1, <1>5, BudgetSame DEF VerifyImage
  <2> QED BY <1>5, <2>1, <2>2 DEF VerifyImage
<1>6. ASSUME NEW i \in Source, CaptureLabel(i) PROVE BudgetInv'
  <2>1. pc = "capture" /\ i \in todo /\ (CaptureOne(i) \/ ParseInstead \/ Fail)
    BY <1>6, CaptureLabelIs
  <2> QED BY <2>1, <1>2, <1>3, BudgetCapture
<1>7. ASSUME NEW i \in Source, FingerprintInvalid(i) PROVE BudgetInv'
  <2>1. \/ pc' = "invalid" /\ (FingerprintOne(i) \/ FingerprintNone)
        \/ Fail
    BY <1>7, FingerprintIs
  <2>2. CASE pc' = "invalid" /\ FingerprintOne(i)
    <3>1. \A j \in Source : captured'[j].data = captured[j].data
      BY <2>2 DEF FingerprintOne, Types, Capture
    <3> QED BY <2>2, <3>1, <1>1, BudgetKept
  <2>3. CASE pc' = "invalid" /\ FingerprintNone
    <3>1. \A j \in Source : captured'[j].data \in {captured[j].data, Nothing}
      BY <2>3 DEF FingerprintNone, Unread
    <3> QED BY <2>3, <3>1, <1>1, BudgetKept
  <2> QED BY <2>1, <2>2, <2>3, <1>2
<1>8. ASSUME NEW i \in Source, ParseFile(i) PROVE BudgetInv'
  <2>1. pc' = "parse" /\ \E record : captured' = [captured EXCEPT ![i].record = record]
    BY <1>8, ParseFileIs
  <2>2. \A j \in Source : captured'[j].data = captured[j].data
    BY <2>1 DEF Types, Capture
  <2> QED BY <2>1, <2>2, <1>1, BudgetKept
<1>9. CASE CapturedAll \/ PackChunk \/ SkipInvalid \/ MergeNative \/ MergeReference \/ NextChunk
  BY <1>1, <1>9, BudgetSame
     DEF CapturedAll, PackChunk, SkipInvalid, MergeNative, MergeReference, NextChunk, ToMerge, Advance
<1>10. CASE MergeTooLarge
  BY <1>2, <1>10 DEF MergeTooLarge
<1>11. ASSUME Change \/ UNCHANGED vars PROVE BudgetInv'
  <2>1. /\ pc' = pc /\ captured' = captured /\ retained' = retained /\ todo' = todo
        /\ HeldBy(captured)' = HeldBy(captured)
    BY <1>1, <1>11, SameConfig DEF Change, vars, HeldBy
  <2> QED BY <1>1, <2>1 DEF BudgetInv
<1>12. CASE UNCHANGED vars \/ \E i \in Source : \/ \E c \in ImagesOf[config.dataset] : WriteImage(i, c)
                                                \/ \E f \in Files : WriteLabel(i, f)
  BY <1>11, <1>12 DEF WriteImage, WriteLabel
<1> QED BY <1>4, <1>5, <1>6, <1>7, <1>8, <1>9, <1>10, <1>12 DEF Next

\* The label bytes that a chunk keeps for the reference stay within
\* max_fallback_bytes, whatever the limits and the order in which the pool reads
\* the labels (snapshot_labels).
THEOREM FallbackBounded == Spec => []FallbackWithinLimit
<1>1. Init => BudgetInv
  <2> SUFFICES ASSUME Init PROVE BudgetInv
    OBVIOUS
  <2>1. Total(HeldBy(captured)) = 0 /\ config.maxFallback \in Nat /\ pc = "images"
    BY NothingHeld, ConfigIs DEF Init
  <2> QED BY <2>1 DEF BudgetInv
<1>2. BudgetInv => FallbackWithinLimit
  BY DEF BudgetInv, FallbackWithinLimit, HeldBy, Held
<1>3. Types /\ BudgetInv /\ [Next]_vars => Types' /\ BudgetInv'
  BY StepTypes, BudgetStep
<1> QED BY <1>1, <1>2, <1>3, InitTypes, PTL DEF Spec

-----------------------------------------------------------------------------
(* Steady files *)

\* The image, and the label, of a source of this chunk has been read.
Verified(i) ==
    \/ pc = "images" /\ i \notin todo
    \/ pc \in {"capture", "invalid", "parse", "merge"}

Done(i) ==
    \/ pc \in {"capture", "parse"} /\ i \notin todo
    \/ pc \in {"invalid", "merge"}

\* While nothing changes and no call fails, a shape is that of the image, a record
\* that of the label file, and bytes kept for the reference are the file's.
SteadyInv ==
    writes = 0 /\ faults = 0 =>
        \A i \in Chunk :
            /\ Verified(i) => shape[i] = ShapeFor(i)
            /\ shape[i] # NoShape /\ Done(i) =>
                  /\ captured[i].record \in {ParseOf(label[i]), Record(TooLarge)}
                  /\ captured[i].data \in {Nothing, Seen(label[i])}

\* What parse_files reads is not kept.
NothingKept == pc = "parse" => \A i \in Source : captured[i].data = Nothing

LEMMA NothingKeptStep == ASSUME Types, NothingKept, [Next]_vars PROVE NothingKept'
<1>1. CASE UNCHANGED vars
  BY <1>1, SameConfig DEF NothingKept, vars
<1>2. ASSUME ParseInstead \/ BeginLabels, config' = config PROVE NothingKept'
  BY <1>2, SameConfig DEF ParseInstead, BeginLabels, NothingKept, NoneRead, Unread
<1>3. ASSUME pc' # "parse" PROVE NothingKept'
  BY <1>3 DEF NothingKept
<1>4. ASSUME pc' = pc, config' = config, captured' = captured PROVE NothingKept'
  BY <1>4, SameConfig DEF NothingKept
<1>5. ASSUME NEW i \in Source, VerifyImage(i) PROVE NothingKept'
  BY <1>3, <1>5 DEF VerifyImage, Fail
<1>6. ASSUME NEW i \in Source, CaptureLabel(i) PROVE NothingKept'
  <2>1. config' = config
    BY <1>6 DEF CaptureLabel
  <2> QED BY <1>2, <1>3, <1>6, <2>1, CaptureLabelIs DEF CaptureOne, Fail
<1>7. ASSUME NEW i \in Source, FingerprintInvalid(i) PROVE NothingKept'
  BY <1>3, <1>7, FingerprintIs DEF Fail
<1>8. ASSUME NEW i \in Source, ParseFile(i) PROVE NothingKept'
  <2>1. pc = "parse" /\ config' = config /\ \E record : captured' = [captured EXCEPT ![i].record = record]
    BY <1>8, ParseFileIs
  <2> QED BY <2>1, SameConfig DEF NothingKept, Types, Capture
<1>9. CASE CapturedAll \/ PackChunk \/ MergeTooLarge \/ NextChunk
  BY <1>3, <1>9 DEF CapturedAll, PackChunk, MergeTooLarge, NextChunk, Fail
<1>10. CASE SkipInvalid \/ MergeNative \/ MergeReference
  BY <1>3, <1>10 DEF SkipInvalid, MergeNative, MergeReference, ToMerge, Advance
<1>11. CASE BeginLabels
  <2>1. config' = config
    BY <1>11 DEF BeginLabels
  <2> QED BY <1>2, <1>11, <2>1
<1>12. \A i \in Source : \A x : WriteImage(i, x) \/ WriteLabel(i, x) => NothingKept'
  BY <1>4 DEF WriteImage, WriteLabel, Change
<1> QED BY <1>1, <1>5, <1>6, <1>7, <1>8, <1>9, <1>10, <1>11, <1>12 DEF Next

LEMMA ReferenceRecord ==
    ASSUME NEW f \in File, ParseOf(f).status = Reference PROVE ParseOf(f) = Record(Reference)
<1>1. CASE f = Missing
  BY <1>1 DEF ParseOf, Missing, Record, NoFile, Reference
<1>2. CASE \E t \in Seq(Seq(Token)) : f = TextFile(t)
  <2>1. PICK t \in Seq(Seq(Token)) : f = TextFile(t)
    BY <1>2
  <2>2. ParseOf(f) = Parse(t, config.single)
    BY <2>1 DEF ParseOf, TextFile
  <2>3. Parse(t, config.single) # Record(Empty) /\ Parse(t, config.single).status # Valid
    BY <2>2 DEF Record, Empty, Reference, Valid
  <2> QED BY <2>2, <2>3, ParseIs
<1> QED BY <1>1, <1>2 DEF File

\* A step after which still nothing has changed changes nothing.
LEMMA StillSteady ==
    ASSUME Types, Next, writes' = 0, faults' = 0
    PROVE  /\ writes = 0 /\ faults = 0 /\ image' = image /\ label' = label /\ config' = config
           /\ ~Fault /\ ~ReadTrouble /\ ~Change
<1>1. writes \in Nat /\ faults \in Nat /\ ~Fault /\ ~Change
  BY DEF Types, Fault, Change
<1>2. /\ config' = config /\ (Change \/ (image' = image /\ label' = label /\ writes' = writes))
      /\ Change \/ faults' = faults \/ Fault
  BY DEF Next, BeginLabels, CapturedAll, PackChunk, SkipInvalid, MergeNative, MergeReference,
         MergeTooLarge, NextChunk, VerifyImage, CaptureLabel, FingerprintInvalid, ParseFile,
         WriteImage, WriteLabel, Change, Advance, dataset, ReadTrouble, NoFault
<1> QED BY <1>1, <1>2 DEF ReadTrouble

\* A step within a chunk keeps the invariant when what it reads is read well and
\* what has been read stays.
LEMMA SteadyFrame ==
    ASSUME Types, SteadyInv, writes = 0, faults = 0, image' = image, label' = label,
           config' = config, start' = start,
           \A i \in Chunk : Verified(i)' =>
               \/ shape'[i] = ShapeFor(i)
               \/ Verified(i) /\ shape'[i] = shape[i],
           \A i \in Chunk : shape'[i] # NoShape /\ Done(i)' =>
               \/ /\ captured'[i].record \in {ParseOf(label[i]), Record(TooLarge)}
                  /\ captured'[i].data \in {Nothing, Seen(label[i])}
               \/ /\ shape[i] # NoShape /\ Done(i)
                  /\ captured'[i].record = captured[i].record
                  /\ captured'[i].data = captured[i].data
    PROVE  SteadyInv'
<1>1. Chunk' = Chunk
  BY SameConfig
<1>2. \A i : ShapeFor(i)' = ShapeFor(i) /\ ParseOf(label[i])' = ParseOf(label[i])
  BY DEF ShapeFor, ParseOf
<1>3. ASSUME NEW i \in Chunk, Verified(i)' PROVE shape'[i] = ShapeFor(i)
  BY <1>3 DEF SteadyInv
<1>4. ASSUME NEW i \in Chunk, shape'[i] # NoShape, Done(i)'
      PROVE  /\ captured'[i].record \in {ParseOf(label[i]), Record(TooLarge)}
             /\ captured'[i].data \in {Nothing, Seen(label[i])}
  BY <1>4 DEF SteadyInv
<1> QED BY <1>1, <1>2, <1>3, <1>4 DEF SteadyInv

\* The first source of the next chunk, none of which has been read.
LEMMA NextChunkIs ==
    ASSUME Types, NextChunk
    PROVE  /\ pc = "merge" /\ source > Stop /\ config' = config
           /\ \/ pc' = "done" /\ Stop = config.sources /\ UNCHANGED <<start, todo>>
              \/ pc' = "images" /\ start' = Stop + 1 /\ todo' = Chunk' /\ Stop < config.sources
           /\ UNCHANGED <<dataset, faults, shape, captured, retained, proofs, packed, loop, merged>>
<1>1. config' = config /\ Stop \in Nat /\ Stop <= config.sources /\ config.sources \in Nat
      /\ config.inFlight \in Nat \ {0}
  BY StopIs, ConfigIs DEF NextChunk, Types
<1>2. CASE /\ Stop # config.sources /\ pc' = "images" /\ start' = Stop + 1
           /\ todo' = {i \in Source : Stop < i /\ i <= Stop + config.inFlight}
  <2>1. Stop' = IF Stop + 1 + config.inFlight > config.sources THEN config.sources
                ELSE Stop + 1 + config.inFlight - 1
    BY <1>1, <1>2 DEF Stop
  <2>2. \A i \in Nat : Stop + 1 <= i /\ i <= Stop' <=>
                           1 <= i /\ i <= config.sources /\ Stop < i /\ i <= Stop + config.inFlight
    BY <1>1, <1>2, <2>1
  <2>3. Chunk' = (Stop + 1)..Stop' /\ Stop' \in Nat
    BY <1>1, <1>2, <2>1 DEF Chunk
  <2>4. \A i : i \in Chunk' <=> i \in Nat /\ Stop + 1 <= i /\ i <= Stop'
    BY <1>1, <2>3
  <2>5. \A i : i \in todo' <=> i \in Nat /\ 1 <= i /\ i <= config.sources /\ Stop < i
                                         /\ i <= Stop + config.inFlight
    BY <1>1, <1>2 DEF Source
  <2>6. todo' = Chunk'
    BY <2>2, <2>4, <2>5
  <2> QED BY <1>1, <1>2, <2>6 DEF NextChunk
<1> QED BY <1>1, <1>2 DEF NextChunk

LEMMA SteadyStep == ASSUME Types, NothingKept, SteadyInv, [Next]_vars PROVE SteadyInv'
<1>1. CASE UNCHANGED vars
  <2>1. /\ Chunk' = Chunk
        /\ \A i : ShapeFor(i)' = ShapeFor(i) /\ ParseOf(label[i])' = ParseOf(label[i])
    BY <1>1, SameConfig DEF vars, dataset, ShapeFor, ParseOf
  <2> QED BY <1>1, <2>1 DEF SteadyInv, Done, Verified, vars, dataset
<1>2. SUFFICES ASSUME Next, writes' = 0, faults' = 0 PROVE SteadyInv'
  BY <1>1 DEF SteadyInv
<1>3. /\ writes = 0 /\ faults = 0 /\ image' = image /\ label' = label /\ config' = config
      /\ ~Fault /\ ~ReadTrouble /\ ~Change
  BY <1>2, StillSteady
<1>4. todo \subseteq Chunk /\ Chunk \subseteq Source /\ captured \in [Source -> Capture]
      /\ shape = [i \in Source |-> shape[i]]
  BY StopIs DEF Types
<1>5. CASE Fail
  BY <1>3, <1>5, SteadyFrame DEF Fail, Done, Verified
<1>6. CASE ParseInstead /\ pc = "capture"
  <2>1. \A i \in Chunk : Done(i)' => shape[i] = NoShape
    BY <1>6 DEF ParseInstead, Done, ValidIn
  <2> QED BY <1>3, <1>6, <2>1, SteadyFrame DEF ParseInstead, Verified
<1>7. CASE BeginLabels
  <2>1. \A i \in Chunk : Done(i)' => shape[i] = NoShape
    BY <1>7 DEF BeginLabels, Done, ValidIn
  <2>2. \A i \in Chunk : Verified(i)
    BY <1>7 DEF BeginLabels, Verified
  <2> QED BY <1>3, <1>7, <2>1, <2>2, SteadyFrame DEF BeginLabels
<1>8. ASSUME NEW i \in Source, VerifyImage(i) PROVE SteadyInv'
  <2>1. /\ pc = "images" /\ pc' = "images" /\ start' = start
        /\ shape' = [shape EXCEPT ![i] = ShapeFor(i)] /\ todo' = todo \ {i}
    BY <1>3, <1>8 DEF VerifyImage
  <2>2. \A j \in Chunk : ~Done(j)'
    BY <2>1 DEF Done
  <2>3. \A j \in Chunk : Verified(j)' => shape'[j] = ShapeFor(j) \/ (Verified(j) /\ shape'[j] = shape[j])
    BY <2>1, <1>4 DEF Verified
  <2> QED BY <1>3, <2>1, <2>2, <2>3, SteadyFrame
<1>9. ASSUME NEW i \in Source, CaptureLabel(i) PROVE SteadyInv'
  <2>1. CASE CaptureOne(i) /\ pc = "capture"
    <3>1. /\ pc' = "capture" /\ start' = start /\ shape' = shape /\ todo' = todo \ {i}
          /\ captured' = [captured EXCEPT ![i] = Read(label[i])]
      BY <2>1 DEF CaptureOne
    <3>2. \A j \in Chunk : j # i => captured'[j] = captured[j]
      BY <3>1, <1>4
    <3>3. captured'[i].record = ParseOf(label[i]) /\ captured'[i].data \in {Nothing, Seen(label[i])}
      BY <3>1, <1>4 DEF Read
    <3>4. \A j \in Chunk : Verified(j)' => Verified(j) /\ shape'[j] = shape[j]
      BY <2>1, <3>1 DEF Verified
    <3>5. \A j \in Chunk : shape'[j] # NoShape /\ Done(j)' =>
             \/ /\ captured'[j].record \in {ParseOf(label[j]), Record(TooLarge)}
                /\ captured'[j].data \in {Nothing, Seen(label[j])}
             \/ /\ shape[j] # NoShape /\ Done(j)
                /\ captured'[j].record = captured[j].record
                /\ captured'[j].data = captured[j].data
      <4> SUFFICES ASSUME NEW j \in Chunk, shape'[j] # NoShape, Done(j)', j # i
                   PROVE  /\ shape[j] # NoShape /\ Done(j)
                          /\ captured'[j].record = captured[j].record
                          /\ captured'[j].data = captured[j].data
        BY <3>3
      <4>1. Done(j)
        BY <2>1, <3>1 DEF Done
      <4> QED BY <3>1, <3>2, <4>1
    <3> QED BY <1>3, <3>1, <3>4, <3>5, SteadyFrame
  <2> QED BY <1>5, <1>6, <1>9, <2>1, CaptureLabelIs
<1>10. CASE CapturedAll
  BY <1>3, <1>10, SteadyFrame DEF CapturedAll, Done, Verified
<1>11. ASSUME NEW i \in Source, FingerprintInvalid(i) PROVE SteadyInv'
  <2>1. CASE /\ FingerprintOne(i) \/ FingerprintNone
             /\ pc = "invalid" /\ pc' = pc /\ start' = start /\ shape' = shape
    <3>1. \A j \in Chunk : shape[j] # NoShape => /\ captured'[j].record = captured[j].record
                                                 /\ captured'[j].data = captured[j].data
      <4>1. CASE FingerprintOne(i)
        BY <1>4, <4>1 DEF FingerprintOne, Capture
      <4>2. CASE FingerprintNone
        BY <1>4, <4>2 DEF FingerprintNone, ValidIn
      <4> QED BY <2>1, <4>1, <4>2
    <3> QED BY <1>3, <2>1, <3>1, SteadyFrame DEF Done, Verified
  <2> QED BY <1>5, <1>11, <2>1, FingerprintIs
<1>12. ASSUME NEW i \in Source, ParseFile(i) PROVE SteadyInv'
  <2>1. /\ pc = "parse" /\ i \in todo /\ todo' = todo \ {i}
        /\ UNCHANGED <<pc, start, shape>>
    BY <1>12, ParseFileIs
  <2>2. PICK record \in Parsed(label[i]) :
            /\ captured' = [captured EXCEPT ![i].record = record]
            /\ record \in {Record(TooLarge), ParseOf(label[i])} \/ Fault
                       \/ ParseOf(label[i]).status = Reference
    BY <1>12, ParseFileIs
  <2>3. \A j \in Chunk : j # i => captured'[j] = captured[j]
    BY <1>4, <2>2
  <2>4. captured'[i].record = record /\ captured'[i].data = Nothing
    BY <1>4, <2>1, <2>2 DEF NothingKept, Capture
  <2>5. record \in {ParseOf(label[i]), Record(TooLarge)}
    <3>1. label[i] \in File
      BY DEF Types
    <3> QED BY <1>3, <2>2, <3>1, ReferenceRecord DEF Parsed
  <2> QED BY <1>3, <2>1, <2>3, <2>4, <2>5, SteadyFrame DEF Done, Verified
<1>13. CASE PackChunk
  <2>1. todo = {} /\ pc \in {"invalid", "parse"} /\ pc' = "merge" /\ start' = start
        /\ shape' = shape /\ captured' = captured
    BY <1>13 DEF PackChunk
  <2> QED BY <1>3, <2>1, SteadyFrame DEF Done, Verified
<1>14. CASE SkipInvalid \/ MergeNative \/ MergeReference
  <2>1. pc = "merge" /\ pc' = pc /\ start' = start /\ shape' = shape /\ captured' = captured
    BY <1>14 DEF SkipInvalid, MergeNative, MergeReference, ToMerge, Advance
  <2> QED BY <1>3, <2>1, SteadyFrame DEF Done, Verified
<1>15. CASE MergeTooLarge
  BY <1>5, <1>15 DEF MergeTooLarge
<1>16. CASE NextChunk
  <2>1. CASE pc' = "done" /\ start' = start
    BY <1>3, <2>1, SteadyFrame DEF Done, Verified
  <2>2. CASE pc' = "images" /\ todo' = Chunk'
    BY <2>2 DEF SteadyInv, Done, Verified
  <2> QED BY <1>16, <2>1, <2>2, NextChunkIs
<1>17. \A i \in Source : \A x : ~WriteImage(i, x) /\ ~WriteLabel(i, x)
  BY <1>3 DEF WriteImage, WriteLabel
<1> QED BY <1>2, <1>7, <1>8, <1>9, <1>10, <1>11, <1>12, <1>13, <1>14, <1>15, <1>16, <1>17 DEF Next

LEMMA SteadyInit == ASSUME Init PROVE NothingKept /\ SteadyInv
<1>1. pc = "images" /\ todo = Chunk
  BY DEF Init
<1> QED BY <1>1 DEF NothingKept, SteadyInv, Verified, Done

SteadyAlways == Types /\ NothingKept /\ SteadyInv

LEMMA SteadyHolds == Spec => []SteadyAlways
<1>1. Init => SteadyAlways
  BY InitTypes, SteadyInit DEF SteadyAlways
<1>2. SteadyAlways /\ [Next]_vars => SteadyAlways'
  BY StepTypes, NothingKeptStep, SteadyStep DEF SteadyAlways
<1> QED BY <1>1, <1>2, PTL DEF Spec

\* A label that has been parsed and is still what it was.
LEMMA ParsedIs ==
    ASSUME SteadyAlways, NEW i \in Source, ParsedSteady(i)
    PROVE  label[i] \in File /\ captured[i].record \in {ParseOf(label[i]), Record(TooLarge)}
<1>1. i \in Chunk /\ shape[i] # NoShape /\ Done(i) /\ writes = 0 /\ faults = 0
  BY DEF ParsedSteady, ValidIn, Done
<1> QED BY <1>1 DEF SteadyAlways, SteadyInv, Types

\* What the native engine reads without asking for the reference is what the
\* reference reads, for every text of every dataset: the same rows, polygons, order
\* and duplicate count, the conditional permutation of np.unique included.
THEOREM NativeReadsLikeReference == Spec => []NativeIsReference
<1>1. ASSUME SteadyAlways PROVE NativeIsReference
  <2> SUFFICES ASSUME NEW i \in Source, ParsedSteady(i), captured[i].record.status \in {Valid, Empty}
               PROVE  LET native == captured[i].record
                          verdict == Verify(label[i], config.single)
                      IN  /\ verdict.ok
                          /\ native.rows = verdict.rows /\ native.segments = verdict.segments
                          /\ native.duplicates = verdict.duplicates
                          /\ native.status = Empty <=> verdict.empty = 1
    BY DEF NativeIsReference
  <2>1. label[i] \in File /\ captured[i].record = ParseOf(label[i])
    BY <1>1, ParsedIs DEF Record, TooLarge, Valid, Empty
  <2>2. label[i] # Missing
    BY <2>1 DEF ParseOf, Missing, Record, NoFile, Valid, Empty
  <2>3. PICK t \in Seq(Seq(Token)) : label[i] = TextFile(t)
    BY <2>1, <2>2 DEF File
  <2>4. captured[i].record = Parse(t, config.single)
    BY <2>1, <2>3 DEF ParseOf, TextFile
  <2>5. Parse(t, config.single).status # Reference
    BY <2>4 DEF Reference, Valid, Empty
  <2> QED BY <2>3, <2>4, <2>5, NativeAgrees DEF Valid, Empty
<1> QED BY <1>1, SteadyHolds, PTL

\* The reference is asked about a label it accepts only where the two number
\* readers differ, for every text of every dataset (number, parse).
THEOREM ReferenceOnlyForTokens == Spec => []ReferenceOnlyWhenUnclear
<1>1. ASSUME SteadyAlways PROVE ReferenceOnlyWhenUnclear
  <2> SUFFICES ASSUME NEW i \in Source, ParsedSteady(i), captured[i].record.status = Reference,
                      Verify(label[i], config.single).ok
               PROVE  \E l \in DOMAIN label[i].text : \E k \in DOMAIN label[i].text[l] :
                          label[i].text[l][k] \in {"inf", "-0"}
    BY DEF ReferenceOnlyWhenUnclear
  <2>1. label[i] \in File /\ captured[i].record = ParseOf(label[i])
    BY <1>1, ParsedIs DEF Record, TooLarge, Reference
  <2>2. label[i] # Missing
    BY <2>1 DEF ParseOf, Missing, Record, NoFile, Reference
  <2>3. PICK t \in Seq(Seq(Token)) : label[i] = TextFile(t)
    BY <2>1, <2>2 DEF File
  <2>4. captured[i].record = Parse(t, config.single) /\ label[i].text = t
    BY <2>1, <2>3 DEF ParseOf, TextFile
  <2> QED BY <2>3, <2>4, UnclearTokens
<1> QED BY <1>1, SteadyHolds, PTL

-----------------------------------------------------------------------------
(* What joins to one sequence *)

LEMMA SameFlatten == ASSUME NEW seqs PROVE Totals!FlattenSeq(seqs) = FlattenSeq(seqs)
  BY DEF Totals!FlattenSeq, FlattenSeq

LEMMA FlattenIsSeq ==
    ASSUME NEW S, NEW seqs \in Seq(Seq(S)) PROVE FlattenSeq(seqs) \in Seq(S)
  BY Totals!FlattenType, SameFlatten

\* The elements before the k-th of some sequences.
BeforeSeq(seqs, k) == Len(FlattenSeq(SubSeq(seqs, 1, k - 1)))

LEMMA BeforeFirst == ASSUME NEW S, NEW seqs \in Seq(Seq(S)) PROVE BeforeSeq(seqs, 1) = 0
<1>1. SubSeq(seqs, 1, 1 - 1) = <<>>
  OBVIOUS
<1>2. FlattenSeq(<<>>) = <<>>
  BY Totals!FlattenEmpty, SameFlatten
<1>3. BeforeSeq(seqs, 1) = Len(FlattenSeq(SubSeq(seqs, 1, 1 - 1)))
  BY DEF BeforeSeq
<1>4. Len(<<>>) = 0
  OBVIOUS
<1> QED BY <1>1, <1>2, <1>3, <1>4

LEMMA BeforeLast ==
    ASSUME NEW S, NEW seqs \in Seq(Seq(S))
    PROVE  BeforeSeq(seqs, Len(seqs) + 1) = Len(FlattenSeq(seqs))
<1>1. SubSeq(seqs, 1, (Len(seqs) + 1) - 1) = seqs
  OBVIOUS
<1> QED BY <1>1 DEF BeforeSeq

\* Where the k-th sequence is in what all of them join to.
LEMMA PartOf ==
    ASSUME NEW S, NEW seqs \in Seq(Seq(S)), NEW k \in 1..Len(seqs)
    PROVE  /\ BeforeSeq(seqs, k) \in Nat /\ Len(seqs[k]) \in Nat
           /\ BeforeSeq(seqs, k + 1) = BeforeSeq(seqs, k) + Len(seqs[k])
           /\ BeforeSeq(seqs, k + 1) <= Len(FlattenSeq(seqs))
           /\ \A j \in 1..Len(seqs[k]) : FlattenSeq(seqs)[BeforeSeq(seqs, k) + j] = seqs[k][j]
<1>1. k - 1 \in Nat /\ (k - 1) + 1 <= Len(seqs) /\ (k - 1) + 1 = k /\ (k + 1) - 1 = k
  OBVIOUS
<1> DEFINE i == k - 1
<1>0. LET before == Len(Totals!FlattenSeq(SubSeq(seqs, 1, i)))
      IN  /\ Len(Totals!FlattenSeq(SubSeq(seqs, 1, i + 1))) = before + Len(seqs[i + 1])
          /\ before + Len(seqs[i + 1]) <= Len(Totals!FlattenSeq(seqs))
          /\ \A j \in 1..Len(seqs[i + 1]) : Totals!FlattenSeq(seqs)[before + j] = seqs[i + 1][j]
  <2> HIDE DEF i
  <2>1. i \in Nat /\ i + 1 <= Len(seqs)
    BY <1>1 DEF i
  <2> QED BY <2>1, Totals!FlattenAt
<1>2. /\ Len(FlattenSeq(SubSeq(seqs, 1, k))) = Len(FlattenSeq(SubSeq(seqs, 1, k - 1))) + Len(seqs[k])
      /\ Len(FlattenSeq(SubSeq(seqs, 1, k - 1))) + Len(seqs[k]) <= Len(FlattenSeq(seqs))
      /\ \A j \in 1..Len(seqs[k]) :
             FlattenSeq(seqs)[Len(FlattenSeq(SubSeq(seqs, 1, k - 1))) + j] = seqs[k][j]
  BY <1>0, <1>1, SameFlatten
<1>3. SubSeq(seqs, 1, k - 1) \in Seq(Seq(S)) /\ seqs[k] \in Seq(S)
  OBVIOUS
<1>4. FlattenSeq(SubSeq(seqs, 1, k - 1)) \in Seq(S)
  BY <1>3, FlattenIsSeq
<1>5. Len(FlattenSeq(SubSeq(seqs, 1, k - 1))) \in Nat /\ Len(seqs[k]) \in Nat
  BY <1>3, <1>4
<1> QED BY <1>1, <1>2, <1>5 DEF BeforeSeq

LEMMA SliceIs ==
    ASSUME NEW S, NEW s \in Seq(S), NEW a \in Nat, NEW t \in Seq(S), a + Len(t) <= Len(s),
           \A j \in 1..Len(t) : s[a + j] = t[j]
    PROVE  Slice(s, a, a + Len(t)) = t
<1> DEFINE part == SubSeq(s, a + 1, a + Len(t))
<1>1. part \in Seq(S) /\ Len(part) = Len(t) /\ \A j \in 1..Len(t) : part[j] = s[a + j]
  OBVIOUS
<1>2. part = t
  <2> HIDE DEF part
  <2> QED BY <1>1
<1> QED BY <1>2 DEF Slice

LEMMA PartSlice ==
    ASSUME NEW S, NEW seqs \in Seq(Seq(S)), NEW k \in 1..Len(seqs)
    PROVE  Slice(FlattenSeq(seqs), BeforeSeq(seqs, k), BeforeSeq(seqs, k + 1)) = seqs[k]
<1> DEFINE all == FlattenSeq(seqs)
<1> DEFINE a == BeforeSeq(seqs, k)
<1>1. all \in Seq(S) /\ seqs[k] \in Seq(S)
  BY FlattenIsSeq
<1>2. /\ a \in Nat /\ BeforeSeq(seqs, k + 1) = a + Len(seqs[k])
      /\ a + Len(seqs[k]) <= Len(all) /\ \A j \in 1..Len(seqs[k]) : all[a + j] = seqs[k][j]
  BY PartOf
<1> HIDE DEF all, a
<1> QED BY <1>1, <1>2, SliceIs DEF all, a

LEMMA OffsetsAre ==
    ASSUME NEW S, NEW seqs \in Seq(Seq(S))
    PROVE  /\ DOMAIN Offsets(seqs) = 1..(Len(seqs) + 1)
           /\ \A k \in 1..(Len(seqs) + 1) : Offsets(seqs)[k] = BeforeSeq(seqs, k)
  BY DEF Offsets, BeforeSeq

-----------------------------------------------------------------------------
(* Packing *)

\* t begins with s.
Begins(s, t) == Len(s) <= Len(t) /\ \A k \in 1..Len(s) : t[k] = s[k]

PackType ==
    [offsets : Seq(Nat), labels : Seq(Row), points : Seq(Point), segmentOffsets : Seq(Nat),
     segmentObjects : Seq(Nat), statuses : Seq(0..4), duplicates : Seq(Nat)]

\* The packed arrays of n records.
PackOf(p, n) ==
    /\ p \in PackType
    /\ Len(p.offsets) = n + 1 /\ p.offsets[n + 1] = Len(p.labels)
    /\ Len(p.segmentOffsets) = Len(p.segmentObjects) + 1
    /\ p.segmentOffsets[Len(p.segmentObjects) + 1] = Len(p.points)
    /\ Len(p.statuses) = n /\ Len(p.duplicates) = n

\* q is p with the record r at its end.
Extended(p, q, n, r) ==
    /\ q.offsets = Append(p.offsets, Len(p.labels) + Len(r.rows))
    /\ q.labels = p.labels \o r.rows
    /\ q.points = p.points \o FlattenSeq(r.segments)
    /\ q.statuses = Append(p.statuses, r.status)
    /\ q.duplicates = Append(p.duplicates, r.duplicates)
    /\ Len(q.segmentObjects) = Len(p.segmentObjects) + Len(r.segments)
    /\ Begins(p.segmentObjects, q.segmentObjects)
    /\ Begins(p.segmentOffsets, q.segmentOffsets)
    /\ \A j \in 1..Len(r.segments) :
          /\ q.segmentObjects[Len(p.segmentObjects) + j] = Len(p.labels) + j - 1
          /\ q.segmentOffsets[Len(p.segmentObjects) + 1 + j]
                = Len(p.points) + BeforeSeq(r.segments, j + 1)

LEMMA EmptyPackIs == PackOf(EmptyPack, 0)
  BY DEF EmptyPack, PackOf, PackType

LEMMA RecordParts ==
    ASSUME NEW r \in RecordType, Paired(r)
    PROVE  /\ r.rows \in Seq(Row) /\ r.segments \in Seq(Seq(Point)) /\ r.status \in 0..4
           /\ r.duplicates \in Nat /\ FlattenSeq(r.segments) \in Seq(Point)
           /\ Len(r.segments) <= Len(r.rows) /\ Len(r.segments) \in Nat /\ Len(r.rows) \in Nat
<1>1. /\ r.rows \in Seq(Row) /\ r.segments \in Seq(Seq(Point)) /\ r.status \in 0..4
      /\ r.duplicates \in Nat
  BY DEF RecordType, Valid, NoFile, Empty, Reference, TooLarge
<1>2. FlattenSeq(r.segments) \in Seq(Point)
  BY <1>1, FlattenIsSeq
<1> QED BY <1>1, <1>2 DEF Paired

\* The two arrays of segments grow by one element for each segment of the record.
LEMMA GrowBy ==
    ASSUME NEW S, NEW s \in Seq(S), NEW t, NEW n \in Nat, t \in [1..n -> S]
    PROVE  /\ s \o t \in Seq(S) /\ Len(s \o t) = Len(s) + n /\ Begins(s, s \o t)
           /\ \A j \in 1..n : (s \o t)[Len(s) + j] = t[j]
<1>1. t \in Seq(S) /\ Len(t) = n
  OBVIOUS
<1> QED BY <1>1 DEF Begins

LEMMA ExtendIs ==
    ASSUME NEW n \in Nat, NEW p, PackOf(p, n), NEW r \in RecordType, Paired(r)
    PROVE  Extended(p, Extend(p, r), n, r) /\ PackOf(Extend(p, r), n + 1)
<1> DEFINE q == Extend(p, r)
<1> DEFINE m == Len(r.segments)
<1> DEFINE first == Len(p.labels)
<1> DEFINE ends == [k \in DOMAIN r.segments |->
                       Len(p.points) + Len(FlattenSeq(SubSeq(r.segments, 1, k)))]
<1> DEFINE objects == [k \in DOMAIN r.segments |-> first + k - 1]
<1>1. /\ r.rows \in Seq(Row) /\ r.segments \in Seq(Seq(Point)) /\ r.status \in 0..4
      /\ r.duplicates \in Nat /\ FlattenSeq(r.segments) \in Seq(Point)
      /\ m \in Nat /\ DOMAIN r.segments = 1..m
  BY RecordParts
<1>2. /\ p \in PackType /\ p.offsets \in Seq(Nat) /\ p.labels \in Seq(Row) /\ p.points \in Seq(Point)
      /\ p.segmentOffsets \in Seq(Nat) /\ p.segmentObjects \in Seq(Nat) /\ p.statuses \in Seq(0..4)
      /\ p.duplicates \in Seq(Nat) /\ first \in Nat /\ Len(p.points) \in Nat
      /\ Len(p.segmentObjects) \in Nat
  BY DEF PackOf, PackType
<1>3. q = [offsets |-> Append(p.offsets, first + Len(r.rows)),
           labels |-> p.labels \o r.rows,
           points |-> p.points \o FlattenSeq(r.segments),
           segmentOffsets |-> p.segmentOffsets \o ends,
           segmentObjects |-> p.segmentObjects \o objects,
           statuses |-> Append(p.statuses, r.status),
           duplicates |-> Append(p.duplicates, r.duplicates)]
  BY DEF Extend
<1>4. \A k \in 1..(m + 1) : BeforeSeq(r.segments, k) \in Nat
  <2>1. BeforeSeq(r.segments, 1) = 0
    BY <1>1, BeforeFirst
  <2>2. \A k \in 1..m : BeforeSeq(r.segments, k) \in Nat /\ Len(r.segments[k]) \in Nat
                        /\ BeforeSeq(r.segments, k + 1) = BeforeSeq(r.segments, k) + Len(r.segments[k])
    BY <1>1, PartOf
  <2>3. ASSUME NEW k \in 1..(m + 1), k # 1 PROVE BeforeSeq(r.segments, k) \in Nat
    <3>1. PICK j \in 1..m : k = j + 1
      <4>1. k - 1 \in 1..m /\ k = (k - 1) + 1
        BY <1>1, <2>3
      <4> QED BY <4>1
    <3>2. BeforeSeq(r.segments, j + 1) \in Nat
      BY <2>2
    <3> QED BY <3>1, <3>2
  <2> QED BY <2>1, <2>3
<1>5. \A k \in 1..m : Len(FlattenSeq(SubSeq(r.segments, 1, k))) = BeforeSeq(r.segments, k + 1)
  <2>1. \A k \in 1..m : (k + 1) - 1 = k
    BY <1>1
  <2> QED BY <2>1 DEF BeforeSeq
<1>6. ends \in [1..m -> Nat] /\ \A k \in 1..m : ends[k] = Len(p.points) + BeforeSeq(r.segments, k + 1)
  <2>1. ASSUME NEW k \in 1..m
        PROVE  ends[k] = Len(p.points) + BeforeSeq(r.segments, k + 1) /\ ends[k] \in Nat
    <3>1. k + 1 \in 1..(m + 1)
      BY <1>1
    <3>2. BeforeSeq(r.segments, k + 1) \in Nat
      BY <1>4, <3>1
    <3>3. ends[k] = Len(p.points) + Len(FlattenSeq(SubSeq(r.segments, 1, k)))
      BY <1>1
    <3>4. ends[k] = Len(p.points) + BeforeSeq(r.segments, k + 1)
      BY <1>5, <3>3
    <3> HIDE DEF ends
    <3>5. Len(p.points) \in Nat
      BY <1>2
    <3> QED BY <3>2, <3>4, <3>5
  <2> QED BY <1>1, <2>1
<1>7. objects \in [1..m -> Nat]
  BY <1>1, <1>2, SMTT(30)
<1>9. \A k \in 1..m : objects[k] = first + k - 1
  BY <1>1
<1> HIDE DEF q, m, first, ends, objects
<1>10. /\ p.segmentOffsets \o ends \in Seq(Nat)
       /\ Len(p.segmentOffsets \o ends) = Len(p.segmentOffsets) + m
       /\ Begins(p.segmentOffsets, p.segmentOffsets \o ends)
       /\ \A j \in 1..m : (p.segmentOffsets \o ends)[Len(p.segmentOffsets) + j] = ends[j]
  <2>1. p.segmentOffsets \in Seq(Nat) /\ m \in Nat /\ ends \in [1..m -> Nat]
    BY <1>1, <1>2, <1>6
  <2> QED BY <2>1, GrowBy
<1>11. /\ p.segmentObjects \o objects \in Seq(Nat)
       /\ Len(p.segmentObjects \o objects) = Len(p.segmentObjects) + m
       /\ Begins(p.segmentObjects, p.segmentObjects \o objects)
       /\ \A j \in 1..m : (p.segmentObjects \o objects)[Len(p.segmentObjects) + j] = objects[j]
  <2>1. p.segmentObjects \in Seq(Nat) /\ m \in Nat /\ objects \in [1..m -> Nat]
    BY <1>1, <1>2, <1>7
  <2> QED BY <2>1, GrowBy
<1>12. Extended(p, q, n, r)
  <2>1. \A j \in 1..m : /\ q.segmentObjects[Len(p.segmentObjects) + j] = first + j - 1
                        /\ q.segmentOffsets[Len(p.segmentObjects) + 1 + j]
                              = Len(p.points) + BeforeSeq(r.segments, j + 1)
    BY <1>3, <1>6, <1>9, <1>10, <1>11 DEF PackOf
  <2> QED BY <1>3, <1>10, <1>11, <2>1 DEF Extended, m, first
<1>13. PackOf(q, n + 1)
  <2>1. /\ Append(p.offsets, first + Len(r.rows)) \in Seq(Nat)
        /\ Len(Append(p.offsets, first + Len(r.rows))) = n + 2
        /\ Append(p.offsets, first + Len(r.rows))[n + 2] = first + Len(r.rows)
    <3>1. first + Len(r.rows) \in Nat /\ Len(p.offsets) = n + 1 /\ p.offsets \in Seq(Nat)
      BY <1>1, <1>2 DEF PackOf
    <3> QED BY <3>1
  <2>2. p.labels \o r.rows \in Seq(Row) /\ Len(p.labels \o r.rows) = first + Len(r.rows)
    BY <1>1, <1>2 DEF first
  <2>3. /\ p.points \o FlattenSeq(r.segments) \in Seq(Point)
        /\ Len(p.points \o FlattenSeq(r.segments)) = Len(p.points) + Len(FlattenSeq(r.segments))
    BY <1>1, <1>2
  <2>4. /\ Append(p.statuses, r.status) \in Seq(0..4) /\ Len(Append(p.statuses, r.status)) = n + 1
        /\ Append(p.duplicates, r.duplicates) \in Seq(Nat)
        /\ Len(Append(p.duplicates, r.duplicates)) = n + 1
    <3>1. Len(p.statuses) = n /\ Len(p.duplicates) = n
      BY DEF PackOf
    <3>2. /\ p.statuses \in Seq(0..4) /\ r.status \in 0..4
          /\ p.duplicates \in Seq(Nat) /\ r.duplicates \in Nat
      BY <1>1, <1>2
    <3>3. Append(p.statuses, r.status) \in Seq(0..4) /\ Len(Append(p.statuses, r.status)) = n + 1
      BY <3>1, <3>2
    <3>4. /\ Append(p.duplicates, r.duplicates) \in Seq(Nat)
          /\ Len(Append(p.duplicates, r.duplicates)) = n + 1
      BY <3>1, <3>2
    <3> QED BY <3>3, <3>4
  <2>5. q \in PackType
    BY <1>3, <1>10, <1>11, <2>1, <2>2, <2>3, <2>4 DEF PackType
  <2>6. (p.segmentOffsets \o ends)[Len(p.segmentObjects) + m + 1]
           = Len(p.points) + Len(FlattenSeq(r.segments))
    <3>1. BeforeSeq(r.segments, m + 1) = Len(FlattenSeq(r.segments))
      BY <1>1, BeforeLast DEF m
    <3>2. CASE m = 0
      <4>1. Len(FlattenSeq(r.segments)) = 0
        BY <1>1, <3>1, <3>2, BeforeFirst
      <4>2. (p.segmentOffsets \o ends)[Len(p.segmentObjects) + 1] = p.segmentOffsets[Len(p.segmentObjects) + 1]
        <5>1. Len(p.segmentOffsets) = Len(p.segmentObjects) + 1 /\ Len(p.segmentObjects) \in Nat
          BY <1>2 DEF PackOf
        <5>2. Len(p.segmentObjects) + 1 \in 1..Len(p.segmentOffsets)
          BY <5>1
        <5> QED BY <1>10, <5>2 DEF Begins
      <4>3. p.segmentOffsets[Len(p.segmentObjects) + 1] = Len(p.points)
        BY DEF PackOf
      <4>4. Len(p.segmentObjects) + m + 1 = Len(p.segmentObjects) + 1
        BY <1>2, <3>2
      <4>5. Len(p.points) + 0 = Len(p.points)
        BY <1>2
      <4> QED BY <4>1, <4>2, <4>3, <4>4, <4>5
    <3>3. CASE m # 0
      <4>1. m \in 1..m /\ Len(p.segmentOffsets) + m = Len(p.segmentObjects) + m + 1
        BY <1>1, <1>2, <3>3 DEF PackOf
      <4> QED BY <1>6, <1>10, <3>1, <4>1
    <3> QED BY <3>2, <3>3
  <2>7. Len(p.segmentOffsets) + m = (Len(p.segmentObjects) + m) + 1
    BY <1>1, <1>2 DEF PackOf
  <2>8. (n + 1) + 1 = n + 2
    OBVIOUS
  <2> QED BY <1>3, <1>10, <1>11, <2>1, <2>2, <2>3, <2>4, <2>5, <2>6, <2>7, <2>8 DEF PackOf
<1> QED BY <1>12, <1>13 DEF q

\* q holds what p holds, and after it only what belongs to rows after those of p.
Grows(p, q) ==
    /\ Begins(p.offsets, q.offsets) /\ Begins(p.labels, q.labels) /\ Begins(p.points, q.points)
    /\ Begins(p.segmentOffsets, q.segmentOffsets) /\ Begins(p.segmentObjects, q.segmentObjects)
    /\ Begins(p.statuses, q.statuses) /\ Begins(p.duplicates, q.duplicates)
    /\ \A s \in (Len(p.segmentObjects) + 1)..Len(q.segmentObjects) :
           q.segmentObjects[s] >= Len(p.labels)

LEMMA BeginsSame == ASSUME NEW S, NEW s \in Seq(S) PROVE Begins(s, s)
  BY DEF Begins

LEMMA BeginsAppended == ASSUME NEW S, NEW s \in Seq(S), NEW x \in S PROVE Begins(s, Append(s, x))
  BY DEF Begins

LEMMA BeginsJoined == ASSUME NEW S, NEW s \in Seq(S), NEW t \in Seq(S) PROVE Begins(s, s \o t)
  BY DEF Begins

LEMMA BeginsThrough ==
    ASSUME NEW S, NEW s \in Seq(S), NEW t \in Seq(S), NEW u \in Seq(S), Begins(s, t), Begins(t, u)
    PROVE  Begins(s, u)
<1>1. Len(s) \in Nat /\ Len(t) \in Nat /\ Len(u) \in Nat
  OBVIOUS
<1>2. ASSUME NEW k \in 1..Len(s) PROVE u[k] = s[k]
  <2>1. k \in 1..Len(t)
    BY <1>1 DEF Begins
  <2> QED BY <2>1 DEF Begins
<1> QED BY <1>1, <1>2 DEF Begins

LEMMA PackParts ==
    ASSUME NEW n, NEW p, PackOf(p, n)
    PROVE  /\ p.offsets \in Seq(Nat) /\ p.labels \in Seq(Row) /\ p.points \in Seq(Point)
           /\ p.segmentOffsets \in Seq(Nat) /\ p.segmentObjects \in Seq(Nat)
           /\ p.statuses \in Seq(0..4) /\ p.duplicates \in Seq(Nat)
           /\ Len(p.labels) \in Nat /\ Len(p.points) \in Nat /\ Len(p.segmentObjects) \in Nat
  BY DEF PackOf, PackType

LEMMA GrowsSame == ASSUME NEW n, NEW p, PackOf(p, n) PROVE Grows(p, p)
<1>1. \A s \in (Len(p.segmentObjects) + 1)..Len(p.segmentObjects) : FALSE
  BY PackParts
<1>2. /\ Begins(p.offsets, p.offsets) /\ Begins(p.labels, p.labels) /\ Begins(p.points, p.points)
      /\ Begins(p.segmentOffsets, p.segmentOffsets) /\ Begins(p.segmentObjects, p.segmentObjects)
      /\ Begins(p.statuses, p.statuses) /\ Begins(p.duplicates, p.duplicates)
  BY PackParts, BeginsSame
<1> QED BY <1>1, <1>2 DEF Grows

LEMMA SumNat == ASSUME NEW a \in Nat, NEW b \in Nat PROVE a + b \in Nat
  OBVIOUS

LEMMA Difference ==
    ASSUME NEW a \in Nat, NEW b \in Nat, NEW s \in (a + 1)..(a + b)
    PROVE  s - a \in 1..b /\ s = a + (s - a)
  OBVIOUS

LEMMA GrowsByOne ==
    ASSUME NEW n \in Nat, NEW p, PackOf(p, n), NEW r \in RecordType, Paired(r), NEW q,
           Extended(p, q, n, r)
    PROVE  Grows(p, q)
<1>1. /\ r.rows \in Seq(Row) /\ FlattenSeq(r.segments) \in Seq(Point) /\ r.status \in 0..4
      /\ r.duplicates \in Nat /\ Len(r.segments) \in Nat /\ Len(r.rows) \in Nat
  BY RecordParts
<1>2. /\ p.offsets \in Seq(Nat) /\ p.labels \in Seq(Row) /\ p.points \in Seq(Point)
      /\ p.statuses \in Seq(0..4) /\ p.duplicates \in Seq(Nat)
      /\ Len(p.labels) \in Nat /\ Len(p.segmentObjects) \in Nat
  BY PackParts
<1>3. Len(p.labels) + Len(r.rows) \in Nat
  <2>1. Len(p.labels) \in Nat /\ Len(r.rows) \in Nat
    BY <1>1, <1>2
  <2> QED BY <2>1, SumNat, Zenon
<1>4. /\ Begins(p.offsets, q.offsets) /\ Begins(p.statuses, q.statuses)
      /\ Begins(p.duplicates, q.duplicates)
  BY <1>1, <1>2, <1>3, BeginsAppended DEF Extended
<1>5. Begins(p.labels, q.labels) /\ Begins(p.points, q.points)
  BY <1>1, <1>2, BeginsJoined DEF Extended
<1>6. ASSUME NEW s \in (Len(p.segmentObjects) + 1)..Len(q.segmentObjects)
      PROVE  q.segmentObjects[s] >= Len(p.labels)
  <2>1. Len(q.segmentObjects) = Len(p.segmentObjects) + Len(r.segments)
    BY DEF Extended
  <2>2. PICK j \in 1..Len(r.segments) : s = Len(p.segmentObjects) + j
    <3>1. Len(p.segmentObjects) \in Nat /\ Len(r.segments) \in Nat
      BY <1>1, <1>2
    <3>2. s - Len(p.segmentObjects) \in 1..Len(r.segments)
          /\ s = Len(p.segmentObjects) + (s - Len(p.segmentObjects))
      <4>1. s \in (Len(p.segmentObjects) + 1)..(Len(p.segmentObjects) + Len(r.segments))
        BY <2>1
      <4> QED BY <3>1, <4>1, Difference
    <3> QED BY <3>2
  <2>3. q.segmentObjects[s] = Len(p.labels) + j - 1
    BY <2>2 DEF Extended
  <2> QED BY <1>1, <1>2, <2>3
<1>7. Begins(p.segmentOffsets, q.segmentOffsets) /\ Begins(p.segmentObjects, q.segmentObjects)
  BY DEF Extended
<1> QED BY <1>4, <1>5, <1>6, <1>7 DEF Grows

LEMMA GrowsThrough ==
    ASSUME NEW k, NEW l, NEW m, NEW p, NEW q, NEW r, PackOf(p, k), PackOf(q, l), PackOf(r, m),
           Grows(p, q), Grows(q, r)
    PROVE  Grows(p, r)
<1>1. /\ Begins(p.offsets, r.offsets) /\ Begins(p.labels, r.labels) /\ Begins(p.points, r.points)
      /\ Begins(p.segmentOffsets, r.segmentOffsets) /\ Begins(p.segmentObjects, r.segmentObjects)
      /\ Begins(p.statuses, r.statuses) /\ Begins(p.duplicates, r.duplicates)
  <2>1. Begins(p.offsets, r.offsets)
    <3>1. p.offsets \in Seq(Nat) /\ q.offsets \in Seq(Nat) /\ r.offsets \in Seq(Nat)
      BY PackParts
    <3>2. Begins(p.offsets, q.offsets) /\ Begins(q.offsets, r.offsets)
      BY DEF Grows
    <3> QED BY <3>1, <3>2, BeginsThrough
  <2>2. Begins(p.labels, r.labels)
    <3>1. p.labels \in Seq(Row) /\ q.labels \in Seq(Row) /\ r.labels \in Seq(Row)
      BY PackParts
    <3>2. Begins(p.labels, q.labels) /\ Begins(q.labels, r.labels)
      BY DEF Grows
    <3> QED BY <3>1, <3>2, BeginsThrough
  <2>3. Begins(p.points, r.points)
    <3>1. p.points \in Seq(Point) /\ q.points \in Seq(Point) /\ r.points \in Seq(Point)
      BY PackParts
    <3>2. Begins(p.points, q.points) /\ Begins(q.points, r.points)
      BY DEF Grows
    <3> QED BY <3>1, <3>2, BeginsThrough
  <2>4. Begins(p.segmentOffsets, r.segmentOffsets)
    <3>1. p.segmentOffsets \in Seq(Nat) /\ q.segmentOffsets \in Seq(Nat) /\ r.segmentOffsets \in Seq(Nat)
      BY PackParts
    <3>2. Begins(p.segmentOffsets, q.segmentOffsets) /\ Begins(q.segmentOffsets, r.segmentOffsets)
      BY DEF Grows
    <3> QED BY <3>1, <3>2, BeginsThrough
  <2>5. Begins(p.segmentObjects, r.segmentObjects)
    <3>1. p.segmentObjects \in Seq(Nat) /\ q.segmentObjects \in Seq(Nat) /\ r.segmentObjects \in Seq(Nat)
      BY PackParts
    <3>2. Begins(p.segmentObjects, q.segmentObjects) /\ Begins(q.segmentObjects, r.segmentObjects)
      BY DEF Grows
    <3> QED BY <3>1, <3>2, BeginsThrough
  <2>6. Begins(p.statuses, r.statuses)
    <3>1. p.statuses \in Seq(0..4) /\ q.statuses \in Seq(0..4) /\ r.statuses \in Seq(0..4)
      BY PackParts
    <3>2. Begins(p.statuses, q.statuses) /\ Begins(q.statuses, r.statuses)
      BY DEF Grows
    <3> QED BY <3>1, <3>2, BeginsThrough
  <2>7. Begins(p.duplicates, r.duplicates)
    <3>1. p.duplicates \in Seq(Nat) /\ q.duplicates \in Seq(Nat) /\ r.duplicates \in Seq(Nat)
      BY PackParts
    <3>2. Begins(p.duplicates, q.duplicates) /\ Begins(q.duplicates, r.duplicates)
      BY DEF Grows
    <3> QED BY <3>1, <3>2, BeginsThrough
  <2> QED BY <2>1, <2>2, <2>3, <2>4, <2>5, <2>6, <2>7
<1>2. ASSUME NEW s \in (Len(p.segmentObjects) + 1)..Len(r.segmentObjects)
      PROVE  r.segmentObjects[s] >= Len(p.labels)
  <2>1. /\ Len(p.segmentObjects) \in Nat /\ Len(q.segmentObjects) \in Nat
        /\ Len(r.segmentObjects) \in Nat /\ Len(p.labels) \in Nat /\ Len(q.labels) \in Nat
        /\ r.segmentObjects \in Seq(Nat) /\ r.segmentObjects[s] \in Nat
    BY PackParts
  <2>2. CASE s <= Len(q.segmentObjects)
    <3>1. s \in (Len(p.segmentObjects) + 1)..Len(q.segmentObjects) /\ s \in 1..Len(q.segmentObjects)
      BY <2>1, <2>2
    <3>2. r.segmentObjects[s] = q.segmentObjects[s]
      BY <3>1 DEF Grows, Begins
    <3> QED BY <3>1, <3>2 DEF Grows
  <2>3. CASE ~(s <= Len(q.segmentObjects))
    <3>1. s \in (Len(q.segmentObjects) + 1)..Len(r.segmentObjects)
      BY <2>1, <2>3
    <3>2. r.segmentObjects[s] >= Len(q.labels)
      BY <3>1 DEF Grows
    <3>3. Len(p.labels) <= Len(q.labels)
      BY DEF Grows, Begins
    <3> QED BY <2>1, <3>2, <3>3
  <2> QED BY <2>2, <2>3
<1> QED BY <1>1, <1>2 DEF Grows

-----------------------------------------------------------------------------
\* The arrays of the first k records (PackedLabels::extend in a loop).
Packing(records, k) == FoldLeft(Extend, EmptyPack, [i \in 1..k |-> records[i]])

Records(records, n) == \A i \in 1..n : records[i] \in RecordType /\ Paired(records[i])

LEMMA SameFold ==
    ASSUME NEW s PROVE Packs!FoldLeft(Extend, EmptyPack, s) = FoldLeft(Extend, EmptyPack, s)
  BY DEF Packs!FoldLeft, Packs!MapThenFoldSet, Packs!Max, FoldLeft, MapThenFoldSet, Max

LEMMA PackingStarts == ASSUME NEW records PROVE Packing(records, 0) = EmptyPack
<1> DEFINE s == [i \in 1..0 |-> records[i]]
<1>1. DOMAIN s = {}
  OBVIOUS
<1> HIDE DEF s
<1>2. FoldLeft(Extend, EmptyPack, s) = EmptyPack
  BY <1>1, Packs!FoldEmpty, SameFold
<1> QED BY <1>2 DEF s, Packing

LEMMA PackingStep ==
    ASSUME NEW records, NEW k \in Nat
    PROVE  Packing(records, k + 1) = Extend(Packing(records, k), records[k + 1])
<1> DEFINE s == [i \in 1..(k + 1) |-> records[i]]
<1>1. DOMAIN s = 1..(k + 1) /\ s[k + 1] = records[k + 1]
      /\ [i \in 1..k |-> s[i]] = [i \in 1..k |-> records[i]]
  OBVIOUS
<1> HIDE DEF s
<1>2. Packs!FoldLeft(Extend, EmptyPack, s)
         = Extend(Packs!FoldLeft(Extend, EmptyPack, [i \in 1..k |-> s[i]]), s[k + 1])
  BY <1>1, Packs!FoldStep
<1>3. Packing(records, k + 1) = Extend(Packing(records, k), s[k + 1])
  BY <1>1, <1>2, SameFold DEF s, Packing
<1> QED BY <1>1, <1>3

LEMMA PackingIs ==
    ASSUME NEW records, NEW n \in Nat, Records(records, n), NEW k \in 0..n
    PROVE  PackOf(Packing(records, k), k)
<1> DEFINE T == {m \in Nat : m <= n => PackOf(Packing(records, m), m)}
<1>1. 0 \in T
  BY PackingStarts, EmptyPackIs
<1>2. ASSUME NEW m \in Nat, m \in T PROVE m + 1 \in T
  <2> SUFFICES ASSUME m + 1 <= n PROVE PackOf(Packing(records, m + 1), m + 1)
    OBVIOUS
  <2>1. PackOf(Packing(records, m), m) /\ m + 1 \in 1..n
    BY <1>2
  <2>2. records[m + 1] \in RecordType /\ Paired(records[m + 1])
    BY <2>1 DEF Records
  <2> QED BY <2>1, <2>2, PackingStep, ExtendIs
<1> HIDE DEF T
<1>3. k \in T
  BY <1>1, <1>2, Totals!Induct
<1> QED BY <1>3 DEF T

LEMMA PackingExtends ==
    ASSUME NEW records, NEW n \in Nat, Records(records, n), NEW k \in Nat, k + 1 <= n
    PROVE  Extended(Packing(records, k), Packing(records, k + 1), k, records[k + 1])
<1>1. PackOf(Packing(records, k), k) /\ records[k + 1] \in RecordType /\ Paired(records[k + 1])
  <2>1. k \in 0..n /\ k + 1 \in 1..n
    OBVIOUS
  <2> QED BY <2>1, PackingIs DEF Records
<1> QED BY <1>1, PackingStep, ExtendIs

LEMMA PackingGrows ==
    ASSUME NEW records, NEW n \in Nat, Records(records, n), NEW j \in Nat, NEW k \in j..n
    PROVE  Grows(Packing(records, j), Packing(records, k))
<1> DEFINE T == {m \in Nat : j + m <= n => Grows(Packing(records, j), Packing(records, j + m))}
<1>0. j \in 0..n /\ k - j \in Nat /\ j + (k - j) = k /\ j + 0 = j
  OBVIOUS
<1>1. 0 \in T
  BY <1>0, PackingIs, GrowsSame
<1>2. ASSUME NEW m \in Nat, m \in T PROVE m + 1 \in T
  <2> SUFFICES ASSUME j + (m + 1) <= n PROVE Grows(Packing(records, j), Packing(records, j + (m + 1)))
    OBVIOUS
  <2> DEFINE i == j + m
  <2>1. i \in Nat /\ j + (m + 1) = i + 1 /\ i + 1 <= n /\ i \in 0..n /\ i + 1 \in 0..n /\ i + 1 \in 1..n
    OBVIOUS
  <2>2. Grows(Packing(records, j), Packing(records, i))
    BY <1>2, <2>1
  <2> HIDE DEF i
  <2>3. Extended(Packing(records, i), Packing(records, i + 1), i, records[i + 1])
    BY <2>1, PackingExtends
  <2>4. /\ PackOf(Packing(records, i), i) /\ PackOf(Packing(records, j), j)
        /\ PackOf(Packing(records, i + 1), i + 1)
        /\ records[i + 1] \in RecordType /\ Paired(records[i + 1])
    BY <1>0, <2>1, PackingIs DEF Records
  <2>5. Grows(Packing(records, i), Packing(records, i + 1))
    BY <2>1, <2>3, <2>4, GrowsByOne
  <2> QED BY <2>1, <2>2, <2>4, <2>5, GrowsThrough
<1> HIDE DEF T
<1>3. k - j \in T
  BY <1>0, <1>1, <1>2, Totals!Induct
<1>4. j + (k - j) <= n
  BY <1>0
<1> QED BY <1>0, <1>3, <1>4 DEF T

-----------------------------------------------------------------------------
(* What the merge loop reads of the arrays *)

LEMMA AppendIs ==
    ASSUME NEW S, NEW s \in Seq(S), NEW x \in S, NEW n \in Nat, Len(s) = n
    PROVE  /\ Len(Append(s, x)) = n + 1 /\ Append(s, x)[n + 1] = x
           /\ \A i \in 1..n : Append(s, x)[i] = s[i]
  OBVIOUS

LEMMA Appended ==
    ASSUME NEW S, NEW s \in Seq(S), NEW x \in S, NEW n \in Nat, Len(s) = n, NEW t, t = Append(s, x)
    PROVE  Len(t) = n + 1 /\ t[n + 1] = x /\ \A i \in 1..n : t[i] = s[i]
BY AppendIs

LEMMA JoinIs ==
    ASSUME NEW S, NEW s \in Seq(S), NEW t \in Seq(S), NEW n \in Nat, Len(s) = n
    PROVE  Len(s \o t) = n + Len(t) /\ \A j \in 1..Len(t) : (s \o t)[n + j] = t[j]
  OBVIOUS

LEMMA Joined ==
    ASSUME NEW S, NEW s \in Seq(S), NEW t \in Seq(S), NEW n \in Nat, Len(s) = n, NEW u, u = s \o t
    PROVE  Len(u) = n + Len(t) /\ \A j \in 1..Len(t) : u[n + j] = t[j]
BY JoinIs

LEMMA StretchIs ==
    ASSUME NEW a \in Nat, NEW b \in Nat PROVE Cardinality((a + 1)..(a + b)) = b
<1>1. a + 1 \in Int /\ a + b \in Int
  OBVIOUS
<1>2. Cardinality((a + 1)..(a + b)) = IF a + 1 > a + b THEN 0 ELSE (a + b) - (a + 1) + 1
  BY <1>1, FS_Interval
<1> QED BY <1>2

\* The (k + 1)-st record r in the arrays of all the records: its status, its rows, its
\* segments after the first ones, and how many segments there are with it.
HeldAt(all, first, count, k, r) ==
    /\ all.statuses[k + 1] = r.status
    /\ all.duplicates[k + 1] = r.duplicates
    /\ Slice(all.labels, all.offsets[k + 1], all.offsets[k + 2]) = r.rows
    /\ first \in Nat /\ count = first + Len(r.segments)
    /\ {s \in (first + 1)..Len(all.segmentObjects) : all.segmentObjects[s] < all.offsets[k + 2]}
          = (first + 1)..(first + Len(r.segments))
    /\ \A j \in 1..Len(r.segments) :
          Slice(all.points, all.segmentOffsets[first + j], all.segmentOffsets[first + j + 1])
              = r.segments[j]

\* The arrays of n records hold each of them at its place.
LEMMA PackingHolds ==
    ASSUME NEW records, NEW n \in Nat, Records(records, n), NEW k \in Nat, k + 1 <= n
    PROVE  HeldAt(Packing(records, n), Len(Packing(records, k).segmentObjects),
                Len(Packing(records, k + 1).segmentObjects), k, records[k + 1])
<1> DEFINE all == Packing(records, n)
<1> DEFINE less == Packing(records, k)
<1> DEFINE more == Packing(records, k + 1)
<1> DEFINE r == records[k + 1]
<1> DEFINE first == Len(less.segmentObjects)
<1> DEFINE m == Len(r.segments)
<1> DEFINE rowsBefore == Len(less.labels)
<1> DEFINE pointsBefore == Len(less.points)
<1>1. /\ k \in 0..n /\ k + 1 \in 0..n /\ k + 1 \in 1..n /\ n \in 0..n /\ k + 1 \in Nat
      /\ n \in (k + 1)..n /\ k + 1 \in k..n
  OBVIOUS
<1>2. PackOf(less, k) /\ PackOf(more, k + 1) /\ PackOf(all, n)
  BY <1>1, PackingIs
<1>3. Grows(more, all)
  BY <1>1, PackingGrows
<1>4. Extended(less, more, k, r)
  BY PackingExtends
<1>5. r \in RecordType /\ Paired(r)
  BY <1>1 DEF Records
<1>6. /\ r.rows \in Seq(Row) /\ r.segments \in Seq(Seq(Point)) /\ r.status \in 0..4
      /\ r.duplicates \in Nat /\ FlattenSeq(r.segments) \in Seq(Point)
      /\ m <= Len(r.rows) /\ m \in Nat /\ Len(r.rows) \in Nat
  BY <1>5, RecordParts
<1>7. /\ less.offsets \in Seq(Nat) /\ less.labels \in Seq(Row) /\ less.points \in Seq(Point)
      /\ less.segmentOffsets \in Seq(Nat) /\ less.segmentObjects \in Seq(Nat)
      /\ less.statuses \in Seq(0..4) /\ less.duplicates \in Seq(Nat)
      /\ rowsBefore \in Nat /\ pointsBefore \in Nat /\ first \in Nat
  BY <1>2, PackParts
<1>8. /\ all.labels \in Seq(Row) /\ all.points \in Seq(Point) /\ Len(all.segmentObjects) \in Nat
      /\ Len(all.labels) \in Nat /\ Len(all.points) \in Nat
  BY <1>2, PackParts
<1>9. /\ Begins(more.offsets, all.offsets) /\ Begins(more.labels, all.labels)
      /\ Begins(more.points, all.points) /\ Begins(more.segmentOffsets, all.segmentOffsets)
      /\ Begins(more.segmentObjects, all.segmentObjects)
      /\ Begins(more.statuses, all.statuses) /\ Begins(more.duplicates, all.duplicates)
  BY <1>3 DEF Grows
<1>10. /\ Len(less.offsets) = k + 1 /\ less.offsets[k + 1] = rowsBefore /\ Len(less.statuses) = k
       /\ Len(less.duplicates) = k /\ Len(less.segmentOffsets) = first + 1
       /\ less.segmentOffsets[first + 1] = pointsBefore
  BY <1>2 DEF PackOf
<1>11. /\ more.offsets = Append(less.offsets, rowsBefore + Len(r.rows))
       /\ more.labels = less.labels \o r.rows
       /\ more.points = less.points \o FlattenSeq(r.segments)
       /\ more.statuses = Append(less.statuses, r.status)
       /\ more.duplicates = Append(less.duplicates, r.duplicates)
       /\ Len(more.segmentObjects) = first + m
       /\ Begins(less.segmentObjects, more.segmentObjects)
       /\ Begins(less.segmentOffsets, more.segmentOffsets)
       /\ \A j \in 1..m : /\ more.segmentObjects[first + j] = rowsBefore + j - 1
                          /\ more.segmentOffsets[first + 1 + j] = pointsBefore + BeforeSeq(r.segments, j + 1)
  BY <1>4 DEF Extended
<1>12. Len(more.segmentOffsets) = first + m + 1 /\ Len(more.labels) = rowsBefore + Len(r.rows)
  <2>1. Len(more.segmentOffsets) = Len(more.segmentObjects) + 1
    BY <1>2 DEF PackOf
  <2>2. Len(more.labels) = rowsBefore + Len(r.rows)
    <3>1. less.labels \in Seq(Row) /\ r.rows \in Seq(Row) /\ rowsBefore \in Nat
          /\ Len(less.labels) = rowsBefore /\ more.labels = less.labels \o r.rows
      BY <1>6, <1>7, <1>11
    <3> HIDE DEF rowsBefore, less, more, r
    <3>2. Len(less.labels \o r.rows) = rowsBefore + Len(r.rows)
      BY <3>1, JoinIs, Zenon
    <3> QED BY <3>1, <3>2
  <2> QED BY <1>11, <2>1, <2>2
<1> HIDE DEF all, less, more, r, first, m, rowsBefore, pointsBefore
<1>13. all.statuses[k + 1] = r.status
  <2>1. Len(more.statuses) = k + 1 /\ more.statuses[k + 1] = r.status
    <3>1. less.statuses \in Seq(0..4) /\ r.status \in 0..4 /\ Len(less.statuses) = k
          /\ more.statuses = Append(less.statuses, r.status)
      BY <1>6, <1>7, <1>10, <1>11
    <3> QED BY <3>1, AppendIs
  <2>2. k + 1 \in 1..(k + 1)
    OBVIOUS
  <2> QED BY <1>9, <2>1, <2>2 DEF Begins
<1>14. all.duplicates[k + 1] = r.duplicates
  <2>1. Len(more.duplicates) = k + 1 /\ more.duplicates[k + 1] = r.duplicates
    <3>1. less.duplicates \in Seq(Nat) /\ r.duplicates \in Nat /\ Len(less.duplicates) = k
          /\ more.duplicates = Append(less.duplicates, r.duplicates)
      BY <1>6, <1>7, <1>10, <1>11
    <3> QED BY <3>1, AppendIs
  <2>2. k + 1 \in 1..(k + 1)
    OBVIOUS
  <2> QED BY <1>9, <2>1, <2>2 DEF Begins
<1>15. all.offsets[k + 1] = rowsBefore /\ all.offsets[k + 2] = rowsBefore + Len(r.rows)
  <2>0. rowsBefore + Len(r.rows) \in Nat
    BY <1>6, <1>7, SumNat, Zenon
  <2>1. /\ Len(more.offsets) = k + 2 /\ more.offsets[k + 1] = rowsBefore
        /\ more.offsets[k + 2] = rowsBefore + Len(r.rows)
    <3>1. less.offsets \in Seq(Nat) /\ Len(less.offsets) = k + 1 /\ k + 1 \in Nat
          /\ more.offsets = Append(less.offsets, rowsBefore + Len(r.rows))
          /\ less.offsets[k + 1] = rowsBefore
      BY <1>1, <1>7, <1>10, <1>11
    <3>2. /\ Len(more.offsets) = (k + 1) + 1 /\ more.offsets[(k + 1) + 1] = rowsBefore + Len(r.rows)
          /\ \A i \in 1..(k + 1) : more.offsets[i] = less.offsets[i]
      BY <2>0, <3>1, AppendIs
    <3>3. (k + 1) + 1 = k + 2 /\ k + 1 \in 1..(k + 1)
      OBVIOUS
    <3> QED BY <3>1, <3>2, <3>3
  <2>2. k + 1 \in 1..(k + 2) /\ k + 2 \in 1..(k + 2)
    OBVIOUS
  <2> QED BY <1>9, <2>1, <2>2 DEF Begins
<1>16. Slice(all.labels, rowsBefore, rowsBefore + Len(r.rows)) = r.rows
  <2>1. \A j \in 1..Len(r.rows) : more.labels[rowsBefore + j] = r.rows[j]
    <3>1. less.labels \in Seq(Row) /\ r.rows \in Seq(Row) /\ rowsBefore \in Nat
          /\ Len(less.labels) = rowsBefore /\ more.labels = less.labels \o r.rows
      BY <1>6, <1>7, <1>11 DEF rowsBefore
    <3> DEFINE before == less.labels
               rows == r.rows
               after == more.labels
    <3>2. before \in Seq(Row) /\ rows \in Seq(Row) /\ rowsBefore \in Nat
          /\ Len(before) = rowsBefore /\ after = before \o rows
      BY <3>1
    <3> HIDE DEF before, rows, after
    <3>3. \A j \in 1..Len(rows) : after[rowsBefore + j] = rows[j]
      BY ONLY <3>2, Joined
    <3> QED BY <3>3 DEF rows, after
  <2>2. \A j \in 1..Len(r.rows) : rowsBefore + j \in 1..Len(more.labels)
    BY <1>6, <1>7, <1>12
  <2>3. /\ rowsBefore + Len(r.rows) <= Len(all.labels)
        /\ \A j \in 1..Len(r.rows) : all.labels[rowsBefore + j] = r.rows[j]
    BY <1>9, <1>12, <2>1, <2>2 DEF Begins
  <2> QED BY <1>6, <1>7, <1>8, <2>3, SliceIs, ZenonT(30)
<1>17. {s \in (first + 1)..Len(all.segmentObjects) : all.segmentObjects[s] < rowsBefore + Len(r.rows)}
          = (first + 1)..(first + m)
  <2>1. first + m <= Len(all.segmentObjects)
    BY <1>9, <1>11 DEF Begins
  <2>2. ASSUME NEW s \in (first + 1)..(first + m) PROVE all.segmentObjects[s] < rowsBefore + Len(r.rows)
    <3>1. PICK j \in 1..m : s = first + j
      <4>1. s - first \in 1..m /\ s = first + (s - first)
        BY <1>6, <1>7, Difference
      <4> QED BY <4>1
    <3>2. s \in 1..(first + m)
      BY <1>6, <1>7
    <3>3. all.segmentObjects[s] = rowsBefore + j - 1
      BY <1>9, <1>11, <3>1, <3>2 DEF Begins
    <3> QED BY <1>6, <1>7, <3>3
  <2>3. ASSUME NEW s \in (first + 1)..Len(all.segmentObjects), ~(s <= first + m)
        PROVE  ~(all.segmentObjects[s] < rowsBefore + Len(r.rows))
    <3>1. s \in (Len(more.segmentObjects) + 1)..Len(all.segmentObjects)
      BY <1>6, <1>7, <1>8, <1>11, <2>3
    <3>2. all.segmentObjects[s] >= rowsBefore + Len(r.rows)
      BY <1>3, <1>12, <3>1 DEF Grows
    <3>3. all.segmentObjects[s] \in Nat
      <4>1. all.segmentObjects \in Seq(Nat) /\ s \in 1..Len(all.segmentObjects)
        BY <1>2, <1>7, PackParts
      <4> QED BY <4>1
    <3>4. rowsBefore + Len(r.rows) \in Nat
      BY <1>6, <1>7, SumNat, Zenon
    <3> QED BY <3>2, <3>3, <3>4
  <2>4. \A s : s \in (first + 1)..(first + m) =>
                  s \in (first + 1)..Len(all.segmentObjects) /\ s <= first + m
    BY <1>6, <1>7, <1>8, <2>1
  <2>5. \A s : s \in (first + 1)..Len(all.segmentObjects) /\ s <= first + m =>
                  s \in (first + 1)..(first + m)
    BY <1>6, <1>7, <1>8
  <2> QED BY <2>2, <2>3, <2>4, <2>5
<1>18. ASSUME NEW j \in 1..m
       PROVE  Slice(all.points, all.segmentOffsets[first + j], all.segmentOffsets[first + j + 1])
                 = r.segments[j]
  <2>1. /\ BeforeSeq(r.segments, j) \in Nat /\ Len(r.segments[j]) \in Nat
        /\ BeforeSeq(r.segments, j + 1) = BeforeSeq(r.segments, j) + Len(r.segments[j])
        /\ BeforeSeq(r.segments, j + 1) <= Len(FlattenSeq(r.segments))
        /\ \A l \in 1..Len(r.segments[j]) :
               FlattenSeq(r.segments)[BeforeSeq(r.segments, j) + l] = r.segments[j][l]
    <3>1. j \in 1..Len(r.segments)
      BY DEF m
    <3> QED BY <1>6, <3>1, PartOf
  <2>2. all.segmentOffsets[first + j + 1] = pointsBefore + BeforeSeq(r.segments, j + 1)
    <3>1. first + 1 + j \in 1..(first + m + 1) /\ first + j + 1 = first + 1 + j
      BY <1>6, <1>7
    <3>2. more.segmentOffsets[first + 1 + j] = pointsBefore + BeforeSeq(r.segments, j + 1)
      BY <1>11
    <3>3. all.segmentOffsets[first + 1 + j] = more.segmentOffsets[first + 1 + j]
      BY <1>9, <1>12, <3>1 DEF Begins
    <3> QED BY <3>1, <3>2, <3>3
  <2>3. all.segmentOffsets[first + j] = pointsBefore + BeforeSeq(r.segments, j)
    <3>1. first + j \in 1..(first + m + 1) /\ first + 1 \in 1..(first + 1)
      BY <1>6, <1>7
    <3>2. all.segmentOffsets[first + j] = more.segmentOffsets[first + j]
      BY <1>9, <1>12, <3>1 DEF Begins
    <3>3. CASE j = 1
      <4>1. BeforeSeq(r.segments, 1) = 0
        BY <1>6, BeforeFirst
      <4>2. more.segmentOffsets[first + 1] = less.segmentOffsets[first + 1]
        BY <1>10, <1>11, <3>1 DEF Begins
      <4> QED BY <1>7, <1>10, <3>2, <3>3, <4>1, <4>2
    <3>4. CASE j # 1
      <4>1. PICK i \in 1..m : j = i + 1
        <5>1. j - 1 \in 1..m /\ j = (j - 1) + 1
          BY <1>6, <3>4
        <5> QED BY <5>1
      <4>2. more.segmentOffsets[first + 1 + i] = pointsBefore + BeforeSeq(r.segments, i + 1)
        BY <1>11
      <4>3. first + 1 + i = first + j
        BY <1>7, <4>1
      <4> QED BY <3>2, <4>1, <4>2, <4>3
    <3> QED BY <3>3, <3>4
  <2> DEFINE a == pointsBefore + BeforeSeq(r.segments, j)
  <2> DEFINE t == r.segments[j]
  <2>4. /\ a \in Nat /\ t \in Seq(Point) /\ Len(t) \in Nat
        /\ all.segmentOffsets[first + j] = a /\ all.segmentOffsets[first + j + 1] = a + Len(t)
    <3>1. t \in Seq(Point)
      <4>1. j \in 1..Len(r.segments)
        BY DEF m
      <4> QED BY <1>6, <4>1
    <3>2. pointsBefore + BeforeSeq(r.segments, j) \in Nat
      BY <1>7, <2>1, SumNat, Zenon
    <3>3. pointsBefore + (BeforeSeq(r.segments, j) + Len(r.segments[j]))
             = (pointsBefore + BeforeSeq(r.segments, j)) + Len(r.segments[j])
      BY <1>7, <2>1
    <3> QED BY <2>1, <2>2, <2>3, <3>1, <3>2, <3>3
  <2>5. /\ a + Len(t) <= Len(more.points)
        /\ \A l \in 1..Len(t) : more.points[a + l] = t[l]
    <3> DEFINE f == FlattenSeq(r.segments)
    <3> DEFINE b == BeforeSeq(r.segments, j)
    <3>1. f \in Seq(Point) /\ less.points \in Seq(Point) /\ Len(less.points) = pointsBefore
          /\ b \in Nat /\ b + Len(t) <= Len(f) /\ \A l \in 1..Len(t) : f[b + l] = t[l]
      BY <1>6, <1>7, <2>1 DEF pointsBefore
    <3>2. more.points = less.points \o f /\ a = pointsBefore + b
      BY <1>11
    <3>3. Len(t) \in Nat /\ pointsBefore \in Nat
      BY <1>7, <2>4
    <3> HIDE DEF f, b, t, a
    <3>4. Len(more.points) = pointsBefore + Len(f) /\ Len(f) \in Nat
      BY <3>1, <3>2, <3>3, JoinIs
    <3>5. ASSUME NEW l \in 1..Len(t) PROVE more.points[a + l] = t[l]
      <4>1. b + l \in 1..Len(f) /\ a + l = pointsBefore + (b + l)
        BY <3>1, <3>2, <3>3, <3>4
      <4>2. (less.points \o f)[pointsBefore + (b + l)] = f[b + l]
        <5> DEFINE before == less.points
                   after == before \o f
        <5>1. before \in Seq(Point) /\ f \in Seq(Point) /\ pointsBefore \in Nat
              /\ Len(before) = pointsBefore /\ after = before \o f
          BY <3>1, <3>3
        <5> HIDE DEF before, after
        <5>2. \A i \in 1..Len(f) : after[pointsBefore + i] = f[i]
          BY ONLY <5>1, Joined
        <5> QED BY <4>1, <5>2 DEF before, after
      <4> QED BY <3>1, <3>2, <4>1, <4>2
    <3>6. a + Len(t) <= Len(more.points)
      BY <3>1, <3>2, <3>3, <3>4
    <3> QED BY <3>5, <3>6
  <2> HIDE DEF a, t
  <2>6. /\ a + Len(t) <= Len(all.points)
        /\ \A l \in 1..Len(t) : all.points[a + l] = t[l]
    <3>1. Len(more.points) <= Len(all.points) /\ \A i \in 1..Len(more.points) : all.points[i] = more.points[i]
      BY <1>9 DEF Begins
    <3>2. Len(more.points) \in Nat
      BY <1>2, PackParts
    <3>3. \A l \in 1..Len(t) : a + l \in 1..Len(more.points)
      BY <2>4, <2>5, <3>2
    <3> QED BY <1>8, <2>4, <2>5, <3>1, <3>2, <3>3
  <2>7. Slice(all.points, a, a + Len(t)) = t
    BY <1>8, <2>4, <2>6, SliceIs
  <2> QED BY <2>4, <2>7 DEF t
<1>19. HeldAt(all, first, Len(more.segmentObjects), k, r)
  <2>1. /\ m = Len(r.segments) /\ Len(more.segmentObjects) = first + m /\ first \in Nat
        /\ rowsBefore + Len(r.rows) = all.offsets[k + 2] /\ rowsBefore = all.offsets[k + 1]
    BY <1>7, <1>11, <1>15 DEF m
  <2>2. Slice(all.labels, all.offsets[k + 1], all.offsets[k + 2]) = r.rows
    BY <1>16, <2>1
  <2>3. {s \in (first + 1)..Len(all.segmentObjects) : all.segmentObjects[s] < all.offsets[k + 2]}
            = (first + 1)..(first + m)
    BY <1>17, <2>1
  <2> QED BY <1>13, <1>14, <1>18, <2>1, <2>2, <2>3 DEF HeldAt
<1> QED BY <1>19 DEF all, less, more, r, first

-----------------------------------------------------------------------------
(* Unpacking *)

LEMMA SameBefore ==
    ASSUME NEW S, NEW s \in Seq(Seq(S)), NEW T, NEW t \in Seq(Seq(T)), Len(s) = Len(t),
           \A b \in 1..Len(s) : Len(s[b]) = Len(t[b]), NEW c \in 1..(Len(s) + 1)
    PROVE  BeforeSeq(s, c) = BeforeSeq(t, c)
<1> DEFINE N == Len(s)
<1> DEFINE U == {n \in Nat : n <= N => BeforeSeq(s, n + 1) = BeforeSeq(t, n + 1)}
<1>0. N \in Nat
  OBVIOUS
<1>1. 0 \in U
  <2>1. BeforeSeq(s, 1) = 0 /\ BeforeSeq(t, 1) = 0
    BY BeforeFirst
  <2> QED BY <2>1
<1>2. ASSUME NEW n \in Nat, n \in U PROVE n + 1 \in U
  <2> SUFFICES ASSUME n + 1 <= N PROVE BeforeSeq(s, (n + 1) + 1) = BeforeSeq(t, (n + 1) + 1)
    OBVIOUS
  <2> DEFINE b == n + 1
  <2>1. b \in 1..Len(s) /\ b \in 1..Len(t) /\ n <= N
    BY <1>0
  <2>2. BeforeSeq(s, b) = BeforeSeq(t, b)
    BY <1>2, <2>1
  <2> HIDE DEF b
  <2>3. BeforeSeq(s, b + 1) = BeforeSeq(s, b) + Len(s[b])
    BY <2>1, PartOf
  <2>4. BeforeSeq(t, b + 1) = BeforeSeq(t, b) + Len(t[b])
    BY <2>1, PartOf
  <2>5. BeforeSeq(s, b + 1) = BeforeSeq(t, b + 1)
    BY <2>1, <2>2, <2>3, <2>4
  <2> QED BY <2>5 DEF b
<1>3. PICK n \in Nat : c = n + 1 /\ n <= N
  <2>1. c - 1 \in Nat /\ c = (c - 1) + 1 /\ c - 1 <= N
    BY <1>0
  <2> QED BY <2>1
<1> HIDE DEF U
<1>4. n \in U
  BY <1>1, <1>2, Totals!Induct
<1> QED BY <1>3, <1>4 DEF U

LEMMA BeforeIsNat ==
    ASSUME NEW S, NEW s \in Seq(Seq(S)), NEW c \in 1..(Len(s) + 1)
    PROVE  BeforeSeq(s, c) \in Nat
<1>1. CASE c = 1
  BY <1>1, BeforeFirst
<1>2. CASE c # 1
  <2>1. PICK b \in 1..Len(s) : c = b + 1
    <3>1. c - 1 \in 1..Len(s) /\ c = (c - 1) + 1
      BY <1>2
    <3> QED BY <3>1
  <2>2. /\ BeforeSeq(s, b) \in Nat /\ Len(s[b]) \in Nat
        /\ BeforeSeq(s, b + 1) = BeforeSeq(s, b) + Len(s[b])
    BY PartOf
  <2> QED BY <2>1, <2>2
<1> QED BY <1>1, <1>2

LEMMA BeforeGrows ==
    ASSUME NEW S, NEW s \in Seq(Seq(S)), NEW b \in 1..(Len(s) + 1), NEW c \in b..(Len(s) + 1)
    PROVE  BeforeSeq(s, b) <= BeforeSeq(s, c)
<1> DEFINE N == Len(s)
<1> DEFINE U == {n \in Nat : b + n <= N + 1 => BeforeSeq(s, b) <= BeforeSeq(s, b + n)}
<1>0. N \in Nat /\ b \in Nat /\ c - b \in Nat /\ b + (c - b) = c /\ b + (c - b) <= N + 1 /\ b + 0 = b
  OBVIOUS
<1>1. 0 \in U
  <2>1. BeforeSeq(s, b) \in Nat
    BY BeforeIsNat
  <2>2. BeforeSeq(s, b) <= BeforeSeq(s, b + 0)
    BY <1>0, <2>1
  <2> QED BY <2>2
<1>2. ASSUME NEW n \in Nat, n \in U PROVE n + 1 \in U
  <2> SUFFICES ASSUME b + (n + 1) <= N + 1 PROVE BeforeSeq(s, b) <= BeforeSeq(s, b + (n + 1))
    OBVIOUS
  <2> DEFINE i == b + n
  <2>1. i \in 1..Len(s) /\ i + 1 = b + (n + 1) /\ i <= N + 1 /\ i \in 1..(Len(s) + 1)
    BY <1>0
  <2>2. BeforeSeq(s, b) <= BeforeSeq(s, i)
    BY <1>2, <2>1
  <2> HIDE DEF i
  <2>3. /\ BeforeSeq(s, i) \in Nat /\ Len(s[i]) \in Nat
        /\ BeforeSeq(s, i + 1) = BeforeSeq(s, i) + Len(s[i])
    BY <2>1, PartOf
  <2>4. BeforeSeq(s, b) \in Nat
    BY BeforeIsNat
  <2>5. BeforeSeq(s, b) <= BeforeSeq(s, i + 1)
    BY <2>2, <2>3, <2>4
  <2> QED BY <2>1, <2>5
<1> HIDE DEF U
<1>3. c - b \in U
  BY <1>0, <1>1, <1>2, Totals!Induct
<1> QED BY <1>0, <1>3 DEF U

\* Every element of what some sequences join to is an element of one of them.
LEMMA LocateElement ==
    ASSUME NEW S, NEW s \in Seq(Seq(S)), NEW e \in 1..Len(FlattenSeq(s))
    PROVE  \E b \in 1..Len(s) : \E j \in 1..Len(s[b]) : e = BeforeSeq(s, b) + j
<1> DEFINE N == Len(s)
<1> DEFINE Found(x) == \E b \in 1..Len(s) : \E j \in 1..Len(s[b]) : x = BeforeSeq(s, b) + j
<1> DEFINE U == {n \in Nat : n <= N => \A x \in 1..BeforeSeq(s, n + 1) : Found(x)}
<1>0. N \in Nat
  OBVIOUS
<1>1. 0 \in U
  <2>1. BeforeSeq(s, 1) = 0
    BY BeforeFirst
  <2>2. \A x \in 1..0 : FALSE
    OBVIOUS
  <2>3. \A x \in 1..BeforeSeq(s, 0 + 1) : FALSE
    BY <2>1, <2>2
  <2> HIDE DEF Found
  <2> QED BY <2>3
<1>2. ASSUME NEW n \in Nat, n \in U PROVE n + 1 \in U
  <2> SUFFICES ASSUME n + 1 <= N, NEW x \in 1..BeforeSeq(s, (n + 1) + 1) PROVE Found(x)
    OBVIOUS
  <2> DEFINE b == n + 1
  <2>1. b \in 1..Len(s) /\ n <= N
    BY <1>0
  <2>2. \A y \in 1..BeforeSeq(s, b) : Found(y)
    BY <1>2, <2>1
  <2>3. x \in 1..BeforeSeq(s, b + 1)
    OBVIOUS
  <2> HIDE DEF b
  <2>4. /\ BeforeSeq(s, b) \in Nat /\ Len(s[b]) \in Nat
        /\ BeforeSeq(s, b + 1) = BeforeSeq(s, b) + Len(s[b])
    BY <2>1, PartOf
  <2>5. CASE x <= BeforeSeq(s, b)
    <3>1. x \in 1..BeforeSeq(s, b)
      BY <2>3, <2>4, <2>5
    <3> HIDE DEF Found
    <3> QED BY <2>2, <3>1
  <2>6. CASE ~(x <= BeforeSeq(s, b))
    <3>1. x - BeforeSeq(s, b) \in 1..Len(s[b]) /\ x = BeforeSeq(s, b) + (x - BeforeSeq(s, b))
      BY <2>3, <2>4, <2>6, SMTT(30)
    <3> QED BY <2>1, <3>1
  <2> QED BY <2>5, <2>6
<1> HIDE DEF U
<1>3. N \in U
  BY <1>0, <1>1, <1>2, Totals!Induct
<1>4. \A x \in 1..BeforeSeq(s, N + 1) : Found(x)
  BY <1>0, <1>3 DEF U
<1> QED BY <1>4, BeforeLast

\* The segments of a result name the rows they belong to (segment_objects).
ObjectsOf(rows, segments) ==
    [b \in DOMAIN segments |-> [j \in DOMAIN segments[b] |-> Offsets(rows)[b] + j - 1]]

LEMMA FunctionIsSeq ==
    ASSUME NEW S, NEW n \in Nat, NEW f \in [1..n -> S] PROVE f \in Seq(S) /\ Len(f) = n
  OBVIOUS

LEMMA Within ==
    ASSUME NEW a \in Nat, NEW m \in Nat, NEW n \in Nat, m <= n, NEW j \in 1..m, NEW x,
           x = a + j - 1
    PROVE  a <= x /\ x < a + n /\ x \in Nat
  OBVIOUS

LEMMA Inside ==
    ASSUME NEW a \in Nat, NEW m \in Nat, NEW l \in Nat, a + m <= l, NEW j \in 1..m
    PROVE  a + j \in 1..l /\ a + j \in 1..(l + 1) /\ (a + j) + 1 \in 1..(l + 1)
  OBVIOUS

LEMMA Apart ==
    ASSUME NEW a \in Nat, NEW b \in Nat, NEW c \in Nat, NEW d \in Nat, NEW x \in Nat,
           a <= x, x < b, c <= x, x < d
    PROVE  ~(b <= c) /\ ~(d <= a)
  OBVIOUS

\* The objects with a polygon, source by source.
LEMMA ObjectsAre ==
    ASSUME NEW rows \in Seq(Seq(Row)), NEW segments \in Seq(Seq(Seq(Point))),
           Len(segments) = Len(rows)
    PROVE  LET o == ObjectsOf(rows, segments)
           IN  /\ o \in Seq(Seq(Nat)) /\ Len(o) = Len(rows)
               /\ \A b \in 1..Len(rows) : Len(o[b]) = Len(segments[b])
               /\ \A b \in 1..Len(rows) : \A j \in 1..Len(segments[b]) :
                     o[b][j] = Offsets(rows)[b] + j - 1
<1> DEFINE offsets == Offsets(rows)
           o == ObjectsOf(rows, segments)
           N == Len(rows)
<1>1. /\ N \in Nat /\ DOMAIN segments = 1..N
      /\ \A b \in 1..N : b \in 1..(N + 1) /\ Len(segments[b]) \in Nat
                         /\ DOMAIN segments[b] = 1..Len(segments[b])
  OBVIOUS
<1>2. \A b \in 1..(N + 1) : offsets[b] \in Nat
  BY OffsetsAre, BeforeIsNat
<1>3. o = [b \in 1..N |-> [j \in 1..Len(segments[b]) |-> offsets[b] + j - 1]]
  BY <1>1 DEF ObjectsOf
<1> HIDE DEF offsets, o
<1>4. ASSUME NEW b \in 1..N
      PROVE  /\ o[b] = [j \in 1..Len(segments[b]) |-> offsets[b] + j - 1]
             /\ o[b] \in Seq(Nat) /\ Len(o[b]) = Len(segments[b])
  <2>1. o[b] = [j \in 1..Len(segments[b]) |-> offsets[b] + j - 1]
    BY <1>3
  <2>2. offsets[b] \in Nat /\ Len(segments[b]) \in Nat
    BY <1>1, <1>2
  <2>3. ASSUME NEW j \in 1..Len(segments[b]) PROVE offsets[b] + j - 1 \in Nat
    <3> DEFINE a == offsets[b]
               l == Len(segments[b])
    <3>1. a \in Nat /\ l \in Nat /\ j \in 1..l
      BY <2>2
    <3> HIDE DEF a, l
    <3>2. a + j - 1 \in Nat
      BY ONLY <3>1
    <3> QED BY <3>2 DEF a
  <2> QED BY <2>1, <2>2, <2>3
<1>5. o \in [1..N -> Seq(Nat)]
  BY <1>3, <1>4
<1>6. o \in Seq(Seq(Nat)) /\ Len(o) = N
  BY <1>1, <1>5, FunctionIsSeq
<1> QED BY <1>4, <1>6 DEF o, offsets

\* The rows and the segments of the k-th source are found again.
LEMMA UnpackOne ==
    ASSUME NEW rows \in Seq(Seq(Row)), NEW segments \in Seq(Seq(Seq(Point))),
           Len(segments) = Len(rows), \A b \in 1..Len(rows) : Len(segments[b]) <= Len(rows[b]),
           NEW k \in 1..Len(rows)
    PROVE  LET offsets == Offsets(rows)
               points == FlattenSeq(segments)
               objects == FlattenSeq(ObjectsOf(rows, segments))
               mine == InOrder({s \in DOMAIN objects :
                                   offsets[k] <= objects[s] /\ objects[s] < offsets[k + 1]})
           IN  /\ Slice(FlattenSeq(rows), offsets[k], offsets[k + 1]) = rows[k]
               /\ mine \in Seq(Nat) /\ Len(mine) = Len(segments[k])
               /\ \A j \in 1..Len(segments[k]) :
                     Slice(FlattenSeq(points), Offsets(points)[mine[j]], Offsets(points)[mine[j] + 1])
                         = segments[k][j]
<1> DEFINE offsets == Offsets(rows)
<1> DEFINE points == FlattenSeq(segments)
<1> DEFINE o == ObjectsOf(rows, segments)
<1> DEFINE objects == FlattenSeq(o)
<1> DEFINE N == Len(rows)
<1> DEFINE own == {s \in DOMAIN objects : offsets[k] <= objects[s] /\ objects[s] < offsets[k + 1]}
<1> DEFINE first == BeforeSeq(segments, k)
<1> DEFINE m == Len(segments[k])
<1>1. /\ N \in Nat /\ DOMAIN segments = 1..N /\ k \in 1..(N + 1) /\ k + 1 \in 1..(N + 1)
      /\ \A b \in 1..N : b \in 1..(N + 1) /\ b + 1 \in 1..(N + 1) /\ Len(segments[b]) \in Nat
                         /\ Len(rows[b]) \in Nat /\ DOMAIN segments[b] = 1..Len(segments[b])
  OBVIOUS
<1>2. \A b \in 1..(N + 1) : offsets[b] = BeforeSeq(rows, b) /\ offsets[b] \in Nat
  BY OffsetsAre, BeforeIsNat
<1>3. \A b \in 1..N : offsets[b + 1] = offsets[b] + Len(rows[b])
  BY <1>1, <1>2, PartOf, ZenonT(30)
<1>4. /\ o \in Seq(Seq(Nat)) /\ Len(o) = N
      /\ \A b \in 1..N : Len(o[b]) = Len(segments[b])
      /\ \A b \in 1..N : \A j \in 1..Len(segments[b]) : o[b][j] = offsets[b] + j - 1
  BY ObjectsAre
<1>5. points \in Seq(Seq(Point)) /\ first \in Nat /\ m \in Nat /\ objects \in Seq(Nat)
  <2> HIDE DEF o
  <2> QED BY <1>1, <1>4, FlattenIsSeq, BeforeIsNat
<1> HIDE DEF o
<1>6. \A b \in 1..(N + 1) : BeforeSeq(o, b) = BeforeSeq(segments, b)
  <2> SUFFICES ASSUME NEW b \in 1..(N + 1) PROVE BeforeSeq(o, b) = BeforeSeq(segments, b)
    OBVIOUS
  <2>1. /\ o \in Seq(Seq(Nat)) /\ segments \in Seq(Seq(Seq(Point))) /\ Len(o) = Len(segments)
        /\ \A c \in 1..Len(o) : Len(o[c]) = Len(segments[c])
        /\ b \in 1..(Len(o) + 1)
    BY <1>4
  <2> QED BY <2>1, SameBefore, Zenon
<1>7. Slice(FlattenSeq(rows), offsets[k], offsets[k + 1]) = rows[k]
  BY <1>1, <1>2, PartSlice
<1>8. \A b \in 1..N : \A j \in 1..Len(segments[b]) :
          /\ BeforeSeq(segments, b) + j \in DOMAIN objects
          /\ objects[BeforeSeq(segments, b) + j] = offsets[b] + j - 1
  <2> SUFFICES ASSUME NEW b \in 1..N, NEW j \in 1..Len(segments[b])
               PROVE  /\ BeforeSeq(segments, b) + j \in DOMAIN objects
                      /\ objects[BeforeSeq(segments, b) + j] = offsets[b] + j - 1
    OBVIOUS
  <2>1. b \in 1..Len(o)
    BY <1>4
  <2>2. /\ BeforeSeq(o, b) \in Nat /\ BeforeSeq(o, b + 1) = BeforeSeq(o, b) + Len(o[b])
        /\ BeforeSeq(o, b + 1) <= Len(objects)
        /\ \A l \in 1..Len(o[b]) : objects[BeforeSeq(o, b) + l] = o[b][l]
    BY <1>4, <2>1, PartOf
  <2>3. BeforeSeq(segments, b) = BeforeSeq(o, b) /\ Len(o[b]) = Len(segments[b])
        /\ o[b][j] = offsets[b] + j - 1
    BY <1>1, <1>4, <1>6
  <2>4. Len(objects) \in Nat /\ DOMAIN objects = 1..Len(objects)
    BY <1>5
  <2> HIDE DEF objects, offsets
  <2>5. BeforeSeq(segments, b) + j \in 1..Len(objects)
    <3>1. /\ BeforeSeq(segments, b) \in Nat /\ Len(segments[b]) \in Nat
          /\ BeforeSeq(segments, b) + Len(segments[b]) <= Len(objects)
      BY <1>1, <2>2, <2>3
    <3> QED BY <2>4, <3>1, Inside, Zenon
  <2> QED BY <2>2, <2>3, <2>4, <2>5
<1>9. \A s \in own : \E j \in 1..m : s = first + j
  <2> SUFFICES ASSUME NEW s \in own PROVE \E j \in 1..m : s = first + j
    OBVIOUS
  <2>1. s \in 1..Len(FlattenSeq(o))
    BY <1>5, SMTT(30)
  <2>2. PICK b \in 1..Len(o) : \E j \in 1..Len(o[b]) : s = BeforeSeq(o, b) + j
    BY <1>4, <2>1, LocateElement
  <2>3. PICK j \in 1..Len(o[b]) : s = BeforeSeq(o, b) + j
    BY <2>2
  <2>4. b \in 1..N /\ j \in 1..Len(segments[b]) /\ s = BeforeSeq(segments, b) + j
    BY <1>1, <1>4, <1>6, <2>3
  <2>5. objects[s] = offsets[b] + j - 1
    BY <1>8, <2>4
  <2>6. offsets[b] <= objects[s] /\ objects[s] < offsets[b + 1]
    <3> HIDE DEF offsets, objects
    <3>1. offsets[b] \in Nat /\ offsets[b + 1] = offsets[b] + Len(rows[b])
      BY <1>1, <1>2, <1>3, <2>4
    <3>2. /\ Len(segments[b]) \in Nat /\ Len(rows[b]) \in Nat /\ Len(segments[b]) <= Len(rows[b])
          /\ j \in 1..Len(segments[b])
      BY <1>1, <2>4
    <3>3. offsets[b] <= objects[s] /\ objects[s] < offsets[b] + Len(rows[b])
      BY <2>5, <3>1, <3>2, Within, Zenon
    <3> QED BY <3>1, <3>3
  <2>7. offsets[k] <= objects[s] /\ objects[s] < offsets[k + 1]
    OBVIOUS
  <2>8. offsets[b] \in Nat /\ offsets[b + 1] \in Nat /\ offsets[k] \in Nat /\ offsets[k + 1] \in Nat
        /\ objects[s] \in Nat
    <3>1. objects[s] \in Nat
      <4>1. s \in DOMAIN objects /\ objects \in Seq(Nat)
        BY <1>5
      <4> HIDE DEF objects
      <4>2. s \in 1..Len(objects)
        BY ONLY <4>1, LenProperties
      <4> QED BY ONLY <4>1, <4>2, ElementOfSeq
    <3> HIDE DEF offsets, objects
    <3> QED BY <1>1, <1>2, <2>4, <3>1
  <2>9. ASSUME b < k PROVE FALSE
    <3>1. b + 1 \in 1..(N + 1) /\ k \in (b + 1)..(N + 1)
      BY <1>1, <2>4, <2>9
    <3>2. BeforeSeq(rows, b + 1) <= BeforeSeq(rows, k)
      BY <3>1, BeforeGrows
    <3>3. offsets[b + 1] <= offsets[k]
      BY <1>1, <1>2, <2>4, <3>2
    <3> HIDE DEF offsets, objects
    <3> QED BY <2>6, <2>7, <2>8, <3>3, Apart, Zenon
  <2>10. ASSUME k < b PROVE FALSE
    <3>1. k + 1 \in 1..(N + 1) /\ b \in (k + 1)..(N + 1)
      BY <1>1, <2>4, <2>10
    <3>2. BeforeSeq(rows, k + 1) <= BeforeSeq(rows, b)
      BY <3>1, BeforeGrows
    <3>3. offsets[k + 1] <= offsets[b]
      BY <1>1, <1>2, <2>4, <3>2
    <3> HIDE DEF offsets, objects
    <3> QED BY <2>6, <2>7, <2>8, <3>3, Apart, Zenon
  <2>11. b = k
    <3>1. ~(b < k) /\ ~(k < b)
      BY <2>9, <2>10
    <3>2. b \in Nat /\ k \in Nat
      BY <2>4
    <3> HIDE DEF own
    <3> QED BY <3>1, <3>2
  <2> QED BY <2>4, <2>11
<1>10. \A j \in 1..m : first + j \in own
  <2> SUFFICES ASSUME NEW j \in 1..m PROVE first + j \in own
    OBVIOUS
  <2>1. first + j \in DOMAIN objects /\ objects[first + j] = offsets[k] + j - 1
    BY <1>8
  <2>2. offsets[k] \in Nat /\ offsets[k + 1] = offsets[k] + Len(rows[k]) /\ m <= Len(rows[k])
        /\ Len(rows[k]) \in Nat
    BY <1>1, <1>2, <1>3
  <2>3. offsets[k] <= objects[first + j] /\ objects[first + j] < offsets[k + 1]
    <3> HIDE DEF offsets, objects, first, m
    <3> QED BY <1>5, <2>1, <2>2, Within, Zenon
  <2> QED BY <2>1, <2>3
<1> DEFINE mine == [j \in 1..m |-> first + j]
<1>11. InOrder(own) = mine
  <2>1. own \subseteq Int
    BY <1>5
  <2> HIDE DEF own, first, m
  <2>2. mine \in [1..m -> own]
    BY <1>10
  <2>3. \A s \in own : \E j \in 1..m : mine[j] = s
    BY <1>9
  <2>4. \A i, j \in 1..m : i < j => mine[i] < mine[j]
    BY <1>5
  <2> HIDE DEF mine
  <2> QED BY <1>5, <2>1, <2>2, <2>3, <2>4, InOrderUnique
<1>12. mine \in Seq(Nat) /\ Len(mine) = m
  <2> HIDE DEF first, m
  <2>1. \A j \in 1..m : first + j \in Nat
    BY <1>5
  <2> QED BY <1>5, <2>1
<1>13. ASSUME NEW j \in 1..m
       PROVE  Slice(FlattenSeq(points), Offsets(points)[mine[j]], Offsets(points)[mine[j] + 1])
                 = segments[k][j]
  <2>1. /\ first + m <= Len(points) /\ points[first + j] = segments[k][j]
    <3>1. k \in 1..Len(segments)
      OBVIOUS
    <3>2. /\ BeforeSeq(segments, k + 1) = BeforeSeq(segments, k) + Len(segments[k])
          /\ BeforeSeq(segments, k + 1) <= Len(FlattenSeq(segments))
          /\ \A l \in 1..Len(segments[k]) :
                 FlattenSeq(segments)[BeforeSeq(segments, k) + l] = segments[k][l]
      BY <3>1, PartOf
    <3> QED BY <3>2
  <2>2. mine[j] = first + j
    OBVIOUS
  <2> HIDE DEF first, m, mine
  <2>3. first + j \in 1..Len(points) /\ first + j \in 1..(Len(points) + 1)
        /\ (first + j) + 1 \in 1..(Len(points) + 1)
    <3>1. Len(points) \in Nat
      BY <1>5
    <3> HIDE DEF points
    <3> QED BY <1>5, <2>1, <3>1, Inside, Zenon
  <2> DEFINE i == first + j
  <2>4. i \in 1..Len(points) /\ i \in 1..(Len(points) + 1) /\ i + 1 \in 1..(Len(points) + 1)
    BY <2>3
  <2>5. points[i] = segments[k][j] /\ mine[j] = i
    BY <2>1, <2>2
  <2> HIDE DEF i, points
  <2>6. Offsets(points)[i] = BeforeSeq(points, i) /\ Offsets(points)[i + 1] = BeforeSeq(points, i + 1)
    BY <1>5, <2>4, OffsetsAre
  <2>7. Slice(FlattenSeq(points), BeforeSeq(points, i), BeforeSeq(points, i + 1)) = points[i]
    BY <1>5, <2>4, PartSlice
  <2> QED BY <2>5, <2>6, <2>7
<1> QED BY <1>7, <1>11, <1>12, <1>13 DEF o

-----------------------------------------------------------------------------
(* The records of the reference *)

LEMMA VerdictIs ==
    ASSUME NEW f \in File, NEW single
    PROVE  LET v == Verify(f, single)
           IN  /\ v.rows \in Seq(Row) /\ v.segments \in Seq(Seq(Point))
               /\ Len(v.segments) <= Len(v.rows) /\ Len(v.segments) \in Nat /\ Len(v.rows) \in Nat
               /\ v = Verdict(v.ok, v.rows, v.segments, v.missing, v.empty, v.duplicates)
<1>0. <<>> \in Seq(Row) /\ <<>> \in Seq(Seq(Point)) /\ Len(<<>>) = 0
  OBVIOUS
<1>9. ASSUME NEW v, NEW ok, NEW missing, NEW empty, NEW duplicates,
             v = Verdict(ok, <<>>, <<>>, missing, empty, duplicates)
      PROVE  /\ v.rows \in Seq(Row) /\ v.segments \in Seq(Seq(Point))
             /\ Len(v.segments) <= Len(v.rows) /\ Len(v.segments) \in Nat /\ Len(v.rows) \in Nat
             /\ v = Verdict(v.ok, v.rows, v.segments, v.missing, v.empty, v.duplicates)
  <2>1. /\ v.rows = <<>> /\ v.segments = <<>> /\ v.ok = ok /\ v.missing = missing
        /\ v.empty = empty /\ v.duplicates = duplicates
    BY <1>9 DEF Verdict
  <2>2. v = Verdict(v.ok, v.rows, v.segments, v.missing, v.empty, v.duplicates)
    BY <1>9, <2>1
  <2> QED BY <1>0, <2>1, <2>2
<1>1. CASE f = Missing
  <2>1. Verify(f, single) = Verdict(TRUE, <<>>, <<>>, 1, 0, 0)
    BY <1>1, VerifyMissing
  <2> QED BY ONLY <1>9, <2>1, Zenon
<1>2. CASE f = TextFile(<<>>)
  <2>1. Verify(f, single) = Verdict(TRUE, <<>>, <<>>, 0, 1, 0)
    BY <1>2, VerifyEmpty
  <2> QED BY ONLY <1>9, <2>1, Zenon
<1>3. ASSUME NEW t \in Seq(Seq(Token)), t # <<>>, f = TextFile(t)
      PROVE  LET v == Verify(f, single)
             IN  /\ v.rows \in Seq(Row) /\ v.segments \in Seq(Seq(Point))
                 /\ Len(v.segments) <= Len(v.rows) /\ Len(v.segments) \in Nat /\ Len(v.rows) \in Nat
                 /\ v = Verdict(v.ok, v.rows, v.segments, v.missing, v.empty, v.duplicates)
  <2> DEFINE v == Verify(TextFile(t), single)
  <2>1. CASE ~v.ok /\ v = Verdict(FALSE, <<>>, <<>>, 0, 0, 0)
    BY <1>3, <1>9, <2>1
  <2>2. CASE /\ v.ok /\ v = Verdict(TRUE, v.rows, v.segments, 0, 0, v.duplicates)
             /\ Readable(t, HasPolygons(t)) /\ Chose(v.rows, v.segments, v.duplicates, t)
    <3>1. /\ v.rows \in Seq(Row) /\ v.segments \in Seq(Seq(Point))
          /\ Len(v.segments) = 0 \/ Len(v.segments) = Len(v.rows)
      BY <2>2, ChoseTypes
    <3> HIDE DEF v
    <3>2. v.ok = TRUE /\ v.missing = 0 /\ v.empty = 0
      BY <2>2 DEF Verdict
    <3>3. v = Verdict(v.ok, v.rows, v.segments, v.missing, v.empty, v.duplicates)
      BY <2>2, <3>2
    <3>4. Len(v.segments) \in Nat /\ Len(v.rows) \in Nat
      BY <3>1
    <3> QED BY <1>3, <3>1, <3>3, <3>4 DEF v
  <2> QED BY <1>3, <2>1, <2>2, VerifyIs
<1> QED BY <1>1, <1>2, <1>3 DEF File

\* What the engine reads without the reference.
LEMMA NativeOf ==
    ASSUME NEW f \in File, ParseOf(f).status # Reference
    PROVE  LET v == Verify(f, config.single)
           IN  v.ok /\ v.rows = ParseOf(f).rows /\ v.segments = ParseOf(f).segments
<1>1. CASE f = Missing
  <2>1. ParseOf(f) = Record(NoFile)
    BY <1>1 DEF ParseOf, Missing
  <2> QED BY <1>1, <2>1, VerifyMissing DEF Verdict, Record
<1>2. ASSUME NEW t \in Seq(Seq(Token)), f = TextFile(t)
      PROVE  LET v == Verify(f, config.single)
             IN  v.ok /\ v.rows = ParseOf(f).rows /\ v.segments = ParseOf(f).segments
  <2>1. ParseOf(f) = Parse(t, config.single)
    BY <1>2 DEF ParseOf, TextFile
  <2> QED BY <1>2, <2>1, NativeAgrees
<1> QED BY <1>1, <1>2 DEF File

Shapes == {ShapeOf[c] : c \in DOMAIN ShapeOf}

\* The sources up to n that survive, by what their files hold.
Survivors(images, labels, single, n) ==
    {i \in 1..n : images[i] \in DOMAIN ShapeOf /\ Verify(labels[i], single).ok}

\* The lists of the result are those of the survivors up to n.
Lists(m, kept, images, labels, single) ==
    /\ m.sources = kept /\ m.shapes \in Seq(Shapes) /\ m.rows \in Seq(Seq(Row))
    /\ m.segments \in Seq(Seq(Seq(Point)))
    /\ Len(m.shapes) = Len(kept) /\ Len(m.rows) = Len(kept) /\ Len(m.segments) = Len(kept)
    /\ \A k \in 1..Len(kept) :
          /\ m.shapes[k] = ShapeOf[images[kept[k]]]
          /\ m.rows[k] = Verify(labels[kept[k]], single).rows
          /\ m.segments[k] = Verify(labels[kept[k]], single).segments

MergedFrom(m, images, labels, single, n) ==
    Lists(m, InOrder(Survivors(images, labels, single, n)), images, labels, single)

LEMMA SurvivorsAre ==
    ASSUME NEW images, NEW labels, NEW single, NEW n \in Nat
    PROVE  LET S == Survivors(images, labels, single, n)
           IN  /\ S \subseteq Int /\ IsFiniteSet(S) /\ \A i \in S : i \in 1..n
               /\ InOrder(S) \in Seq(S) /\ Len(InOrder(S)) = Cardinality(S) /\ Len(InOrder(S)) \in Nat
<1> DEFINE S == Survivors(images, labels, single, n)
<1>1. S \subseteq 1..n
  BY DEF Survivors
<1>2. IsFiniteSet(S) /\ S \subseteq Int /\ \A y \in S : y < n + 1
  <2>1. IsFiniteSet(1..n)
    BY FS_Interval
  <2> QED BY <1>1, <2>1, FS_Subset
<1> HIDE DEF S
<1>3. InOrder(S) \in Seq(S) /\ Len(InOrder(S)) = Cardinality(S)
  <2>1. n + 1 \in Int
    OBVIOUS
  <2> QED BY <1>2, <2>1, InOrderAppend
<1>4. Len(InOrder(S)) \in Nat
  BY <1>3
<1> QED BY <1>1, <1>2, <1>3, <1>4 DEF S

LEMMA MergedAtStart ==
    ASSUME NEW images, NEW labels, NEW single PROVE MergedFrom(Start, images, labels, single, 0)
<1>1. Survivors(images, labels, single, 0) = {}
  BY DEF Survivors
<1>2. InOrder({}) = <<>> /\ Len(<<>>) = 0 /\ 1..0 = {}
  BY InOrderEmpty
<1> QED BY <1>1, <1>2 DEF MergedFrom, Lists, Start

\* The lists depend on nothing but the contents up to n.
LEMMA MergedSame ==
    ASSUME NEW m, NEW images, NEW labels, NEW single, NEW n \in Nat,
           MergedFrom(m, images, labels, single, n), NEW images2, NEW labels2,
           \A i \in 1..n : images2[i] = images[i] /\ labels2[i] = labels[i]
    PROVE  MergedFrom(m, images2, labels2, single, n)
<1> DEFINE S == Survivors(images, labels, single, n)
<1>1. Survivors(images2, labels2, single, n) = S
  BY DEF Survivors
<1>2. /\ \A i \in S : i \in 1..n
      /\ InOrder(S) \in Seq(S)
  BY SurvivorsAre
<1> HIDE DEF S
<1>3. \A k \in 1..Len(InOrder(S)) : InOrder(S)[k] \in 1..n
  BY <1>2
<1>4. \A k \in 1..Len(InOrder(S)) : /\ images2[InOrder(S)[k]] = images[InOrder(S)[k]]
                                    /\ labels2[InOrder(S)[k]] = labels[InOrder(S)[k]]
  BY <1>3
<1>5. MergedFrom(m, images, labels, single, n) = Lists(m, InOrder(S), images, labels, single)
      /\ MergedFrom(m, images2, labels2, single, n) = Lists(m, InOrder(S), images2, labels2, single)
  BY <1>1 DEF MergedFrom, S
<1> DEFINE kept == InOrder(S)
<1> HIDE DEF kept
<1>6. Lists(m, kept, images, labels, single)
  BY <1>5 DEF kept
<1>7. \A k \in 1..Len(kept) : images2[kept[k]] = images[kept[k]] /\ labels2[kept[k]] = labels[kept[k]]
  BY <1>4 DEF kept
<1>8. Lists(m, kept, images2, labels2, single)
  <2>1. /\ m.sources = kept /\ m.shapes \in Seq(Shapes) /\ m.rows \in Seq(Seq(Row))
        /\ m.segments \in Seq(Seq(Seq(Point)))
        /\ Len(m.shapes) = Len(kept) /\ Len(m.rows) = Len(kept) /\ Len(m.segments) = Len(kept)
    BY <1>6, Zenon DEF Lists
  <2>2. ASSUME NEW k \in 1..Len(kept)
        PROVE  /\ m.shapes[k] = ShapeOf[images2[kept[k]]]
               /\ m.rows[k] = Verify(labels2[kept[k]], single).rows
               /\ m.segments[k] = Verify(labels2[kept[k]], single).segments
    <3>1. /\ m.shapes[k] = ShapeOf[images[kept[k]]]
          /\ m.rows[k] = Verify(labels[kept[k]], single).rows
          /\ m.segments[k] = Verify(labels[kept[k]], single).segments
      BY <1>6, Zenon DEF Lists
    <3> QED BY <1>7, <3>1
  <2> QED BY <2>1, <2>2, Zenon DEF Lists
<1> QED BY <1>5, <1>8 DEF kept

LEMMA MergedNot ==
    ASSUME NEW m, NEW images, NEW labels, NEW single, NEW n \in Nat,
           MergedFrom(m, images, labels, single, n),
           ~(images[n + 1] \in DOMAIN ShapeOf /\ Verify(labels[n + 1], single).ok),
           NEW m2, m2.sources = m.sources, m2.shapes = m.shapes, m2.rows = m.rows,
           m2.segments = m.segments
    PROVE  MergedFrom(m2, images, labels, single, n + 1)
<1>1. Survivors(images, labels, single, n + 1) = Survivors(images, labels, single, n)
  <2>1. \A i : i \in 1..(n + 1) <=> i \in 1..n \/ i = n + 1
    OBVIOUS
  <2> QED BY <2>1 DEF Survivors
<1> QED BY <1>1 DEF MergedFrom, Lists

LEMMA MergedOneMore ==
    ASSUME NEW m, NEW images, NEW labels, NEW single, NEW n \in Nat,
           MergedFrom(m, images, labels, single, n),
           images[n + 1] \in DOMAIN ShapeOf, labels[n + 1] \in File, Verify(labels[n + 1], single).ok,
           NEW m2, m2.sources = Append(m.sources, n + 1),
           m2.shapes = Append(m.shapes, ShapeOf[images[n + 1]]),
           m2.rows = Append(m.rows, Verify(labels[n + 1], single).rows),
           m2.segments = Append(m.segments, Verify(labels[n + 1], single).segments)
    PROVE  MergedFrom(m2, images, labels, single, n + 1)
<1> DEFINE S == Survivors(images, labels, single, n)
<1> DEFINE v == Verify(labels[n + 1], single)
<1> DEFINE shp == ShapeOf[images[n + 1]]
<1> DEFINE old == InOrder(S)
<1> DEFINE len == Len(old)
<1>1. Survivors(images, labels, single, n + 1) = S \cup {n + 1}
  <2>1. \A i : i \in 1..(n + 1) <=> i \in 1..n \/ i = n + 1
    OBVIOUS
  <2> QED BY <2>1 DEF Survivors
<1>2. S \subseteq Int /\ IsFiniteSet(S) /\ (\A i \in S : i \in 1..n) /\ old \in Seq(S) /\ len \in Nat
  BY SurvivorsAre
<1>3. v.rows \in Seq(Row) /\ v.segments \in Seq(Seq(Point)) /\ shp \in Shapes
  BY VerdictIs DEF Shapes
<1>4. /\ m.sources = old /\ m.shapes \in Seq(Shapes) /\ m.rows \in Seq(Seq(Row))
      /\ m.segments \in Seq(Seq(Seq(Point)))
      /\ Len(m.shapes) = len /\ Len(m.rows) = len /\ Len(m.segments) = len
      /\ \A k \in 1..len : /\ m.shapes[k] = ShapeOf[images[old[k]]]
                           /\ m.rows[k] = Verify(labels[old[k]], single).rows
                           /\ m.segments[k] = Verify(labels[old[k]], single).segments
  BY DEF MergedFrom, Lists
<1>5. m2.shapes = Append(m.shapes, shp) /\ m2.rows = Append(m.rows, v.rows)
      /\ m2.segments = Append(m.segments, v.segments)
  OBVIOUS
<1> HIDE DEF S, v, shp
<1>6. InOrder(S \cup {n + 1}) = Append(old, n + 1)
  <2>1. n + 1 \in Int /\ \A y \in S : y < n + 1
    BY <1>2
  <2> QED BY <1>2, <2>1, InOrderAppend
<1> HIDE DEF old, len
<1>7. /\ m2.shapes \in Seq(Shapes) /\ m2.rows \in Seq(Seq(Row)) /\ m2.segments \in Seq(Seq(Seq(Point)))
  <2>1. m2.shapes \in Seq(Shapes)
    BY <1>3, <1>4, <1>5
  <2>2. m2.rows \in Seq(Seq(Row))
    BY <1>3, <1>4, <1>5
  <2>3. m2.segments \in Seq(Seq(Seq(Point)))
    BY <1>3, <1>4, <1>5
  <2> QED BY <2>1, <2>2, <2>3
<1>8. /\ Len(m2.shapes) = len + 1 /\ m2.shapes[len + 1] = shp
      /\ \A k \in 1..len : m2.shapes[k] = m.shapes[k]
  <2> DEFINE before == m.shapes
             after == m2.shapes
             last == shp
  <2>1. /\ before \in Seq(Shapes) /\ last \in Shapes /\ len \in Nat /\ Len(before) = len
        /\ after = Append(before, last)
    BY <1>2, <1>3, <1>4, <1>5
  <2> HIDE DEF before, after, last
  <2>2. Len(after) = len + 1 /\ after[len + 1] = last /\ \A k \in 1..len : after[k] = before[k]
    BY ONLY <2>1, Appended
  <2> QED BY <2>2 DEF before, after, last
<1>9. /\ Len(m2.rows) = len + 1 /\ m2.rows[len + 1] = v.rows
      /\ \A k \in 1..len : m2.rows[k] = m.rows[k]
  <2> DEFINE before == m.rows
             after == m2.rows
             last == v.rows
  <2>1. /\ before \in Seq(Seq(Row)) /\ last \in Seq(Row) /\ len \in Nat /\ Len(before) = len
        /\ after = Append(before, last)
    BY <1>2, <1>3, <1>4, <1>5
  <2> HIDE DEF before, after, last
  <2>2. Len(after) = len + 1 /\ after[len + 1] = last /\ \A k \in 1..len : after[k] = before[k]
    BY ONLY <2>1, Appended
  <2> QED BY <2>2 DEF before, after, last
<1>10. /\ Len(m2.segments) = len + 1 /\ m2.segments[len + 1] = v.segments
       /\ \A k \in 1..len : m2.segments[k] = m.segments[k]
  <2> DEFINE before == m.segments
             after == m2.segments
             last == v.segments
             T == Seq(Seq(Point))
  <2>1. /\ before \in Seq(T) /\ last \in T /\ len \in Nat /\ Len(before) = len
        /\ after = Append(before, last)
    BY <1>2, <1>3, <1>4, <1>5
  <2> HIDE DEF before, after, last, T
  <2>2. Len(after) = len + 1 /\ after[len + 1] = last /\ \A k \in 1..len : after[k] = before[k]
    BY ONLY <2>1, Appended
  <2> QED BY <2>2 DEF before, after, last
<1>11. /\ Len(Append(old, n + 1)) = len + 1 /\ Append(old, n + 1)[len + 1] = n + 1
       /\ \A k \in 1..len : Append(old, n + 1)[k] = old[k]
  <2>1. n + 1 \in Int /\ Len(old) = len
    BY DEF len
  <2>2. old \in Seq(Int)
    <3>1. old \in [1..len -> S]
      BY <1>2, <2>1, LenProperties
    <3>2. old \in [1..len -> Int]
      BY <1>2, <3>1
    <3> QED BY <1>2, <3>2, FunctionIsSeq
  <2>3. len \in Nat
    BY <1>2
  <2> DEFINE after == Append(old, n + 1)
             last == n + 1
  <2>4. last \in Int /\ after = Append(old, last)
    BY <2>1
  <2> HIDE DEF after, last
  <2>5. Len(after) = len + 1 /\ after[len + 1] = last /\ \A k \in 1..len : after[k] = old[k]
    BY ONLY <2>1, <2>2, <2>3, <2>4, Appended
  <2> QED BY <2>5 DEF after, last
<1> DEFINE new == Append(old, n + 1)
<1>14. Len(new) = len + 1 /\ new[len + 1] = n + 1 /\ \A k \in 1..len : new[k] = old[k]
  BY <1>11
<1>13. m2.sources = new
  BY <1>4
<1> HIDE DEF new
<1>12. ASSUME NEW k \in 1..(len + 1)
       PROVE  /\ m2.shapes[k] = ShapeOf[images[new[k]]]
              /\ m2.rows[k] = Verify(labels[new[k]], single).rows
              /\ m2.segments[k] = Verify(labels[new[k]], single).segments
  <2>0. k = len + 1 \/ k \in 1..len
    BY <1>2
  <2>1. CASE k = len + 1
    <3>1. new[k] = n + 1 /\ m2.shapes[k] = shp /\ m2.rows[k] = v.rows /\ m2.segments[k] = v.segments
      BY <1>8, <1>9, <1>10, <1>14, <2>1
    <3> QED BY <3>1 DEF v, shp
  <2>2. CASE k \in 1..len
    <3>1. /\ new[k] = old[k] /\ m2.shapes[k] = m.shapes[k] /\ m2.rows[k] = m.rows[k]
          /\ m2.segments[k] = m.segments[k]
      BY <1>8, <1>9, <1>10, <1>14, <2>2
    <3> QED BY <1>4, <2>2, <3>1
  <2> QED BY <2>0, <2>1, <2>2
<1>15. Lists(m2, new, images, labels, single)
  BY <1>7, <1>8, <1>9, <1>10, <1>12, <1>13, <1>14 DEF Lists
<1>16. new = InOrder(Survivors(images, labels, single, n + 1))
  BY <1>1, <1>6 DEF new
<1> QED BY <1>15, <1>16 DEF MergedFrom

-----------------------------------------------------------------------------
(* The merge loop *)

\* A member of a finite set of numbers stands after those below it.
LEMMA PlaceOf ==
    ASSUME NEW V, V \subseteq Int, IsFiniteSet(V), NEW x \in V, NEW p,
           p = Cardinality({y \in V : y < x})
    PROVE  p \in Nat /\ p + 1 <= Cardinality(V) /\ p + 1 \in 1..Cardinality(V) /\ InOrder(V)[p + 1] = x
<1> DEFINE n == Cardinality(V)
           s == InOrder(V)
<1>1. /\ n \in Nat /\ s \in [1..n -> V] /\ (\A y \in V : \E i \in 1..n : s[i] = y)
      /\ \A i, j \in 1..n : i < j => s[i] < s[j]
  BY InOrderIs
<1>2. IsOrder(V, Ascending(V))
  BY AscendingIsOrder
<1>3. Enumerates(s, n, V, Ascending(V))
  <2> HIDE DEF s, n
  <2> QED BY <1>1 DEF Enumerates, Ascending
<1>4. PICK i \in 1..n : s[i] = x
  BY <1>1
<1> HIDE DEF s, n
<1>5. Rank(V, Ascending(V), s[i]) = i - 1
  BY <1>1, <1>2, <1>3, RankOfPlace
<1>6. {y \in V : <<y, s[i]>> \in Ascending(V)} = {y \in V : y < x}
  BY <1>4 DEF Ascending
<1>7. p = i - 1
  BY <1>5, <1>6 DEF Rank
<1>8. p + 1 = i /\ p \in Nat /\ i <= n
  BY <1>1, <1>7
<1> QED BY <1>4, <1>8 DEF s, n

\* One number further, there is one more below it or none.
LEMMA BelowNext ==
    ASSUME NEW V, V \subseteq Int, IsFiniteSet(V), NEW x \in Int
    PROVE  /\ x \notin V => {y \in V : y < x + 1} = {y \in V : y < x}
           /\ x \in V => Cardinality({y \in V : y < x + 1}) = Cardinality({y \in V : y < x}) + 1
<1> DEFINE B == {y \in V : y < x}
<1>1. IsFiniteSet(B) /\ x \notin B
  <2>1. B \subseteq V
    OBVIOUS
  <2> QED BY <2>1, FS_Subset
<1>4. \A y \in V : y \in Int /\ (y < x + 1 <=> y < x \/ y = x) /\ ~(x < x)
  OBVIOUS
<1>2. CASE x \notin V
  <2>1. \A y \in V : y < x + 1 <=> y < x
    BY <1>2, <1>4
  <2> QED BY <1>2, <2>1
<1>3. CASE x \in V
  <2>1. {y \in V : y < x + 1} = B \cup {x}
    <3>1. \A y : y \in {z \in V : z < x + 1} <=> y \in B \cup {x}
      BY <1>3, <1>4
    <3> QED BY <3>1
  <2> HIDE DEF B
  <2>2. Cardinality(B \cup {x}) = Cardinality(B) + 1
    BY <1>1, FS_AddElement
  <2> QED BY <1>3, <2>1, <2>2 DEF B
<1> QED BY <1>2, <1>3

\* The records of some sources.
RecordsOf(c, valid) == [k \in DOMAIN valid |-> c[valid[k]].record]
ChunkRecords == RecordsOf(captured, InOrder(ValidIn(Chunk)))
Past(i) == {j \in ValidIn(Chunk) : j < i}

PairedInv == \A i \in Source : Paired(captured[i].record)

\* The arrays are those of the chunk's records, and the loop is where the records of
\* the sources before its own end (PackedLabels::extend, the merge of scan).
MergeInv ==
    pc = "merge" =>
        /\ packed = Packing(ChunkRecords, Cardinality(ValidIn(Chunk)))
        /\ position = Cardinality(Past(source))
        /\ segmentIndex = Len(Packing(ChunkRecords, position).segmentObjects)

LEMMA ValidAre ==
    ASSUME Types
    PROVE  /\ ValidIn(Chunk) \subseteq Source /\ ValidIn(Chunk) \subseteq Chunk
           /\ ValidIn(Chunk) \subseteq Int /\ IsFiniteSet(ValidIn(Chunk))
           /\ Cardinality(ValidIn(Chunk)) \in Nat
           /\ DOMAIN InOrder(ValidIn(Chunk)) = 1..Cardinality(ValidIn(Chunk))
           /\ \A k \in 1..Cardinality(ValidIn(Chunk)) : InOrder(ValidIn(Chunk))[k] \in ValidIn(Chunk)
<1>1. Chunk \subseteq Source /\ Chunk \subseteq Nat /\ start \in Nat /\ Stop \in Nat
  BY StopIs DEF Types
<1>2. ValidIn(Chunk) \subseteq Chunk
  BY DEF ValidIn
<1>3. IsFiniteSet(Chunk)
  BY <1>1, FS_Interval DEF Chunk
<1>4. IsFiniteSet(ValidIn(Chunk)) /\ ValidIn(Chunk) \subseteq Int
  <2>1. Chunk \subseteq Int
    BY <1>1
  <2> HIDE DEF Chunk
  <2> QED BY <1>2, <1>3, <2>1, FS_Subset
<1> QED BY <1>1, <1>2, <1>4, InOrderIs

LEMMA RecordsAre ==
    ASSUME Types, PairedInv
    PROVE  /\ Records(ChunkRecords, Cardinality(ValidIn(Chunk)))
           /\ \A k \in 1..Cardinality(ValidIn(Chunk)) :
                 ChunkRecords[k] = captured[InOrder(ValidIn(Chunk))[k]].record
           /\ ChunkRecords = [k \in 1..Cardinality(ValidIn(Chunk)) |-> ChunkRecords[k]]
<1> DEFINE V == ValidIn(Chunk)
           n == Cardinality(V)
           s == InOrder(V)
<1>1. V \subseteq Source /\ DOMAIN s = 1..n /\ \A k \in 1..n : s[k] \in V
  BY ValidAre
<1>2. ChunkRecords = RecordsOf(captured, s)
  BY DEF ChunkRecords
<1> HIDE DEF V, n, s
<1>3. ChunkRecords = [k \in 1..n |-> captured[s[k]].record]
  BY <1>1, <1>2 DEF RecordsOf
<1>4. \A k \in 1..n : captured[s[k]].record \in RecordType /\ Paired(captured[s[k]].record)
  BY <1>1, CaptureIs DEF Types, PairedInv
<1>5. Records(ChunkRecords, n)
  BY <1>3, <1>4 DEF Records
<1> QED BY <1>3, <1>5 DEF V, n, s

\* Where the merge loop stands: what it reads of the arrays is the record of its
\* own source.
LEMMA CurrentIs ==
    ASSUME Types, PairedInv, MergeInv, ToMerge
    PROVE  LET r == captured[source].record
           IN  /\ position \in Nat /\ r \in RecordType /\ Paired(r)
               /\ Status = r.status /\ packed.duplicates[position + 1] = r.duplicates
               /\ NativeRows = r.rows /\ NativeSegments = r.segments
               /\ SegmentsBefore(End) = Len(Packing(ChunkRecords, position + 1).segmentObjects)
<1> DEFINE V == ValidIn(Chunk)
           n == Cardinality(V)
           r == captured[source].record
           c == ChunkRecords
           q == Packing(c, n)
           first == Len(Packing(c, position).segmentObjects)
           begin == q.offsets[position + 1]
           end == q.offsets[position + 2]
<1>1. source \in V /\ pc = "merge" /\ source \in Source
  <2>1. source \in Chunk
    BY StopIs DEF ToMerge, Types
  <2> QED BY <2>1, ValidAre DEF ToMerge, ValidIn
<1>2. V \subseteq Int /\ IsFiniteSet(V) /\ n \in Nat
  BY ValidAre
<1>3. position = Cardinality({y \in V : y < source})
  BY <1>1 DEF MergeInv, Past
<1>4. position \in Nat /\ position + 1 <= n /\ position + 1 \in 1..n /\ InOrder(V)[position + 1] = source
  <2> HIDE DEF V
  <2> QED BY <1>1, <1>2, <1>3, PlaceOf
<1>5. Records(c, n) /\ c[position + 1] = r
  BY <1>4, RecordsAre
<1>6. packed = q /\ segmentIndex = first
  BY <1>1 DEF MergeInv
<1>7. r \in RecordType /\ Paired(r)
  BY <1>4, <1>5 DEF Records
<1> HIDE DEF V, n, r, c
<1>8. /\ q.statuses[position + 1] = r.status /\ q.duplicates[position + 1] = r.duplicates
      /\ Slice(q.labels, begin, end) = r.rows
      /\ first \in Nat /\ Len(Packing(c, position + 1).segmentObjects) = first + Len(r.segments)
      /\ {s \in (first + 1)..Len(q.segmentObjects) : q.segmentObjects[s] < end}
            = (first + 1)..(first + Len(r.segments))
      /\ \A j \in 1..Len(r.segments) :
            Slice(q.points, q.segmentOffsets[first + j], q.segmentOffsets[first + j + 1])
                = r.segments[j]
  <2>1. /\ n \in Nat /\ position \in Nat /\ position + 1 <= n /\ Records(c, n)
        /\ c[position + 1] = r
    BY <1>2, <1>4, <1>5
  <2> HIDE DEF q, first, begin, end
  <2>2. HeldAt(Packing(c, n), Len(Packing(c, position).segmentObjects),
             Len(Packing(c, position + 1).segmentObjects), position, c[position + 1])
    BY ONLY <2>1, PackingHolds
  <2>3. HeldAt(q, first, Len(Packing(c, position + 1).segmentObjects), position, r)
    BY <2>1, <2>2 DEF q, first
  <2> QED BY <2>3 DEF HeldAt, begin, end
<1>9. Begin = begin /\ End = end
  BY <1>6 DEF Begin, End
<1>10. SegmentsBefore(End) = first + Cardinality({s \in (first + 1)..Len(q.segmentObjects) :
                                                      q.segmentObjects[s] < end})
  BY <1>6, <1>9 DEF SegmentsBefore
<1>11. r.segments \in Seq(Seq(Point)) /\ Len(r.segments) \in Nat
  BY <1>7, RecordParts
<1> HIDE DEF q, first, begin, end
<1>12. SegmentsBefore(End) = first + Len(r.segments)
  BY <1>8, <1>10, <1>11, StretchIs
<1>13. SegmentsBefore(End) - segmentIndex = Len(r.segments)
  BY <1>6, <1>8, <1>11, <1>12
<1>14. NativeSegments = [j \in 1..Len(r.segments) |-> r.segments[j]]
  <2>1. NativeSegments = [j \in 1..Len(r.segments) |->
            Slice(packed.points, packed.segmentOffsets[segmentIndex + j],
                  packed.segmentOffsets[segmentIndex + j + 1])]
    BY <1>13 DEF NativeSegments
  <2> QED BY <1>6, <1>8, <2>1
<1>15. NativeSegments = r.segments
  BY <1>11, <1>14, LenProperties
<1>16. NativeRows = r.rows /\ Status = r.status /\ packed.duplicates[position + 1] = r.duplicates
  BY <1>6, <1>8, <1>9 DEF NativeRows, Status
<1> QED BY <1>4, <1>7, <1>8, <1>12, <1>15, <1>16 DEF r, c

\* The parts of the state that the arrays depend on.
LEMMA SameRecords ==
    ASSUME config' = config, start' = start, shape' = shape, captured' = captured
    PROVE  /\ ChunkRecords' = ChunkRecords /\ ValidIn(Chunk)' = ValidIn(Chunk)
           /\ (\A i : source' = i => Past(source)' = Past(i))
<1>1. Chunk' = Chunk
  BY SameConfig
<1> QED BY <1>1 DEF ChunkRecords, ValidIn, Past, RecordsOf, InOrder, Ordered

LEMMA MergeStep == ASSUME Types, PairedInv, MergeInv, [Next]_vars PROVE MergeInv'
<1> DEFINE V == ValidIn(Chunk)
<1>1. ASSUME pc' # "merge" PROVE MergeInv'
  BY <1>1 DEF MergeInv
<1>2. ASSUME pc' = pc, UNCHANGED <<config, start, shape, captured, packed, loop>> PROVE MergeInv'
  <2>1. ChunkRecords' = ChunkRecords /\ V' = V /\ Past(source)' = Past(source)
    BY <1>2, SameRecords DEF loop
  <2> QED BY <1>2, <2>1 DEF MergeInv, loop
<1>3. CASE UNCHANGED vars
  BY <1>2, <1>3 DEF vars
<1>4. CASE PackChunk
  <2>1. /\ config' = config /\ start' = start /\ shape' = shape /\ captured' = captured
        /\ packed' = FoldLeft(Extend, EmptyPack, ChunkRecords)
        /\ source' = start /\ position' = 0 /\ segmentIndex' = 0
    BY <1>4 DEF PackChunk, ChunkRecords, RecordsOf
  <2>2. ChunkRecords' = ChunkRecords /\ V' = V /\ Past(source)' = Past(start)
    BY <2>1, SameRecords
  <2>3. packed' = Packing(ChunkRecords, Cardinality(V))
    BY <2>1, RecordsAre, Zenon DEF Packing
  <2>4. Past(start) = {}
    BY StopIs DEF Past, ValidIn, Types
  <2>5. Cardinality(Past(start)) = 0
    BY <2>4, FS_EmptySet
  <2>6. Packing(ChunkRecords, 0).segmentObjects = <<>> /\ Len(<<>>) = 0
    BY PackingStarts DEF EmptyPack
  <2> QED BY <2>1, <2>2, <2>3, <2>5, <2>6 DEF MergeInv
<1>5. ASSUME pc = "merge", source <= Stop, Advance,
             \/ shape[source] = NoShape /\ UNCHANGED <<position, segmentIndex>>
             \/ ToMerge /\ position' = position + 1 /\ segmentIndex' = SegmentsBefore(End)
      PROVE  MergeInv'
  <2>1. /\ config' = config /\ start' = start /\ shape' = shape /\ captured' = captured
        /\ packed' = packed /\ source' = source + 1
    BY <1>5 DEF Advance
  <2>2. ChunkRecords' = ChunkRecords /\ V' = V /\ Past(source)' = Past(source + 1)
    BY <2>1, SameRecords
  <2>3. source \in Int /\ V \subseteq Int /\ IsFiniteSet(V)
    BY ValidAre DEF Types
  <2>4. Past(source) = {y \in V : y < source} /\ Past(source + 1) = {y \in V : y < source + 1}
    BY DEF Past
  <2>5. CASE shape[source] = NoShape /\ UNCHANGED <<position, segmentIndex>>
    <3>1. source \notin V
      BY <2>5 DEF ValidIn
    <3>2. Past(source + 1) = Past(source)
      <4> HIDE DEF V
      <4> QED BY <2>3, <2>4, <3>1, BelowNext
    <3> QED BY <1>5, <2>1, <2>2, <2>5, <3>2 DEF MergeInv
  <2>6. CASE ToMerge /\ position' = position + 1 /\ segmentIndex' = SegmentsBefore(End)
    <3>1. source \in V
      BY <1>5, <2>6, StopIs DEF ToMerge, Types, ValidIn
    <3>2. Cardinality(Past(source + 1)) = Cardinality(Past(source)) + 1
      <4>1. source \in V => Cardinality({y \in V : y < source + 1})
                                = Cardinality({y \in V : y < source}) + 1
        <5> HIDE DEF V
        <5> QED BY ONLY <2>3, BelowNext
      <4> QED BY <2>4, <3>1, <4>1, Zenon
    <3>3. segmentIndex' = Len(Packing(ChunkRecords, position + 1).segmentObjects)
      BY <2>6, CurrentIs
    <3> QED BY <1>5, <2>1, <2>2, <2>6, <3>2, <3>3 DEF MergeInv
  <2> QED BY <1>5, <2>5, <2>6
<1>6. CASE SkipInvalid
  BY <1>5, <1>6 DEF SkipInvalid
<1>7. CASE MergeNative \/ MergeReference
  BY <1>5, <1>7 DEF MergeNative, MergeReference, ToMerge
<1>8. CASE BeginLabels \/ CapturedAll \/ MergeTooLarge \/ NextChunk
  BY <1>1, <1>8 DEF BeginLabels, CapturedAll, MergeTooLarge, NextChunk, Fail
<1>9. ASSUME NEW i \in Source, VerifyImage(i) \/ CaptureLabel(i) \/ FingerprintInvalid(i) \/ ParseFile(i)
      PROVE  MergeInv'
  BY <1>1, <1>9 DEF VerifyImage, CaptureLabel, FingerprintInvalid, ParseFile, Fail, ParseInstead
<1>10. \A i \in Source : \A x : WriteImage(i, x) \/ WriteLabel(i, x) => MergeInv'
  BY <1>2 DEF WriteImage, WriteLabel, Change
<1> QED BY <1>3, <1>4, <1>6, <1>7, <1>8, <1>9, <1>10 DEF Next

LEMMA PairedStep == ASSUME Types, PairedInv, [Next]_vars PROVE PairedInv'
<1>0. Paired(Unread.record)
  BY DEF Unread, Record, Paired
<1>1. ASSUME captured' = captured, config' = config PROVE PairedInv'
  BY <1>1, SameConfig DEF PairedInv
<1>2. ASSUME captured' = NoneRead, config' = config PROVE PairedInv'
  BY <1>0, <1>2, SameConfig DEF PairedInv, NoneRead
<1>3. ASSUME NEW i \in Source, NEW c, captured' = [captured EXCEPT ![i] = c], Paired(c.record),
             config' = config
      PROVE  PairedInv'
  BY <1>3, SameConfig DEF PairedInv, Types
<1>4. CASE UNCHANGED vars
  BY <1>1, <1>4 DEF vars
<1>5. ASSUME NEW i \in Source, VerifyImage(i) PROVE PairedInv'
  BY <1>1, <1>5 DEF VerifyImage, Fail
<1>6. ASSUME NEW i \in Source, CaptureLabel(i) PROVE PairedInv'
  <2>1. Paired(Read(label[i]).record)
    BY ParseOfType DEF Read, Types
  <2>2. config' = config
    BY <1>6 DEF CaptureLabel
  <2>3. CASE CaptureOne(i)
    BY <1>3, <2>1, <2>2, <2>3 DEF CaptureOne
  <2>4. CASE ParseInstead \/ Fail
    BY <1>1, <1>2, <2>2, <2>4 DEF ParseInstead, Fail
  <2> QED BY <1>6, <2>3, <2>4, CaptureLabelIs
<1>7. ASSUME NEW i \in Source, FingerprintInvalid(i) PROVE PairedInv'
  <2>1. config' = config
    BY <1>7 DEF FingerprintInvalid
  <2>2. CASE FingerprintOne(i)
    <3> DEFINE c == [captured[i] EXCEPT !.file = Seen(label[i])]
    <3>1. captured[i] \in Capture /\ Paired(captured[i].record)
      BY DEF Types, PairedInv
    <3>2. Paired(c.record)
      BY <3>1 DEF Capture
    <3>3. captured' = [captured EXCEPT ![i] = c]
      BY <2>2 DEF FingerprintOne
    <3> HIDE DEF c
    <3> QED BY <1>3, <2>1, <3>2, <3>3
  <2>3. CASE FingerprintNone
    BY <1>0, <2>1, <2>3, SameConfig DEF FingerprintNone, PairedInv
  <2>4. CASE Fail
    BY <1>1, <2>1, <2>4 DEF Fail
  <2> QED BY <1>7, <2>2, <2>3, <2>4, FingerprintIs
<1>8. ASSUME NEW i \in Source, ParseFile(i) PROVE PairedInv'
  <2>1. PICK record \in Parsed(label[i]) : captured' = [captured EXCEPT ![i].record = record]
    BY <1>8, ParseFileIs
  <2>2. Paired(record)
    <3>1. label[i] \in File
      BY DEF Types
    <3> QED BY <2>1, <3>1, ParseOfType DEF Parsed, Record, Paired
  <2> DEFINE c == [captured[i] EXCEPT !.record = record]
  <2>3. Paired(c.record)
    BY <2>2 DEF Types, Capture
  <2>4. captured' = [captured EXCEPT ![i] = c] /\ config' = config
    BY <1>8, <2>1, ParseFileIs
  <2> HIDE DEF c
  <2> QED BY <1>3, <2>3, <2>4
<1>9. CASE BeginLabels
  BY <1>2, <1>9 DEF BeginLabels
<1>10. CASE CapturedAll \/ PackChunk \/ MergeTooLarge \/ NextChunk
  BY <1>1, <1>10 DEF CapturedAll, PackChunk, MergeTooLarge, NextChunk, Fail
<1>11. CASE SkipInvalid \/ MergeNative \/ MergeReference
  BY <1>1, <1>11 DEF SkipInvalid, MergeNative, MergeReference, ToMerge, Advance
<1>12. \A i \in Source : \A x : WriteImage(i, x) \/ WriteLabel(i, x) => PairedInv'
  BY <1>1 DEF WriteImage, WriteLabel, Change
<1> QED BY <1>4, <1>5, <1>6, <1>7, <1>8, <1>9, <1>10, <1>11, <1>12 DEF Next

-----------------------------------------------------------------------------
(* The lists of the result *)

Fields == {"sources", "shapes", "rows", "segments", "diagnostics", "fallbacks", "found", "missing",
           "empty", "corrupt"}
IsMerged(m) == m = [f \in Fields |-> m[f]]

SameLists(m, m2) ==
    /\ m2.sources = m.sources /\ m2.shapes = m.shapes
    /\ m2.rows = m.rows /\ m2.segments = m.segments

Adds(m, m2, i, shp, rows, segments) ==
    /\ m2.sources = Append(m.sources, i) /\ m2.shapes = Append(m.shapes, shp)
    /\ m2.rows = Append(m.rows, rows) /\ m2.segments = Append(m.segments, segments)

LEMMA DiagnoseIs ==
    ASSUME NEW m, IsMerged(m), NEW code
    PROVE  IsMerged(Diagnose(m, code)) /\ SameLists(m, Diagnose(m, code))
<1> DEFINE d == [m EXCEPT !.diagnostics = Append(@, <<source, code>>)]
<1>1. DOMAIN m = Fields
  BY DEF IsMerged
<1>2. \A f \in Fields : f # "diagnostics" => d[f] = m[f]
  BY <1>1
<1>3. d = [f \in Fields |-> d[f]]
  BY <1>1
<1>4. Diagnose(m, code) = d
  BY DEF Diagnose
<1> HIDE DEF d
<1> QED BY <1>2, <1>3, <1>4 DEF SameLists, IsMerged, Fields

LEMMA CountedIs ==
    ASSUME NEW m, IsMerged(m), NEW v PROVE IsMerged(Counted(m, v)) /\ SameLists(m, Counted(m, v))
<1> DEFINE d == [m EXCEPT !.missing = @ + v.missing, !.found = @ + 1 - v.missing,
                          !.empty = @ + v.empty, !.corrupt = @ + (IF v.ok THEN 0 ELSE 1),
                          !.fallbacks = @ + 1]
<1>1. DOMAIN m = Fields
  BY DEF IsMerged
<1>2. \A f \in {"sources", "shapes", "rows", "segments"} : d[f] = m[f]
  BY <1>1 DEF Fields
<1>3. d = [f \in Fields |-> d[f]]
  BY <1>1
<1>4. Counted(m, v) = d
  BY DEF Counted
<1> HIDE DEF d
<1> QED BY <1>2, <1>3, <1>4 DEF SameLists, IsMerged

LEMMA KeepIs ==
    ASSUME NEW m, IsMerged(m), NEW rows, NEW segments
    PROVE  /\ IsMerged(Keep(m, rows, segments))
           /\ Adds(m, Keep(m, rows, segments), source, shape[source], rows, segments)
<1> DEFINE d == [m EXCEPT !.sources = Append(@, source), !.shapes = Append(@, shape[source]),
                          !.rows = Append(@, rows), !.segments = Append(@, segments)]
<1>1. DOMAIN m = Fields
  BY DEF IsMerged
<1>2. /\ d.sources = Append(m.sources, source) /\ d.shapes = Append(m.shapes, shape[source])
      /\ d.rows = Append(m.rows, rows) /\ d.segments = Append(m.segments, segments)
  BY <1>1 DEF Fields
<1>3. d = [f \in Fields |-> d[f]]
  BY <1>1
<1>4. Keep(m, rows, segments) = d
  BY DEF Keep
<1> HIDE DEF d
<1> QED BY <1>2, <1>3, <1>4 DEF Adds, IsMerged

LEMMA KeepAfter ==
    ASSUME NEW m, NEW m2, IsMerged(m2), SameLists(m, m2), NEW rows, NEW segments
    PROVE  /\ IsMerged(Keep(m2, rows, segments))
           /\ Adds(m, Keep(m2, rows, segments), source, shape[source], rows, segments)
<1> DEFINE d == Keep(m2, rows, segments)
<1>1. IsMerged(d) /\ Adds(m2, d, source, shape[source], rows, segments)
  BY KeepIs
<1> HIDE DEF d
<1> QED BY <1>1 DEF SameLists, Adds, d

\* What a step of the merge does to the lists.
Step == SkipInvalid \/ MergeNative \/ MergeReference

MergeDoes ==
    \/ shape[source] = NoShape /\ SameLists(merged, merged')
    \/ /\ shape[source] # NoShape /\ captured[source].record.status \notin {Reference, TooLarge}
       /\ Adds(merged, merged', source, shape[source], captured[source].record.rows,
               captured[source].record.segments)
    \/ /\ shape[source] # NoShape /\ captured[source].record.status = Reference
       /\ LET v == Verify(ReferenceInput(source), config.single)
          IN  \/ v.ok /\ Adds(merged, merged', source, shape[source], v.rows, v.segments)
              \/ ~v.ok /\ SameLists(merged, merged')
              \/ captured[source].data = Nothing /\ Fault /\ SameLists(merged, merged')

LEMMA MergeDoesSo ==
    ASSUME Types, PairedInv, MergeInv, IsMerged(merged), Step
    PROVE  /\ IsMerged(merged') /\ MergeDoes
           /\ pc = "merge" /\ source <= Stop /\ source' = source + 1 /\ pc' = pc
           /\ config' = config /\ image' = image /\ label' = label /\ start' = start
           /\ imageProof' = imageProof /\ labelProof' = labelProof
<1>1. CASE SkipInvalid
  <2> DEFINE m == [merged EXCEPT !.corrupt = @ + 1]
  <2>1. IsMerged(m) /\ SameLists(merged, m)
    <3>1. DOMAIN merged = Fields
      BY DEF IsMerged
    <3>2. \A f \in {"sources", "shapes", "rows", "segments"} : m[f] = merged[f]
      BY <3>1 DEF Fields
    <3>3. m = [f \in Fields |-> m[f]]
      BY <3>1
    <3> HIDE DEF m
    <3> QED BY <3>2, <3>3 DEF SameLists, IsMerged
  <2>2. merged' = Diagnose(m, "corrupt_image")
    BY <1>1 DEF SkipInvalid
  <2> HIDE DEF m
  <2>3. IsMerged(merged') /\ SameLists(merged, merged')
    BY <2>1, <2>2, DiagnoseIs DEF SameLists
  <2> QED BY <1>1, <2>3 DEF SkipInvalid, MergeDoes, Advance, dataset, proofs
<1>2. CASE MergeNative
  <2> DEFINE m == [merged EXCEPT !.missing = @ + (IF Status = NoFile THEN 1 ELSE 0),
                                 !.found = @ + (IF Status = NoFile THEN 0 ELSE 1),
                                 !.empty = @ + (IF Status = Empty THEN 1 ELSE 0)]
             noted == IF packed.duplicates[position + 1] = 0 THEN m ELSE Diagnose(m, "duplicate")
  <2>1. IsMerged(m) /\ SameLists(merged, m)
    <3>1. DOMAIN merged = Fields
      BY DEF IsMerged
    <3>2. \A f \in {"sources", "shapes", "rows", "segments"} : m[f] = merged[f]
      BY <3>1 DEF Fields
    <3>3. m = [f \in Fields |-> m[f]]
      BY <3>1
    <3> HIDE DEF m
    <3> QED BY <3>2, <3>3 DEF SameLists, IsMerged
  <2>2. merged' = Keep(noted, NativeRows, NativeSegments)
    BY <1>2 DEF MergeNative
  <2> HIDE DEF m
  <2>3. IsMerged(noted) /\ SameLists(merged, noted)
    BY <2>1, DiagnoseIs DEF SameLists
  <2> HIDE DEF noted
  <2>4. ToMerge /\ Status \notin {Reference, TooLarge}
    BY <1>2 DEF MergeNative
  <2>5. /\ NativeRows = captured[source].record.rows
        /\ NativeSegments = captured[source].record.segments
        /\ Status = captured[source].record.status
    BY <2>4, CurrentIs
  <2>6. /\ IsMerged(merged')
        /\ Adds(merged, merged', source, shape[source], captured[source].record.rows,
                captured[source].record.segments)
    BY <2>2, <2>3, <2>5, KeepAfter
  <2>7. MergeDoes
    BY <2>4, <2>5, <2>6 DEF MergeDoes, ToMerge
  <2> QED BY <1>2, <2>4, <2>6, <2>7 DEF MergeNative, ToMerge, Advance, dataset, proofs
<1>3. CASE MergeReference
  <2> DEFINE v == Verify(ReferenceInput(source), config.single)
             noted(w) == IF w.ok /\ w.duplicates = 0 THEN Counted(merged, w)
                         ELSE Diagnose(Counted(merged, w), "reference_label")
  <2>1. \A w : IsMerged(noted(w)) /\ SameLists(merged, noted(w))
    BY CountedIs, DiagnoseIs DEF SameLists
  <2>2. \/ v.ok /\ merged' = Keep(noted(v), v.rows, v.segments)
        \/ ~v.ok /\ merged' = noted(v)
        \/ /\ captured[source].data = Nothing /\ Fault
           /\ merged' = noted([v EXCEPT !.ok = FALSE, !.empty = 0])
    BY <1>3 DEF MergeReference
  <2>3. ToMerge /\ Status = Reference
    BY <1>3 DEF MergeReference
  <2>4. Status = captured[source].record.status
    BY <2>3, CurrentIs
  <2> HIDE DEF v, noted
  <2>5. /\ IsMerged(merged')
        /\ \/ v.ok /\ Adds(merged, merged', source, shape[source], v.rows, v.segments)
           \/ ~v.ok /\ SameLists(merged, merged')
           \/ captured[source].data = Nothing /\ Fault /\ SameLists(merged, merged')
    BY <2>1, <2>2, KeepAfter
  <2>6. MergeDoes
    BY <2>3, <2>4, <2>5 DEF MergeDoes, ToMerge, v
  <2> QED BY <1>3, <2>3, <2>5, <2>6 DEF MergeReference, ToMerge, Advance, dataset, proofs
<1> QED BY <1>1, <1>2, <1>3 DEF Step

ShapeOfSeen(c) == IF c \in DOMAIN ShapeOf THEN ShapeOf[c] ELSE NoShape

\* The lists follow some contents as long as what was read of the source was of them.
LEMMA MergeFollows ==
    ASSUME Types, MergeDoes, NEW images, NEW labels, NEW n \in Nat, source = n + 1,
           MergedFrom(merged, images, labels, config.single, n),
           shape[source] = ShapeOfSeen(images[source]), labels[source] \in File,
           shape[source] # NoShape /\ captured[source].record.status \notin {Reference, TooLarge}
               => captured[source].record = ParseOf(labels[source]),
           shape[source] # NoShape /\ captured[source].record.status = Reference
               => /\ ReferenceInput(source) = labels[source]
                  /\ captured[source].data # Nothing \/ ~Fault
    PROVE  MergedFrom(merged', images, labels, config.single, n + 1)
<1> DEFINE v == Verify(labels[n + 1], config.single)
<1>1. shape[source] = NoShape <=> images[n + 1] \notin DOMAIN ShapeOf
  BY ScanAssumption DEF ShapeOfSeen, NoShape
<1>2. shape[source] # NoShape => shape[source] = ShapeOf[images[n + 1]]
  BY <1>1 DEF ShapeOfSeen
<1>3. \/ SameLists(merged, merged') /\ ~(images[n + 1] \in DOMAIN ShapeOf /\ v.ok)
      \/ /\ Adds(merged, merged', n + 1, ShapeOf[images[n + 1]], v.rows, v.segments)
         /\ images[n + 1] \in DOMAIN ShapeOf /\ v.ok
  <2>1. CASE shape[source] = NoShape /\ SameLists(merged, merged')
    BY <1>1, <2>1
  <2>2. CASE /\ shape[source] # NoShape
             /\ captured[source].record.status \notin {Reference, TooLarge}
             /\ Adds(merged, merged', source, shape[source], captured[source].record.rows,
                     captured[source].record.segments)
    <3>1. captured[source].record = ParseOf(labels[n + 1]) /\ labels[n + 1] \in File
          /\ ParseOf(labels[n + 1]).status # Reference
      BY <2>2
    <3>2. v.ok /\ v.rows = captured[source].record.rows /\ v.segments = captured[source].record.segments
      BY <3>1, NativeOf
    <3> HIDE DEF v
    <3> QED BY <1>1, <1>2, <2>2, <3>2
  <2>3. CASE /\ shape[source] # NoShape /\ captured[source].record.status = Reference
             /\ LET w == Verify(ReferenceInput(source), config.single)
                IN  \/ w.ok /\ Adds(merged, merged', source, shape[source], w.rows, w.segments)
                    \/ ~w.ok /\ SameLists(merged, merged')
                    \/ captured[source].data = Nothing /\ Fault /\ SameLists(merged, merged')
    <3>1. Verify(ReferenceInput(source), config.single) = v
          /\ (captured[source].data # Nothing \/ ~Fault)
      BY <2>3
    <3> HIDE DEF v
    <3>2. \/ v.ok /\ Adds(merged, merged', source, shape[source], v.rows, v.segments)
          \/ ~v.ok /\ SameLists(merged, merged')
      BY <2>3, <3>1
    <3> QED BY <1>1, <1>2, <2>3, <3>2
  <2> QED BY <2>1, <2>2, <2>3 DEF MergeDoes
<1>4. CASE SameLists(merged, merged') /\ ~(images[n + 1] \in DOMAIN ShapeOf /\ v.ok)
  BY <1>4, MergedNot DEF SameLists
<1>5. CASE /\ Adds(merged, merged', n + 1, ShapeOf[images[n + 1]], v.rows, v.segments)
           /\ images[n + 1] \in DOMAIN ShapeOf /\ v.ok
  BY <1>5, MergedOneMore DEF Adds
<1> QED BY <1>3, <1>4, <1>5

-----------------------------------------------------------------------------
(* A scan of steady files *)

\* The sources the lists are about.
MergedTo == IF pc = "merge" THEN source - 1
            ELSE IF pc = "done" THEN config.sources ELSE start - 1

\* A step adds the next source to the lists, or leaves them as they are.
LEMMA MergedToIs ==
    ASSUME Types, [Next]_vars, pc' # "failed"
    PROVE  /\ MergedTo \in Nat /\ config' = config /\ pc # "failed"
           /\ \/ merged' = merged /\ MergedTo' = MergedTo
              \/ /\ Step /\ pc = "merge" /\ source \in Chunk
                 /\ source = MergedTo + 1 /\ MergedTo' = MergedTo + 1
<1>1. /\ config.sources \in Nat /\ start \in Nat /\ 1 <= start /\ Stop \in Nat /\ source \in Nat
      /\ pc = "merge" => start <= source /\ source <= Stop + 1
      /\ \A i : i \in Chunk <=> i \in Nat /\ start <= i /\ i <= Stop
  BY StopIs, ConfigIs DEF Types
<1>2. MergedTo \in Nat
  BY <1>1 DEF MergedTo
<1>3. ASSUME pc' = pc, UNCHANGED <<config, start, source, merged>>
      PROVE  MergedTo' = MergedTo /\ merged' = merged /\ config' = config
  BY <1>3 DEF MergedTo
<1>4. CASE UNCHANGED vars
  BY <1>2, <1>3, <1>4 DEF vars, loop
<1>5. CASE BeginLabels \/ CapturedAll
  BY <1>2, <1>5 DEF BeginLabels, CapturedAll, MergedTo, loop
<1>6. CASE PackChunk
  BY <1>1, <1>2, <1>6 DEF PackChunk, MergedTo
<1>7. CASE Step
  <2>1. /\ pc = "merge" /\ source <= Stop /\ source' = source + 1 /\ pc' = pc /\ config' = config
    BY <1>7 DEF Step, SkipInvalid, MergeNative, MergeReference, ToMerge, Advance
  <2>2. MergedTo = source - 1 /\ MergedTo' = (source + 1) - 1
    BY <2>1 DEF MergedTo
  <2> QED BY <1>1, <1>2, <1>7, <2>1, <2>2
<1>8. CASE MergeTooLarge
  BY <1>8 DEF MergeTooLarge, Fail
<1>9. CASE NextChunk
  <2>1. /\ pc = "merge" /\ source > Stop /\ config' = config /\ merged' = merged
        /\ \/ pc' = "done" /\ Stop = config.sources
           \/ pc' = "images" /\ start' = Stop + 1
    BY <1>9, NextChunkIs
  <2>2. MergedTo = Stop
    BY <1>1, <2>1 DEF MergedTo
  <2>3. MergedTo' = Stop
    BY <1>1, <2>1 DEF MergedTo
  <2> QED BY <1>2, <2>1, <2>2, <2>3
<1>10. ASSUME NEW i \in Source, VerifyImage(i) \/ CaptureLabel(i) \/ FingerprintInvalid(i) \/ ParseFile(i)
       PROVE  MergedTo' = MergedTo /\ merged' = merged /\ config' = config /\ pc # "failed"
  <2>1. /\ config' = config /\ start' = start /\ merged' = merged /\ pc \notin {"merge", "done", "failed"}
        /\ pc' \notin {"merge", "done", "failed"}
    BY <1>10 DEF VerifyImage, CaptureLabel, FingerprintInvalid, ParseFile, Fail, ParseInstead
  <2> QED BY <2>1 DEF MergedTo
<1>11. \A i \in Source : \A x : WriteImage(i, x) \/ WriteLabel(i, x) =>
           MergedTo' = MergedTo /\ merged' = merged /\ config' = config /\ pc # "failed"
  BY <1>3 DEF WriteImage, WriteLabel, Change, loop
<1> QED BY <1>2, <1>4, <1>5, <1>6, <1>7, <1>8, <1>9, <1>10, <1>11 DEF Next, Step

\* While nothing changes and no call fails, the lists are those of the files.
SteadyMerged ==
    writes = 0 /\ faults = 0 /\ pc # "failed" =>
        MergedFrom(merged, image, label, config.single, MergedTo)

\* What the two invariants about the lists have in common.
MergeBase == Types /\ PairedInv /\ MergeInv /\ IsMerged(merged)

LEMMA MergeBaseInit == ASSUME Init PROVE MergeBase
<1>1. Types /\ pc = "images" /\ captured = NoneRead /\ merged = Start
  BY InitTypes DEF Init
<1>2. Paired(Unread.record)
  BY DEF Unread, Record, Paired
<1>3. IsMerged(Start)
  BY DEF IsMerged, Start, Fields
<1> QED BY <1>1, <1>2, <1>3 DEF MergeBase, PairedInv, MergeInv, NoneRead

LEMMA MergeBaseStep == ASSUME MergeBase, [Next]_vars PROVE MergeBase'
<1>1. Types' /\ PairedInv' /\ MergeInv'
  BY StepTypes, PairedStep, MergeStep DEF MergeBase
<1>2. CASE Step
  <2>1. IsMerged(merged')
    BY <1>2, MergeDoesSo DEF MergeBase
  <2> QED BY <1>1, <2>1 DEF MergeBase, IsMerged
<1>3. CASE ~Step
  <2>1. merged' = merged
    BY <1>3 DEF Next, vars, Step, BeginLabels, CapturedAll, PackChunk, MergeTooLarge, NextChunk, Fail,
                VerifyImage, CaptureLabel, FingerprintInvalid, ParseFile, ParseInstead,
                WriteImage, WriteLabel, Change
  <2> QED BY <1>1, <2>1 DEF MergeBase, IsMerged
<1> QED BY <1>2, <1>3

LEMMA SteadyMergedStep ==
    ASSUME MergeBase, SteadyInv, SteadyMerged, [Next]_vars PROVE SteadyMerged'
<1> USE DEF MergeBase
<1> SUFFICES ASSUME writes' = 0, faults' = 0, pc' # "failed"
             PROVE  MergedFrom(merged, image, label, config.single, MergedTo)'
  BY DEF SteadyMerged
<1>1. /\ writes = 0 /\ faults = 0 /\ image' = image /\ label' = label /\ config' = config
      /\ pc # "failed"
  <2>1. CASE UNCHANGED vars
    BY <2>1 DEF vars, dataset
  <2> QED BY <2>1, StillSteady, MergedToIs
<1>2. MergedFrom(merged, image, label, config.single, MergedTo)
  BY <1>1 DEF SteadyMerged
<1>3. MergedFrom(merged', image, label, config.single, MergedTo')
  <2>1. CASE merged' = merged /\ MergedTo' = MergedTo
    BY <1>2, <2>1
  <2>2. CASE /\ Step /\ pc = "merge" /\ source \in Chunk
             /\ source = MergedTo + 1 /\ MergedTo' = MergedTo + 1
    <3> DEFINE c == captured[source]
    <3>1. MergeDoes /\ MergedTo \in Nat
      BY <2>2, MergeDoesSo, MergedToIs
    <3>2. /\ shape[source] = ShapeFor(source)
          /\ shape[source] # NoShape =>
                /\ c.record \in {ParseOf(label[source]), Record(TooLarge)}
                /\ c.data \in {Nothing, Seen(label[source])}
      BY <1>1, <2>2 DEF SteadyInv, Verified, Done
    <3>3. shape[source] = ShapeOfSeen(image[source])
      BY <3>2 DEF ShapeFor, ShapeOfSeen
    <3>4. label[source] \in File
      BY <2>2, StopIs DEF Types
    <3>5. Record(TooLarge).status = TooLarge /\ TooLarge # Reference
      BY DEF Record, TooLarge, Reference
    <3>6. shape[source] # NoShape /\ c.record.status # TooLarge => c.record = ParseOf(label[source])
      BY <3>2, <3>5
    <3>7. shape[source] # NoShape => ReferenceInput(source) = label[source]
      BY <3>2 DEF ReferenceInput, Seen
    <3>8. ~Fault
      BY <1>1 DEF Fault, Types
    <3> QED BY <1>2, <2>2, <3>1, <3>3, <3>4, <3>5, <3>6, <3>7, <3>8, MergeFollows
  <2> QED BY <2>1, <2>2, MergedToIs
<1> QED BY <1>1, <1>3

-----------------------------------------------------------------------------
(* A scan with fingerprints *)

\* The scan still has a fingerprint of everything it has read.
Proving == config.snapshot /\ ~unavailable /\ pc # "failed"

\* The sources whose images and labels both have their fingerprint.
ProvenTo == IF pc = "done" THEN config.sources ELSE start - 1

\* A shape is that of the fingerprinted image.
ShapeProven(shp, proof) == proof # Nothing /\ shp = ShapeOfSeen(proof.of)

\* A record, and the bytes kept for the reference, are those of the fingerprinted label.
ParseWith(file, single) == IF file.kind = "missing" THEN Record(NoFile) ELSE Parse(file.text, single)
RecordProven(c, single) ==
    /\ c.file # Nothing /\ c.record = ParseWith(c.file.of, single)
    /\ c.data = IF c.record.status = Reference THEN c.file ELSE Nothing

ProofInv ==
    Proving =>
        /\ pc # "parse"
        /\ \A i \in 1..ProvenTo : imageProof[i] # Nothing /\ labelProof[i] # Nothing
        /\ \A i \in Chunk :
              /\ Verified(i) => ShapeProven(shape[i], imageProof[i])
              /\ shape[i] # NoShape /\ Done(i) => RecordProven(captured[i], config.single)
              /\ pc = "invalid" /\ i \notin todo => captured[i].file # Nothing
              /\ pc = "invalid" /\ i \in todo => shape[i] = NoShape
              /\ pc = "merge" => labelProof[i] = captured[i].file /\ labelProof[i] # Nothing

LEMMA StillProving ==
    ASSUME Types, [Next]_vars, Proving'
    PROVE  Proving /\ config' = config /\ (Step \/ merged' = merged)
<1>1. config' = config
  BY DEF Next, vars, BeginLabels, CapturedAll, PackChunk, SkipInvalid, MergeNative, MergeReference,
         MergeTooLarge, NextChunk, Fail, VerifyImage, CaptureLabel, FingerprintInvalid, ParseFile,
         WriteImage, WriteLabel, Change, Advance
<1>2. unavailable' = unavailable \/ unavailable' = TRUE
  BY DEF Next, vars, BeginLabels, CapturedAll, PackChunk, SkipInvalid, MergeNative, MergeReference,
         MergeTooLarge, NextChunk, Fail, VerifyImage, CaptureLabel, FingerprintInvalid, ParseFile,
         ParseInstead, WriteImage, WriteLabel, Change, Advance, proofs
<1>3. pc # "failed" /\ (Step \/ merged' = merged)
  BY MergedToIs DEF Proving
<1> QED BY <1>1, <1>2, <1>3 DEF Proving

\* A step within a chunk keeps the invariant when what it reads is fingerprinted and
\* what has been read stays.
LEMMA ProofFrame ==
    ASSUME Types, ProofInv, Proving, config' = config, start' = start, pc' \notin {"parse", "done"},
           pc # "done",
           \A i \in 1..(start - 1) : imageProof'[i] = imageProof[i] /\ labelProof'[i] = labelProof[i],
           \A i \in Chunk : Verified(i)' =>
               \/ ShapeProven(shape'[i], imageProof'[i])
               \/ Verified(i) /\ shape'[i] = shape[i] /\ imageProof'[i] = imageProof[i],
           \A i \in Chunk : shape'[i] # NoShape /\ Done(i)' =>
               \/ RecordProven(captured'[i], config.single)
               \/ shape[i] # NoShape /\ Done(i) /\ captured'[i] = captured[i],
           \A i \in Chunk : pc' = "invalid" /\ i \notin todo' =>
               \/ captured'[i].file # Nothing
               \/ pc = "invalid" /\ i \notin todo /\ captured'[i] = captured[i],
           \A i \in Chunk : pc' = "invalid" /\ i \in todo' =>
               \/ shape'[i] = NoShape
               \/ pc = "invalid" /\ i \in todo /\ shape'[i] = shape[i],
           \A i \in Chunk : pc' = "merge" =>
               \/ labelProof'[i] = captured'[i].file /\ labelProof'[i] # Nothing
               \/ pc = "merge" /\ labelProof'[i] = labelProof[i] /\ captured'[i] = captured[i]
    PROVE  ProofInv'
<1>1. Chunk' = Chunk /\ ProvenTo' = start - 1 /\ ProvenTo = start - 1
  BY SameConfig DEF ProvenTo
<1>2. \A i \in 1..(start - 1) : imageProof'[i] # Nothing /\ labelProof'[i] # Nothing
  BY <1>1 DEF ProofInv
<1>3. \A i \in Chunk : Verified(i)' => ShapeProven(shape'[i], imageProof'[i])
  BY DEF ProofInv
<1>4. \A i \in Chunk : shape'[i] # NoShape /\ Done(i)' => RecordProven(captured'[i], config.single)
  BY DEF ProofInv
<1>5. \A i \in Chunk : pc' = "invalid" /\ i \notin todo' => captured'[i].file # Nothing
  BY DEF ProofInv
<1>6. \A i \in Chunk : pc' = "merge" => labelProof'[i] = captured'[i].file /\ labelProof'[i] # Nothing
  BY DEF ProofInv
<1>7. \A i \in Chunk : pc' = "invalid" /\ i \in todo' => shape'[i] = NoShape
  BY DEF ProofInv
<1> QED BY <1>1, <1>2, <1>3, <1>4, <1>5, <1>6, <1>7 DEF ProofInv

LEMMA ReadProven ==
    ASSUME NEW f \in File
    PROVE  RecordProven(Read(f), config.single) /\ Read(f).file # Nothing
BY DEF RecordProven, Read, ParseWith, ParseOf, Seen, Nothing

LEMMA ProofStep == ASSUME Types, ProofInv, [Next]_vars PROVE ProofInv'
<1> SUFFICES ASSUME Proving' PROVE ProofInv'
  BY DEF ProofInv
<1>0. Proving /\ config' = config
  BY StillProving
<1>1. /\ config.snapshot /\ ~unavailable /\ ~unavailable' /\ pc # "failed" /\ pc' # "failed"
      /\ pc # "parse" /\ ~ParseInstead /\ ~Fail
  BY <1>0 DEF Proving, ProofInv, ParseInstead, Fail
<1>2. /\ todo \subseteq Chunk /\ Chunk \subseteq Source /\ captured \in [Source -> Capture]
      /\ shape = [i \in Source |-> shape[i]] /\ imageProof = [i \in Source |-> imageProof[i]]
      /\ start \in Nat /\ Stop \in Nat
      /\ \A i : i \in Chunk <=> i \in Nat /\ start <= i /\ i <= Stop
      /\ 1..(start - 1) \subseteq Source
  <2>1. /\ start \in Nat /\ 1 <= start /\ Stop \in Nat /\ Stop <= config.sources /\ start <= Stop + 1
        /\ config.sources \in Nat
    BY StopIs, ConfigIs DEF Types
  <2>2. 1..(start - 1) \subseteq Source
    BY <2>1 DEF Source
  <2> QED BY <2>1, <2>2, StopIs DEF Types
<1>3. ASSUME UNCHANGED <<config, pc, start, todo, shape, captured, proofs>> PROVE ProofInv'
  <2>1. Chunk' = Chunk /\ ProvenTo' = ProvenTo /\ \A i : Verified(i)' = Verified(i) /\ Done(i)' = Done(i)
    BY <1>3, SameConfig DEF ProvenTo, Verified, Done
  <2> QED BY <1>0, <1>3, <2>1 DEF ProofInv, proofs
<1>4. CASE UNCHANGED vars
  BY <1>3, <1>4 DEF vars
<1>5. CASE BeginLabels
  <2>1. /\ pc' = "capture" /\ start' = start /\ shape' = shape /\ todo' = ValidIn(Chunk)
        /\ imageProof' = imageProof /\ labelProof' = labelProof /\ pc = "images" /\ todo = {}
    BY <1>1, <1>5 DEF BeginLabels, proofs
  <2>2. \A i \in Chunk : Verified(i) /\ ~(shape'[i] # NoShape /\ Done(i)')
    BY <2>1 DEF Verified, Done, ValidIn
  <2> QED BY <1>0, <2>1, <2>2, ProofFrame
<1>6. ASSUME NEW i \in Source, VerifyImage(i) PROVE ProofInv'
  <2>1. /\ pc = "images" /\ pc' = "images" /\ start' = start /\ labelProof' = labelProof
        /\ shape' = [shape EXCEPT ![i] = ShapeFor(i)] /\ todo' = todo \ {i} /\ i \in todo
        /\ imageProof' = [imageProof EXCEPT ![i] = Seen(image[i])]
    BY <1>1, <1>6 DEF VerifyImage
  <2>2. i \in Chunk /\ i \notin 1..(start - 1)
    BY <1>2, <2>1
  <2>3. ShapeProven(shape'[i], imageProof'[i])
    BY <1>2, <2>1 DEF ShapeProven, Seen, Nothing, ShapeFor, ShapeOfSeen
  <2>4. \A j \in Source : j # i => shape'[j] = shape[j] /\ imageProof'[j] = imageProof[j]
    BY <1>2, <2>1
  <2>5. \A j \in Chunk : ~Done(j)' /\ (Verified(j)' => j = i \/ Verified(j))
    BY <2>1 DEF Done, Verified
  <2>6. \A j \in 1..(start - 1) : imageProof'[j] = imageProof[j]
    BY <1>2, <2>2, <2>4
  <2> QED BY <1>0, <1>2, <2>1, <2>3, <2>4, <2>5, <2>6, ProofFrame
<1>7. ASSUME NEW i \in Source, CaptureLabel(i) PROVE ProofInv'
  <2>1. CaptureOne(i) /\ pc = "capture" /\ i \in todo
    BY <1>1, <1>7, CaptureLabelIs
  <2>2. /\ pc' = "capture" /\ start' = start /\ shape' = shape /\ todo' = todo \ {i}
        /\ captured' = [captured EXCEPT ![i] = Read(label[i])]
        /\ imageProof' = imageProof /\ labelProof' = labelProof
    BY <2>1 DEF CaptureOne, proofs
  <2>3. RecordProven(captured'[i], config.single)
    <3>1. label[i] \in File /\ captured'[i] = Read(label[i])
      BY <1>2, <2>2 DEF Types
    <3> QED BY <3>1, ReadProven
  <2>4. \A j \in Chunk : j # i => captured'[j] = captured[j]
    BY <1>2, <2>2
  <2>5. \A j \in Chunk : Verified(j) /\ (Done(j)' => j = i \/ Done(j))
    BY <2>1, <2>2 DEF Verified, Done
  <2> QED BY <1>0, <2>1, <2>2, <2>3, <2>4, <2>5, ProofFrame
<1>8. CASE CapturedAll
  <2>1. /\ pc = "capture" /\ pc' = "invalid" /\ start' = start /\ shape' = shape /\ captured' = captured
        /\ todo = {} /\ todo' = Chunk \ ValidIn(Chunk)
        /\ imageProof' = imageProof /\ labelProof' = labelProof
    BY <1>8 DEF CapturedAll, proofs
  <2>2. \A i \in Chunk : Verified(i) /\ Done(i)
    BY <2>1 DEF Verified, Done
  <2>3. \A i \in Chunk : i \notin todo' => captured'[i].file # Nothing
    BY <1>0, <2>1, <2>2 DEF ValidIn, ProofInv, RecordProven
  <2>4. \A i \in Chunk : i \in todo' => shape'[i] = NoShape
    BY <2>1 DEF ValidIn
  <2> QED BY <1>0, <2>1, <2>2, <2>3, <2>4, ProofFrame
<1>9. ASSUME NEW i \in Source, FingerprintInvalid(i) PROVE ProofInv'
  <2>1. /\ FingerprintOne(i) /\ pc = "invalid" /\ i \in todo /\ pc' = pc /\ start' = start
        /\ shape' = shape /\ imageProof' = imageProof /\ labelProof' = labelProof
    BY <1>1, <1>9, FingerprintIs DEF FingerprintNone
  <2>2. todo' = todo \ {i} /\ \A j \in Chunk : j # i => captured'[j] = captured[j]
    BY <1>2, <2>1 DEF FingerprintOne
  <2>3. captured'[i].file # Nothing
    <3>1. captured'[i].file = Seen(label[i])
      BY <1>2, <2>1 DEF FingerprintOne, Capture
    <3> QED BY <3>1 DEF Seen, Nothing
  <2>4. \A j \in Chunk : Verified(j) /\ Done(j)
    BY <2>1 DEF Verified, Done
  <2>5. shape[i] = NoShape
    BY <1>0, <1>2, <2>1 DEF ProofInv
  <2> QED BY <1>0, <2>1, <2>2, <2>3, <2>4, <2>5, ProofFrame
<1>10. ASSUME NEW i \in Source PROVE ~ParseFile(i)
  BY <1>1 DEF ParseFile
<1>11. CASE PackChunk
  <2>1. /\ pc = "invalid" /\ pc' = "merge" /\ start' = start /\ shape' = shape /\ captured' = captured
        /\ todo = {} /\ imageProof' = imageProof
        /\ labelProof' = [i \in Source |-> IF i \in Chunk THEN captured[i].file ELSE labelProof[i]]
    BY <1>1, <1>11 DEF PackChunk, LabelProof
  <2>2. \A i \in Chunk : Verified(i) /\ Done(i)
    BY <2>1 DEF Verified, Done
  <2>3. \A i \in Chunk : labelProof'[i] = captured'[i].file /\ labelProof'[i] # Nothing
    BY <1>0, <1>2, <2>1 DEF ProofInv
  <2>4. \A i \in 1..(start - 1) : labelProof'[i] = labelProof[i]
    BY <1>2, <2>1
  <2> QED BY <1>0, <2>1, <2>2, <2>3, <2>4, ProofFrame
<1>12. CASE Step
  <2>1. UNCHANGED <<config, pc, start, todo, shape, captured, proofs>>
    BY <1>12 DEF Step, SkipInvalid, MergeNative, MergeReference, ToMerge, Advance
  <2> QED BY <1>3, <2>1
<1>13. CASE MergeTooLarge
  BY <1>1, <1>13 DEF MergeTooLarge
<1>14. CASE NextChunk
  <2>1. /\ pc = "merge" /\ shape' = shape /\ imageProof' = imageProof /\ labelProof' = labelProof
        /\ \/ pc' = "done" /\ Stop = config.sources
           \/ pc' = "images" /\ start' = Stop + 1 /\ todo' = Chunk'
    BY <1>14, NextChunkIs DEF proofs
  <2>2. \A i \in 1..Stop : imageProof[i] # Nothing /\ labelProof[i] # Nothing
    <3> SUFFICES ASSUME NEW i \in 1..Stop PROVE imageProof[i] # Nothing /\ labelProof[i] # Nothing
      OBVIOUS
    <3>1. CASE i \in Chunk
      <4>1. Verified(i)
        BY <2>1 DEF Verified
      <4> QED BY <1>0, <2>1, <3>1, <4>1 DEF ProofInv, ShapeProven
    <3>2. CASE i \notin Chunk
      <4>1. i \in 1..(start - 1) /\ ProvenTo = start - 1
        BY <1>2, <2>1, <3>2 DEF ProvenTo
      <4> QED BY <1>0, <4>1 DEF ProofInv
    <3> QED BY <3>1, <3>2
  <2>3. ProvenTo' = Stop /\ pc' # "parse" /\ pc' # "invalid" /\ pc' # "merge"
    BY <1>0, <1>2, <2>1 DEF ProvenTo
  <2>4. \A i \in Chunk' : ~Verified(i)' /\ ~Done(i)'
    BY <2>1 DEF Verified, Done
  <2> QED BY <2>1, <2>2, <2>3, <2>4 DEF ProofInv
<1>15. \A i \in Source : \A x : WriteImage(i, x) \/ WriteLabel(i, x) => ProofInv'
  BY <1>3 DEF WriteImage, WriteLabel, Change
<1> QED BY <1>4, <1>5, <1>6, <1>7, <1>8, <1>9, <1>10, <1>11, <1>12, <1>13, <1>14, <1>15 DEF Next, Step

\* The fingerprinted contents.
ImagesProven == [i \in Source |-> imageProof[i].of]
LabelsProven == [i \in Source |-> labelProof[i].of]

\* While everything has its fingerprint, the lists are those of the fingerprinted
\* contents, whatever the files hold by now.
ProvenMerged ==
    Proving => MergedFrom(merged, ImagesProven, LabelsProven, config.single, MergedTo)

\* The fingerprints of the sources in the lists stay.
LEMMA ProofsKept ==
    ASSUME Types, [Next]_vars, pc' # "failed", NEW i \in 1..MergedTo
    PROVE  i \in Source /\ imageProof'[i] = imageProof[i] /\ labelProof'[i] = labelProof[i]
<1>1. /\ todo \subseteq Chunk /\ imageProof = [j \in Source |-> imageProof[j]]
      /\ start \in Nat /\ 1 <= start /\ Stop \in Nat /\ source \in Nat /\ config.sources \in Nat
      /\ Stop <= config.sources /\ start <= Stop + 1 /\ (pc = "merge" => source <= Stop + 1)
      /\ \A j : j \in Chunk <=> j \in Nat /\ start <= j /\ j <= Stop
  BY StopIs, ConfigIs DEF Types
<1>2. i \in Source
  BY <1>1 DEF MergedTo, Source
<1>3. CASE pc \notin {"images", "invalid", "parse"}
  BY <1>2, <1>3 DEF Next, vars, proofs, BeginLabels, CapturedAll, PackChunk, SkipInvalid, MergeNative,
         MergeReference, ToMerge, MergeTooLarge, NextChunk, Fail, VerifyImage, CaptureLabel,
         FingerprintInvalid, ParseFile, ParseInstead, WriteImage, WriteLabel, Change, Advance
<1>4. CASE pc \in {"images", "invalid", "parse"}
  <2>1. i \notin Chunk
    BY <1>1, <1>4 DEF MergedTo
  <2>2. ASSUME NEW j \in Source, VerifyImage(j) PROVE imageProof'[i] = imageProof[i]
    <3>1. imageProof' = imageProof \/ imageProof' = [imageProof EXCEPT ![j] = Seen(image[j])]
      BY <2>2 DEF VerifyImage, Fail, proofs
    <3>2. j \in Chunk
      BY <1>1, <2>2 DEF VerifyImage
    <3> QED BY <1>1, <1>2, <2>1, <3>1, <3>2
  <2>3. CASE PackChunk
    BY <1>2, <2>1, <2>3 DEF PackChunk
  <2> QED BY <1>2, <1>4, <2>2, <2>3
          DEF Next, vars, proofs, BeginLabels, CapturedAll, SkipInvalid, MergeNative,
              MergeReference, ToMerge, MergeTooLarge, NextChunk, Fail, VerifyImage, CaptureLabel,
              FingerprintInvalid, ParseFile, ParseInstead, WriteImage, WriteLabel, Change, Advance
<1> QED BY <1>3, <1>4

LEMMA ProvenMergedStep ==
    ASSUME MergeBase, ProofInv, ProvenMerged, [Next]_vars PROVE ProvenMerged'
<1> USE DEF MergeBase
<1> SUFFICES ASSUME Proving'
             PROVE  MergedFrom(merged, ImagesProven, LabelsProven, config.single, MergedTo)'
  BY DEF ProvenMerged
<1>1. Proving /\ config' = config /\ pc' # "failed" /\ pc # "failed"
  BY StillProving DEF Proving
<1>2. MergedFrom(merged, ImagesProven, LabelsProven, config.single, MergedTo)
  BY <1>1 DEF ProvenMerged
<1>3. MergedTo \in Nat /\ Source' = Source
  BY <1>1, MergedToIs, SameConfig
<1>4. \A i \in 1..MergedTo : ImagesProven'[i] = ImagesProven[i] /\ LabelsProven'[i] = LabelsProven[i]
  BY <1>1, <1>3, ProofsKept DEF ImagesProven, LabelsProven
<1>5. CASE merged' = merged /\ MergedTo' = MergedTo
  <2>1. MergedFrom(merged, ImagesProven', LabelsProven', config.single, MergedTo)
    BY <1>2, <1>3, <1>4, MergedSame
  <2> QED BY <1>1, <1>5, <2>1
<1>6. CASE /\ Step /\ pc = "merge" /\ source \in Chunk
           /\ source = MergedTo + 1 /\ MergedTo' = MergedTo + 1
  <2> DEFINE c == captured[source]
             im == ImagesProven
             lb == LabelsProven
  <2>1. MergeDoes /\ imageProof' = imageProof /\ labelProof' = labelProof
    BY <1>6, MergeDoesSo
  <2>2. im' = im /\ lb' = lb
    BY <1>3, <2>1 DEF ImagesProven, LabelsProven
  <2>3. source \in Source /\ labelProof[source] \in Fingerprint
    BY <1>6, StopIs DEF Types
  <2>4. im[source] = imageProof[source].of /\ lb[source] = labelProof[source].of
    BY <2>3 DEF ImagesProven, LabelsProven
  <2>5. /\ ShapeProven(shape[source], imageProof[source])
        /\ shape[source] # NoShape => RecordProven(c, config.single)
        /\ labelProof[source] = c.file /\ labelProof[source] # Nothing
    BY <1>1, <1>6 DEF ProofInv, Verified, Done
  <2>6. shape[source] = ShapeOfSeen(im[source])
    BY <2>4, <2>5 DEF ShapeProven
  <2>7. lb[source] \in File
    BY <2>3, <2>4, <2>5, SeenType
  <2>8. shape[source] # NoShape => c.record = ParseOf(lb[source])
    BY <2>4, <2>5 DEF RecordProven, ParseWith, ParseOf
  <2>9. shape[source] # NoShape /\ c.record.status = Reference
            => ReferenceInput(source) = lb[source] /\ c.data # Nothing
    BY <2>4, <2>5 DEF RecordProven, ReferenceInput
  <2> HIDE DEF im, lb
  <2>10. MergedFrom(merged, im, lb, config.single, MergedTo)
    BY <1>2 DEF im, lb
  <2>11. MergedFrom(merged', im, lb, config.single, MergedTo + 1)
    BY <1>3, <1>6, <2>1, <2>6, <2>7, <2>8, <2>9, <2>10, MergeFollows
  <2> QED BY <1>1, <1>6, <2>2, <2>11 DEF im, lb
<1> QED BY <1>1, <1>5, <1>6, MergedToIs

-----------------------------------------------------------------------------
(* The result *)

LEMMA ReferenceRecordsAre ==
    ASSUME NEW images, NEW labels
    PROVE  LET kept == InOrder(Survivors(images, labels, config.single, config.sources))
           IN  ReferenceRecords(images, labels) =
                   [k \in DOMAIN kept |->
                       [source |-> kept[k], shape |-> ShapeOf[images[kept[k]]],
                        rows |-> Verify(labels[kept[k]], config.single).rows,
                        segments |-> Verify(labels[kept[k]], config.single).segments]]
BY DEF ReferenceRecords, Survivors, Source

\* What ScanResult packs, to_ultralytics_labels finds again.
LEMMA Unpacked ==
    ASSUME config \in Scans, NEW images, NEW labels, \A i \in Source : labels[i] \in File,
           MergedFrom(merged, images, labels, config.single, config.sources)
    PROVE  Materialize(Result) = ReferenceRecords(images, labels)
<1> DEFINE S == Survivors(images, labels, config.single, config.sources)
           kept == InOrder(S)
           v(i) == Verify(labels[i], config.single)
           rows == merged.rows
           segments == merged.segments
           points == FlattenSeq(segments)
           objects == FlattenSeq(ObjectsOf(rows, segments))
           mine(k) == InOrder({s \in DOMAIN objects :
                          Offsets(rows)[k] <= objects[s] /\ objects[s] < Offsets(rows)[k + 1]})
           found(k) == [s \in DOMAIN mine(k) |->
                           Slice(FlattenSeq(points), Offsets(points)[mine(k)[s]],
                                 Offsets(points)[mine(k)[s] + 1])]
           record(k) == [source |-> kept[k], shape |-> merged.shapes[k],
                         rows |-> Slice(FlattenSeq(rows), Offsets(rows)[k], Offsets(rows)[k + 1]),
                         segments |-> found(k)]
<1>1. config.sources \in Nat
  BY ConfigIs
<1>2. Lists(merged, kept, images, labels, config.single)
  BY DEF MergedFrom
<1>3. kept \in Seq(S) /\ Len(kept) \in Nat /\ \A i \in S : i \in Source
  BY <1>1, SurvivorsAre DEF Source
<1>4. Materialize(Result) = [k \in DOMAIN kept |-> record(k)]
  <2>1. Result = [sources |-> merged.sources, shapes |-> merged.shapes,
                  offsets |-> Offsets(rows), labels |-> FlattenSeq(rows),
                  points |-> FlattenSeq(points), segmentOffsets |-> Offsets(points),
                  objects |-> objects]
    BY DEF Result, ObjectsOf
  <2>2. merged.sources = kept
    BY <1>2 DEF Lists
  <2>3. /\ Result.sources = kept /\ Result.shapes = merged.shapes /\ Result.offsets = Offsets(rows)
        /\ Result.labels = FlattenSeq(rows) /\ Result.points = FlattenSeq(points)
        /\ Result.segmentOffsets = Offsets(points) /\ Result.objects = objects
    BY <2>1, <2>2
  <2> HIDE DEF kept, rows, points, objects
  <2> QED BY <2>3, Zenon DEF Materialize
<1>5. ReferenceRecords(images, labels) =
          [k \in DOMAIN kept |-> [source |-> kept[k], shape |-> ShapeOf[images[kept[k]]],
                                  rows |-> v(kept[k]).rows, segments |-> v(kept[k]).segments]]
  BY ReferenceRecordsAre
<1>6. DOMAIN kept = 1..Len(kept) /\ \A k \in 1..Len(kept) : kept[k] \in S
  <2> HIDE DEF kept
  <2> QED BY <1>3
<1> HIDE DEF kept, S, v, rows, segments
<1>7. /\ rows \in Seq(Seq(Row)) /\ segments \in Seq(Seq(Seq(Point)))
      /\ Len(rows) = Len(kept) /\ Len(segments) = Len(rows)
      /\ \A k \in 1..Len(kept) : /\ merged.shapes[k] = ShapeOf[images[kept[k]]]
                                 /\ rows[k] = v(kept[k]).rows /\ segments[k] = v(kept[k]).segments
  BY <1>2 DEF Lists, rows, segments, v
<1>8. \A k \in 1..Len(rows) : Len(segments[k]) <= Len(rows[k])
  <2> SUFFICES ASSUME NEW k \in 1..Len(rows) PROVE Len(segments[k]) <= Len(rows[k])
    OBVIOUS
  <2>1. labels[kept[k]] \in File
    BY <1>3, <1>6, <1>7
  <2>2. Len(v(kept[k]).segments) <= Len(v(kept[k]).rows)
    BY <2>1, VerdictIs DEF v
  <2> QED BY <1>7, <2>2
<1>9. ASSUME NEW k \in 1..Len(kept)
      PROVE  record(k) = [source |-> kept[k], shape |-> ShapeOf[images[kept[k]]],
                          rows |-> v(kept[k]).rows, segments |-> v(kept[k]).segments]
  <2>1. k \in 1..Len(rows)
    BY <1>7
  <2>2. /\ Slice(FlattenSeq(rows), Offsets(rows)[k], Offsets(rows)[k + 1]) = rows[k]
        /\ mine(k) \in Seq(Nat) /\ Len(mine(k)) = Len(segments[k])
        /\ \A j \in 1..Len(segments[k]) :
              Slice(FlattenSeq(points), Offsets(points)[mine(k)[j]], Offsets(points)[mine(k)[j] + 1])
                  = segments[k][j]
    BY ONLY <1>7, <1>8, <2>1, UnpackOne, Zenon
  <2>3. segments[k] \in Seq(Seq(Point)) /\ DOMAIN mine(k) = 1..Len(segments[k])
    <3> HIDE DEF mine
    <3> QED BY <1>7, <2>1, <2>2
  <2>4. found(k) = segments[k]
    <3>1. found(k) = [j \in 1..Len(segments[k]) |-> segments[k][j]]
      <4> HIDE DEF mine, points
      <4> QED BY <2>2, <2>3
    <3> HIDE DEF found
    <3> QED BY <2>3, <3>1, LenProperties
  <2> HIDE DEF found
  <2> QED BY <1>7, <2>2, <2>4
<1> HIDE DEF record
<1> QED BY <1>4, <1>5, <1>6, <1>9, Zenon

ResultInv == MergeBase /\ NothingKept /\ SteadyInv /\ SteadyMerged /\ ProofInv /\ ProvenMerged

LEMMA ResultInit == ASSUME Init PROVE ResultInv
<1>1. /\ pc = "images" /\ start = 1 /\ merged = Start /\ todo = Chunk /\ config \in Scans
  BY DEF Init
<1>2. MergedTo = 0 /\ ProvenTo = 0
  BY <1>1 DEF MergedTo, ProvenTo
<1>3. SteadyMerged /\ ProvenMerged
  BY <1>1, <1>2, MergedAtStart DEF SteadyMerged, ProvenMerged
<1>4. ProofInv
  BY <1>1, <1>2 DEF ProofInv, Verified, Done
<1> QED BY <1>3, <1>4, MergeBaseInit, SteadyInit DEF ResultInv

LEMMA ResultHolds == Spec => []ResultInv
<1>1. ResultInv /\ [Next]_vars => ResultInv'
  BY MergeBaseStep, NothingKeptStep, SteadyStep, SteadyMergedStep, ProofStep, ProvenMergedStep
     DEF ResultInv, MergeBase
<1> QED BY <1>1, ResultInit, PTL DEF Spec

\* A scan of files that stay the same and can be read returns what the pinned
\* verifier returns for them in path order, for every dataset, number of sources,
\* chunk size and limit, with a snapshot or without (scan).
THEOREM SteadyScanIsReference == Spec => []ScanIsReference
<1>1. ASSUME ResultInv PROVE ScanIsReference
  <2> SUFFICES ASSUME pc = "done", writes = 0, faults = 0
               PROVE  Materialize(Result) = ReferenceRecords(image, label)
    BY DEF ScanIsReference
  <2>1. MergedFrom(merged, image, label, config.single, config.sources)
    BY <1>1 DEF ResultInv, SteadyMerged, MergedTo
  <2>2. config \in Scans /\ \A i \in Source : label[i] \in File
    BY <1>1 DEF ResultInv, MergeBase, Types
  <2> QED BY <2>1, <2>2, Unpacked
<1> QED BY <1>1, ResultHolds, PTL

\* The annotations of a result that can be saved are what the pinned verifier makes
\* of exactly the bytes its fingerprints were computed from, for every interleaving
\* of the scan's reads with changes of the files (scan, snapshot_labels).
THEOREM SavedAreOfTheirProofs == Spec => []AnnotationsMatchProofs
<1>1. ASSUME ResultInv PROVE AnnotationsMatchProofs
  <2> SUFFICES ASSUME Cacheable
               PROVE  /\ \A i \in Source : imageProof[i] # Nothing /\ labelProof[i] # Nothing
                      /\ Materialize(Result) = ReferenceRecords(ImagesProven, LabelsProven)
    BY DEF AnnotationsMatchProofs, ImagesProven, LabelsProven
  <2>1. Proving /\ pc = "done" /\ ProvenTo = config.sources /\ MergedTo = config.sources
    BY DEF Cacheable, Proving, ProvenTo, MergedTo
  <2>2. \A i \in Source : imageProof[i] # Nothing /\ labelProof[i] # Nothing
    BY <1>1, <2>1 DEF ResultInv, ProofInv, Source
  <2>3. MergedFrom(merged, ImagesProven, LabelsProven, config.single, config.sources)
    BY <1>1, <2>1 DEF ResultInv, ProvenMerged
  <2>4. config \in Scans /\ \A i \in Source : LabelsProven[i] \in File
    BY <1>1, <2>2, SeenType DEF ResultInv, MergeBase, Types, LabelsProven
  <2> QED BY <2>2, <2>3, <2>4, Unpacked
<1> QED BY <1>1, ResultHolds, PTL


-----------------------------------------------------------------------------
(* What the encoder asks of a result *)

\* A line of the text has an infinite class.
HasInfinite(text) == \E l \in DOMAIN text : Len(text[l]) > 0 /\ text[l][1] = "inf"

LEMMA InfiniteValue ==
    ASSUME NEW t, ReferenceToken(t), ValueOf(t) = Infinite PROVE t = "inf"
<1>1. t \in DOMAIN Number \/ t = "-0" \/ t = "inf"
  BY DEF ReferenceToken, NativeToken
<1>2. CASE t = "-0"
  BY <1>2, InfiniteAssumption DEF ValueOf, Unit
<1>3. CASE t \in DOMAIN Number
  <2>1. t # "-0" /\ t # "inf" /\ Number[t] \in Int /\ Number[t] < Infinite
    BY <1>3, LabelAssumption, InfiniteAssumption DEF Special
  <2> QED BY <2>1, InfiniteAssumption DEF ValueOf
<1> QED BY <1>1, <1>2, <1>3

\* A row in range has an infinite number only for its class, and only with single_cls.
LEMMA InfiniteRows ==
    ASSUME NEW text \in Seq(Seq(Token)), NEW single, Readable(text, HasPolygons(text)),
           AllInRange(text, single), NEW l \in DOMAIN text, NEW k \in 1..5,
           Rows(text)[l][k] = Infinite
    PROVE  single /\ HasInfinite(text)
<1> DEFINE line == text[l]
           row == Rows(text)[l]
<1>1. row = RowOf(line, HasPolygons(text)) /\ InRange(row, single)
  BY DEF Rows, AllInRange
<1>2. line \in Seq(Token) /\ Len(line) >= 3 /\ \A j \in DOMAIN line : ReferenceToken(line[j])
  <2>1. line \in Seq(Token)
    OBVIOUS
  <2>2. \A j \in DOMAIN line : ReferenceToken(line[j])
    BY DEF Readable
  <2>3. Len(line) >= 3
    <3> DEFINE n == Len(line)
    <3>1. n = 5 \/ n >= 3
      BY DEF Readable
    <3> HIDE DEF n
    <3>2. n >= 3
      BY ONLY <3>1
    <3> QED BY <3>2 DEF n
  <2> QED BY <2>1, <2>2, <2>3
<1>3. row \in Row
  <2>1. Rows(text) \in Seq(Row) /\ DOMAIN Rows(text) = DOMAIN text
    BY ReadableRows DEF Rows
  <2> HIDE DEF Rows
  <2> QED BY <2>1
<1>4. row[1] = ValueOf(line[1])
  BY <1>1 DEF RowOf, BoxRow
<1> HIDE DEF line, row
<1>5. row[1] \in Int /\ row[k] \in Int /\ row[k] = Infinite
  BY <1>3 DEF Row, row
<1>6. k = 1
  <2>1. k \in 2..5 => row[k] <= Unit + Unit \div 100
    BY <1>1 DEF InRange
  <2>2. Unit + Unit \div 100 < Infinite /\ Infinite \in Int
    BY InfiniteAssumption DEF Unit
  <2>3. ~(k \in 2..5)
    BY <1>5, <2>1, <2>2 DEF Unit
  <2> QED BY <2>3
<1>7. single
  <2>1. single \/ row[1] < NumClasses * Unit
    BY <1>1 DEF InRange
  <2>2. NumClasses * Unit < Infinite /\ Infinite \in Int /\ NumClasses * Unit \in Int
    BY InfiniteAssumption, LabelAssumption DEF Unit
  <2> QED BY <1>5, <1>6, <2>1, <2>2
<1>8. 1 \in DOMAIN line /\ Len(line) > 0
  BY <1>2
<1>9. line[1] = "inf"
  BY <1>2, <1>4, <1>5, <1>6, <1>8, InfiniteValue
<1> QED BY <1>7, <1>8, <1>9 DEF HasInfinite, line

\* The annotations of a verdict: a polygon for every row or none at all, no polygon
\* without a point, and no infinite number but such a class.
Sound(v, single, text) ==
    /\ Len(v.segments) = 0 \/ Len(v.segments) = Len(v.rows)
    /\ \A i \in 1..Len(v.segments) : Len(v.segments[i]) > 0
    /\ \A i \in 1..Len(v.rows) : \A k \in 1..5 :
          v.rows[i][k] = Infinite => single /\ HasInfinite(text)

LEMMA ChoseSound ==
    ASSUME NEW text \in Seq(Seq(Token)), NEW single, Readable(text, HasPolygons(text)),
           AllInRange(text, single), NEW v, Chose(v.rows, v.segments, v.duplicates, text)
    PROVE  Sound(v, single, text)
<1> DEFINE n == Len(text)
           kept == Kept(Rows(text))
<1>1. n \in Nat /\ DOMAIN text = 1..n
  OBVIOUS
<1>2. Rows(text) \in Seq(Row) /\ Len(Rows(text)) = n
  BY ReadableRows
<1>3. kept \in Seq(1..n)
  BY <1>2, KeptIsUnique
<1>4. /\ v.rows = [i \in DOMAIN kept |-> Rows(text)[kept[i]]]
      /\ v.segments = IF HasPolygons(text) THEN [i \in DOMAIN kept |-> Points(text[kept[i]])]
                      ELSE <<>>
  BY DEF Chose
<1> HIDE DEF n, kept
<1>5. DOMAIN kept = 1..Len(kept) /\ Len(kept) \in Nat /\ \A i \in 1..Len(kept) : kept[i] \in DOMAIN text
  <2>1. kept \in [1..Len(kept) -> 1..n] /\ Len(kept) \in Nat
    BY <1>3, LenProperties
  <2> QED BY <1>1, <2>1
<1>6. Len(v.segments) = 0 \/ Len(v.segments) = Len(v.rows)
  BY ChoseTypes
<1>7. DOMAIN v.rows = 1..Len(v.rows) /\ DOMAIN v.segments = 1..Len(v.segments)
  <2>1. v.rows \in Seq(Row) /\ v.segments \in Seq(Seq(Point))
    BY ChoseTypes
  <2> QED BY <2>1, LenProperties
<1>8. ASSUME NEW i \in 1..Len(v.rows), NEW k \in 1..5, v.rows[i][k] = Infinite
      PROVE  single /\ HasInfinite(text)
  <2>1. i \in 1..Len(kept) /\ v.rows[i] = Rows(text)[kept[i]]
    BY <1>4, <1>5, <1>7
  <2>2. kept[i] \in DOMAIN text /\ Rows(text)[kept[i]][k] = Infinite
    BY <1>5, <1>8, <2>1
  <2> QED BY <2>2, InfiniteRows
<1>9. ASSUME NEW i \in 1..Len(v.segments) PROVE Len(v.segments[i]) > 0
  <2>1. HasPolygons(text)
    <3>1. ~HasPolygons(text) => v.segments = <<>>
      BY <1>4
    <3>2. Len(<<>>) = 0
      OBVIOUS
    <3> QED BY <3>1, <3>2
  <2>2. i \in 1..Len(kept) /\ v.segments[i] = Points(text[kept[i]])
    BY <1>4, <1>5, <1>7, <2>1
  <2>3. kept[i] \in DOMAIN text
    BY <1>5, <2>2
  <2>4. /\ text[kept[i]] \in Seq(Token) /\ Len(text[kept[i]]) >= 3 /\ Len(text[kept[i]]) % 2 = 1
        /\ \A k \in DOMAIN text[kept[i]] : ReferenceToken(text[kept[i]][k])
    <3>1. text[kept[i]] \in Seq(Token)
      BY <1>1, <2>3
    <3>2. \A k \in DOMAIN text[kept[i]] : ReferenceToken(text[kept[i]][k])
      BY <2>3 DEF Readable
    <3>3. Len(text[kept[i]]) >= 3 /\ Len(text[kept[i]]) % 2 = 1
      BY <2>1, <2>3 DEF Readable
    <3> QED BY <3>1, <3>2, <3>3
  <2>5. Len(Points(text[kept[i]])) > 0
    BY <2>4, PointsType
  <2> QED BY <2>2, <2>5
<1> QED BY <1>6, <1>8, <1>9 DEF Sound

LEMMA VerdictSound ==
    ASSUME NEW f \in File, NEW single PROVE Sound(Verify(f, single), single, f.text)
<1>1. ASSUME NEW v, NEW ok, NEW missing, NEW empty, v = Verdict(ok, <<>>, <<>>, missing, empty, 0)
      PROVE  Sound(v, single, f.text)
  <2>1. v.rows = <<>> /\ v.segments = <<>>
    BY <1>1 DEF Verdict
  <2>2. Len(<<>>) = 0 /\ 1..0 = {}
    OBVIOUS
  <2> QED BY <2>1, <2>2 DEF Sound
<1>2. CASE f = Missing
  BY <1>1, <1>2, VerifyMissing
<1>3. CASE f = TextFile(<<>>)
  BY <1>1, <1>3, VerifyEmpty
<1>4. ASSUME NEW t \in Seq(Seq(Token)), t # <<>>, f = TextFile(t)
      PROVE  Sound(Verify(f, single), single, f.text)
  <2> DEFINE v == Verify(TextFile(t), single)
  <2>1. f.text = t
    BY <1>4 DEF TextFile
  <2>2. CASE v = Verdict(FALSE, <<>>, <<>>, 0, 0, 0)
    BY <1>1, <1>4, <2>2
  <2>3. CASE /\ Readable(t, HasPolygons(t)) /\ AllInRange(t, single)
             /\ Chose(v.rows, v.segments, v.duplicates, t)
    <3> HIDE DEF v
    <3>1. Sound(v, single, t)
      BY <2>3, ChoseSound
    <3> QED BY <1>4, <2>1, <3>1 DEF v
  <2> QED BY <1>4, <2>2, <2>3, VerifyIs
<1> QED BY <1>2, <1>3, <1>4 DEF File

\* A label is missing, or empty, or neither.
LEMMA VerdictCounts ==
    ASSUME NEW f \in File, NEW single
    PROVE  LET v == Verify(f, single)
           IN  v.missing \in {0, 1} /\ v.empty \in {0, 1} /\ v.empty <= 1 - v.missing
<1>1. /\ Verdict(TRUE, <<>>, <<>>, 1, 0, 0).missing = 1 /\ Verdict(TRUE, <<>>, <<>>, 1, 0, 0).empty = 0
      /\ Verdict(TRUE, <<>>, <<>>, 0, 1, 0).missing = 0 /\ Verdict(TRUE, <<>>, <<>>, 0, 1, 0).empty = 1
  BY DEF Verdict
<1>2. CASE f = Missing
  <2>1. Verify(f, single).missing = 1 /\ Verify(f, single).empty = 0
    BY <1>1, <1>2, VerifyMissing
  <2> QED BY <2>1
<1>3. CASE f = TextFile(<<>>)
  <2>1. Verify(f, single).missing = 0 /\ Verify(f, single).empty = 1
    BY <1>1, <1>3, VerifyEmpty
  <2> QED BY <2>1
<1>4. ASSUME NEW t \in Seq(Seq(Token)), t # <<>>, f = TextFile(t)
      PROVE  LET v == Verify(f, single)
             IN  v.missing \in {0, 1} /\ v.empty \in {0, 1} /\ v.empty <= 1 - v.missing
  <2> DEFINE v == Verify(TextFile(t), single)
  <2>1. v = Verdict(FALSE, <<>>, <<>>, 0, 0, 0) \/ v = Verdict(TRUE, v.rows, v.segments, 0, 0, v.duplicates)
    BY <1>4, VerifyIs
  <2> HIDE DEF v
  <2>2. v.missing = 0 /\ v.empty = 0
    BY <2>1 DEF Verdict
  <2> QED BY <1>4, <2>2 DEF v
<1> QED BY <1>2, <1>3, <1>4 DEF File

-----------------------------------------------------------------------------
(* The counters of a result *)

Codes == {"corrupt_image", "duplicate", "reference_label"}

\* The counters and diagnostics of a result about the sources up to n.
CountsTo(m, n) ==
    /\ m.found \in Nat /\ m.missing \in Nat /\ m.empty \in Nat /\ m.corrupt \in Nat
    /\ m.empty <= m.found /\ m.found + m.missing <= n
    /\ m.sources \in Seq(Nat) /\ Len(m.sources) + m.corrupt = n
    /\ m.diagnostics \in Seq(Nat \X Codes)
    /\ \A k \in 1..Len(m.diagnostics) : m.diagnostics[k][1] <= n
    /\ \A k \in 1..Len(m.diagnostics) : \A j \in 1..(k - 1) :
          m.diagnostics[j][1] < m.diagnostics[k][1]

\* What the source i adds to them.
Moves(m, m2, i) ==
    /\ \E a, b, e \in {0, 1} :
          /\ a + b <= 1 /\ e <= b
          /\ m2.missing = m.missing + a /\ m2.found = m.found + b /\ m2.empty = m.empty + e
    /\ \/ m2.corrupt = m.corrupt + 1 /\ m2.sources = m.sources
       \/ m2.corrupt = m.corrupt /\ m2.sources = Append(m.sources, i)
    /\ \/ m2.diagnostics = m.diagnostics
       \/ \E code \in Codes : m2.diagnostics = Append(m.diagnostics, <<i, code>>)

LEMMA DiagnosticsGrow ==
    ASSUME NEW d \in Seq(Nat \X Codes), NEW n \in Nat, \A k \in 1..Len(d) : d[k][1] <= n,
           \A k \in 1..Len(d) : \A j \in 1..(k - 1) : d[j][1] < d[k][1],
           NEW code \in Codes, NEW t, t = Append(d, <<n + 1, code>>)
    PROVE  /\ t \in Seq(Nat \X Codes) /\ \A k \in 1..Len(t) : t[k][1] <= n + 1
           /\ \A k \in 1..Len(t) : \A j \in 1..(k - 1) : t[j][1] < t[k][1]
<1> DEFINE S == Nat \X Codes
           x == <<n + 1, code>>
           l == Len(d)
<1>1. x \in S /\ x[1] = n + 1 /\ d \in Seq(S) /\ l \in Nat /\ Len(d) = l /\ t = Append(d, x)
  OBVIOUS
<1>2. \A k \in 1..l : d[k][1] \in Nat
  <2>1. \A k \in 1..l : d[k] \in S
    BY <1>1, ElementOfSeq
  <2> QED BY <2>1
<1> HIDE DEF S, x, l
<1>3. Len(t) = l + 1 /\ t[l + 1] = x /\ \A k \in 1..l : t[k] = d[k]
  BY ONLY <1>1, Appended
<1>4. t \in Seq(S)
  BY ONLY <1>1
<1> DEFINE old(k) == d[k][1]
           first(k) == t[k][1]
<1>5. /\ \A k \in 1..l : first(k) = old(k) /\ old(k) \in Nat /\ old(k) <= n
      /\ first(l + 1) = n + 1 /\ l \in Nat /\ n \in Nat
      /\ \A k \in 1..l : \A j \in 1..(k - 1) : old(j) < old(k)
  BY <1>1, <1>2, <1>3 DEF l
<1> HIDE DEF old, first
<1>6. ASSUME NEW k \in 1..(l + 1) PROVE first(k) <= n + 1
  <2>1. CASE k = l + 1
    BY ONLY <1>5, <2>1
  <2>2. CASE k # l + 1
    <3>1. k \in 1..l
      BY ONLY <1>5, <2>2, k \in 1..(l + 1)
    <3> QED BY ONLY <1>5, <3>1
  <2> QED BY <2>1, <2>2
<1>7. ASSUME NEW k \in 1..(l + 1), NEW j \in 1..(k - 1) PROVE first(j) < first(k)
  <2>1. j \in 1..l
    BY ONLY <1>5, k \in 1..(l + 1), j \in 1..(k - 1)
  <2>2. CASE k = l + 1
    BY ONLY <1>5, <2>1, <2>2
  <2>3. CASE k # l + 1
    <3>1. k \in 1..l
      BY ONLY <1>5, <2>3, k \in 1..(l + 1)
    <3>2. old(j) < old(k)
      BY ONLY <1>5, <3>1, j \in 1..(k - 1)
    <3> QED BY ONLY <1>5, <2>1, <3>1, <3>2
  <2> QED BY <2>2, <2>3
<1> QED BY <1>3, <1>4, <1>6, <1>7 DEF S, first

LEMMA CountsMove ==
    ASSUME NEW m, NEW m2, NEW n \in Nat, CountsTo(m, n), Moves(m, m2, n + 1)
    PROVE  CountsTo(m2, n + 1)
<1>1. PICK a, b, e \in {0, 1} :
          /\ a + b <= 1 /\ e <= b
          /\ m2.missing = m.missing + a /\ m2.found = m.found + b /\ m2.empty = m.empty + e
  BY DEF Moves
<1>2. /\ m2.found \in Nat /\ m2.missing \in Nat /\ m2.empty \in Nat
      /\ m2.empty <= m2.found /\ m2.found + m2.missing <= n + 1
  <2> DEFINE f == m.found
             s == m.missing
             o == m.empty
  <2>1. f \in Nat /\ s \in Nat /\ o \in Nat /\ o <= f /\ f + s <= n
    BY DEF CountsTo
  <2> HIDE DEF f, s, o
  <2>2. /\ f + b \in Nat /\ s + a \in Nat /\ o + e \in Nat /\ o + e <= f + b
        /\ (f + b) + (s + a) <= n + 1
    BY ONLY <1>1, <2>1, n \in Nat
  <2> QED BY <1>1, <2>2 DEF f, s, o
<1>3. m2.corrupt \in Nat /\ m2.sources \in Seq(Nat) /\ Len(m2.sources) + m2.corrupt = n + 1
  <2> DEFINE s == m.sources
             c == m.corrupt
             t == m2.sources
             l == Len(s)
  <2>1. s \in Seq(Nat) /\ c \in Nat /\ l \in Nat /\ Len(s) = l /\ l + c = n
    BY DEF CountsTo
  <2>2. CASE m2.corrupt = c + 1 /\ t = s
    BY <2>1, <2>2
  <2>3. CASE m2.corrupt = c /\ t = Append(s, n + 1)
    <3> HIDE DEF s, c, t, l
    <3>1. n + 1 \in Nat
      OBVIOUS
    <3>2. Len(t) = l + 1
      BY ONLY <2>1, <2>3, <3>1, Appended
    <3>3. t \in Seq(Nat)
      BY <2>1, <2>3, <3>1
    <3> QED BY <2>1, <2>3, <3>2, <3>3 DEF t
  <2> QED BY <2>2, <2>3 DEF Moves
<1>4. /\ m2.diagnostics \in Seq(Nat \X Codes)
      /\ \A k \in 1..Len(m2.diagnostics) : m2.diagnostics[k][1] <= n + 1
      /\ \A k \in 1..Len(m2.diagnostics) : \A j \in 1..(k - 1) :
            m2.diagnostics[j][1] < m2.diagnostics[k][1]
  <2> DEFINE d == m.diagnostics
             t == m2.diagnostics
  <2>1. /\ d \in Seq(Nat \X Codes) /\ \A k \in 1..Len(d) : d[k][1] <= n
        /\ \A k \in 1..Len(d) : \A j \in 1..(k - 1) : d[j][1] < d[k][1]
    BY DEF CountsTo
  <2>2. CASE t = d
    <3>1. \A k \in 1..Len(d) : d[k][1] <= n + 1
      <4> SUFFICES ASSUME NEW k \in 1..Len(d) PROVE d[k][1] <= n + 1
        OBVIOUS
      <4> HIDE DEF d
      <4>1. d[k] \in Nat \X Codes
        BY <2>1, ElementOfSeq
      <4>2. d[k][1] \in Nat /\ d[k][1] <= n
        BY <2>1, <4>1
      <4> QED BY <4>2
    <3> QED BY <2>1, <2>2, <3>1
  <2>3. ASSUME NEW code \in Codes, t = Append(d, <<n + 1, code>>)
        PROVE  /\ t \in Seq(Nat \X Codes) /\ \A k \in 1..Len(t) : t[k][1] <= n + 1
               /\ \A k \in 1..Len(t) : \A j \in 1..(k - 1) : t[j][1] < t[k][1]
    <3> HIDE DEF d, t
    <3> QED BY <2>1, <2>3, DiagnosticsGrow
  <2> QED BY <2>2, <2>3 DEF Moves
<1> QED BY <1>2, <1>3, <1>4 DEF CountsTo

\* The fields that the three helpers of the merge do not touch.
LEMMA DiagnoseKeeps ==
    ASSUME NEW m, IsMerged(m), NEW code
    PROVE  LET d == Diagnose(m, code)
           IN  /\ d.diagnostics = Append(m.diagnostics, <<source, code>>)
               /\ d.missing = m.missing /\ d.found = m.found /\ d.empty = m.empty
               /\ d.corrupt = m.corrupt /\ d.sources = m.sources
<1> DEFINE d == [m EXCEPT !.diagnostics = Append(@, <<source, code>>)]
<1>1. DOMAIN m = Fields
  BY DEF IsMerged
<1>2. d.diagnostics = Append(m.diagnostics, <<source, code>>)
  BY <1>1 DEF Fields
<1>3. \A f \in Fields : f # "diagnostics" => d[f] = m[f]
  BY <1>1
<1>4. Diagnose(m, code) = d
  BY DEF Diagnose
<1> HIDE DEF d
<1> QED BY <1>2, <1>3, <1>4 DEF Fields

LEMMA CountedKeeps ==
    ASSUME NEW m, IsMerged(m), NEW v
    PROVE  LET d == Counted(m, v)
           IN  /\ d.missing = m.missing + v.missing /\ d.found = m.found + 1 - v.missing
               /\ d.empty = m.empty + v.empty /\ d.corrupt = m.corrupt + (IF v.ok THEN 0 ELSE 1)
               /\ d.diagnostics = m.diagnostics /\ d.sources = m.sources
<1> DEFINE d == [m EXCEPT !.missing = @ + v.missing, !.found = @ + 1 - v.missing,
                          !.empty = @ + v.empty, !.corrupt = @ + (IF v.ok THEN 0 ELSE 1),
                          !.fallbacks = @ + 1]
<1>1. DOMAIN m = Fields
  BY DEF IsMerged
<1>2. /\ d.missing = m.missing + v.missing /\ d.found = m.found + 1 - v.missing
      /\ d.empty = m.empty + v.empty /\ d.corrupt = m.corrupt + (IF v.ok THEN 0 ELSE 1)
  BY <1>1 DEF Fields
<1>3. \A f \in {"diagnostics", "sources"} : d[f] = m[f]
  BY <1>1 DEF Fields
<1>4. Counted(m, v) = d
  BY DEF Counted
<1> HIDE DEF d
<1> QED BY <1>2, <1>3, <1>4

LEMMA KeepKeeps ==
    ASSUME NEW m, IsMerged(m), NEW rows, NEW segments
    PROVE  LET d == Keep(m, rows, segments)
           IN  /\ d.sources = Append(m.sources, source) /\ d.diagnostics = m.diagnostics
               /\ d.missing = m.missing /\ d.found = m.found /\ d.empty = m.empty
               /\ d.corrupt = m.corrupt
<1> DEFINE d == [m EXCEPT !.sources = Append(@, source), !.shapes = Append(@, shape[source]),
                          !.rows = Append(@, rows), !.segments = Append(@, segments)]
<1>1. DOMAIN m = Fields
  BY DEF IsMerged
<1>2. d.sources = Append(m.sources, source)
  BY <1>1 DEF Fields
<1>3. \A f \in {"diagnostics", "missing", "found", "empty", "corrupt"} : d[f] = m[f]
  BY <1>1 DEF Fields
<1>4. Keep(m, rows, segments) = d
  BY DEF Keep
<1> HIDE DEF d
<1> QED BY <1>2, <1>3, <1>4

\* A step of the merge adds its source to the counters, whatever became of it.
LEMMA StepMoves ==
    ASSUME Types, IsMerged(merged), NEW n, CountsTo(merged, n), Step
    PROVE  Moves(merged, merged', source)
<1> DEFINE Grown(d) == \/ d = merged.diagnostics
                       \/ \E code \in Codes : d = Append(merged.diagnostics, <<source, code>>)
<1>0. /\ merged.found \in Nat /\ merged.missing \in Nat /\ merged.empty \in Nat
      /\ merged.corrupt \in Nat /\ DOMAIN merged = Fields
  BY DEF CountsTo, IsMerged
<1>1. CASE SkipInvalid
  <2> DEFINE m == [merged EXCEPT !.corrupt = @ + 1]
  <2>1. m.corrupt = merged.corrupt + 1
    BY <1>0 DEF Fields
  <2>2. \A f \in {"diagnostics", "missing", "found", "empty", "sources"} : m[f] = merged[f]
    BY <1>0 DEF Fields
  <2>3. m = [f \in Fields |-> m[f]]
    BY <1>0
  <2>4. merged' = Diagnose(m, "corrupt_image")
    BY <1>1 DEF SkipInvalid
  <2> HIDE DEF m
  <2>5. /\ merged'.diagnostics = Append(m.diagnostics, <<source, "corrupt_image">>)
        /\ merged'.missing = m.missing /\ merged'.found = m.found /\ merged'.empty = m.empty
        /\ merged'.corrupt = m.corrupt /\ merged'.sources = m.sources
    BY <2>3, <2>4, DiagnoseKeeps DEF IsMerged
  <2>6. /\ merged'.missing = merged.missing + 0 /\ merged'.found = merged.found + 0
        /\ merged'.empty = merged.empty + 0
    BY <1>0, <2>2, <2>5
  <2>7. Grown(merged'.diagnostics)
    BY <2>2, <2>5 DEF Codes
  <2>8. merged'.corrupt = merged.corrupt + 1 /\ merged'.sources = merged.sources
    BY <2>1, <2>2, <2>5
  <2>9. 0 \in {0, 1} /\ 0 + 0 <= 1 /\ 0 <= 0
    OBVIOUS
  <2> QED BY <2>6, <2>7, <2>8, <2>9, Zenon DEF Moves
<1>2. CASE MergeNative
  <2> DEFINE a == IF Status = NoFile THEN 1 ELSE 0
             b == IF Status = NoFile THEN 0 ELSE 1
             e == IF Status = Empty THEN 1 ELSE 0
             m == [merged EXCEPT !.missing = @ + a, !.found = @ + b, !.empty = @ + e]
             noted == IF packed.duplicates[position + 1] = 0 THEN m ELSE Diagnose(m, "duplicate")
  <2>1. m.missing = merged.missing + a /\ m.found = merged.found + b /\ m.empty = merged.empty + e
    BY <1>0 DEF Fields
  <2>2. \A f \in {"diagnostics", "corrupt", "sources"} : m[f] = merged[f]
    BY <1>0 DEF Fields
  <2>3. m = [f \in Fields |-> m[f]]
    BY <1>0
  <2>4. merged' = Keep(noted, NativeRows, NativeSegments)
    BY <1>2 DEF MergeNative
  <2>5. a \in {0, 1} /\ b \in {0, 1} /\ e \in {0, 1} /\ a + b <= 1 /\ e <= b
    BY DEF NoFile, Empty
  <2> HIDE DEF m, a, b, e
  <2>6. /\ IsMerged(noted) /\ Grown(noted.diagnostics)
        /\ noted.missing = m.missing /\ noted.found = m.found /\ noted.empty = m.empty
        /\ noted.corrupt = m.corrupt /\ noted.sources = m.sources
    <3>1. IsMerged(m)
      BY <2>3 DEF IsMerged
    <3>2. IsMerged(Diagnose(m, "duplicate"))
      BY <3>1, DiagnoseIs
    <3>3. LET d == Diagnose(m, "duplicate")
          IN  /\ d.diagnostics = Append(m.diagnostics, <<source, "duplicate">>)
              /\ d.missing = m.missing /\ d.found = m.found /\ d.empty = m.empty
              /\ d.corrupt = m.corrupt /\ d.sources = m.sources
      BY <3>1, DiagnoseKeeps
    <3>4. m.diagnostics = merged.diagnostics /\ "duplicate" \in Codes
      BY <2>2 DEF Codes
    <3> QED BY <3>1, <3>2, <3>3, <3>4
  <2> HIDE DEF noted
  <2>7. /\ merged'.sources = Append(noted.sources, source)
        /\ merged'.diagnostics = noted.diagnostics /\ merged'.missing = noted.missing
        /\ merged'.found = noted.found /\ merged'.empty = noted.empty
        /\ merged'.corrupt = noted.corrupt
    BY <2>4, <2>6, KeepKeeps
  <2>8. /\ merged'.missing = merged.missing + a /\ merged'.found = merged.found + b
        /\ merged'.empty = merged.empty + e
    BY <2>1, <2>6, <2>7
  <2>9. merged'.corrupt = merged.corrupt /\ merged'.sources = Append(merged.sources, source)
        /\ Grown(merged'.diagnostics)
    BY <2>2, <2>6, <2>7
  <2> QED BY <2>5, <2>8, <2>9, Zenon DEF Moves
<1>3. CASE MergeReference
  <2> DEFINE v == Verify(ReferenceInput(source), config.single)
             noted(w) == IF w.ok /\ w.duplicates = 0 THEN Counted(merged, w)
                         ELSE Diagnose(Counted(merged, w), "reference_label")
  <2>1. ASSUME NEW w
        PROVE  /\ IsMerged(noted(w)) /\ Grown(noted(w).diagnostics)
               /\ noted(w).missing = merged.missing + w.missing
               /\ noted(w).found = merged.found + 1 - w.missing
               /\ noted(w).empty = merged.empty + w.empty
               /\ noted(w).corrupt = merged.corrupt + (IF w.ok THEN 0 ELSE 1)
               /\ noted(w).sources = merged.sources
    <3> DEFINE c == Counted(merged, w)
               d == Diagnose(c, "reference_label")
    <3>1. IsMerged(c) /\ IsMerged(d)
      BY CountedIs, DiagnoseIs
    <3>2. /\ c.missing = merged.missing + w.missing /\ c.found = merged.found + 1 - w.missing
          /\ c.empty = merged.empty + w.empty
          /\ c.corrupt = merged.corrupt + (IF w.ok THEN 0 ELSE 1)
          /\ c.diagnostics = merged.diagnostics /\ c.sources = merged.sources
      BY CountedKeeps
    <3>3. /\ d.diagnostics = Append(c.diagnostics, <<source, "reference_label">>)
          /\ d.missing = c.missing /\ d.found = c.found /\ d.empty = c.empty
          /\ d.corrupt = c.corrupt /\ d.sources = c.sources
      BY <3>1, DiagnoseKeeps
    <3>4. noted(w) = c \/ noted(w) = d
      OBVIOUS
    <3>5. "reference_label" \in Codes
      BY DEF Codes
    <3> HIDE DEF c, d, noted
    <3> QED BY <3>1, <3>2, <3>3, <3>4, <3>5
  <2>2. \/ v.ok /\ merged' = Keep(noted(v), v.rows, v.segments)
        \/ ~v.ok /\ merged' = noted(v)
        \/ merged' = noted([v EXCEPT !.ok = FALSE, !.empty = 0])
    BY <1>3 DEF MergeReference
  <2>3. ReferenceInput(source) \in File
    <3>1. source \in Source /\ label[source] \in File /\ captured[source] \in Capture
      BY <1>3, StopIs DEF MergeReference, ToMerge, Types
    <3>2. captured[source].data \in Fingerprint
      BY <3>1, CaptureIs
    <3> QED BY <3>1, <3>2, SeenType DEF ReferenceInput
  <2>4. v.missing \in {0, 1} /\ v.empty \in {0, 1} /\ v.empty <= 1 - v.missing
    BY <2>3, VerdictCounts
  <2>5. v = Verdict(v.ok, v.rows, v.segments, v.missing, v.empty, v.duplicates)
    BY <2>3, VerdictIs
  <2> HIDE DEF v, noted
  <2> DEFINE u == [v EXCEPT !.ok = FALSE, !.empty = 0]
             a == v.missing
             b == 1 - v.missing
  <2>6. u.ok = FALSE /\ u.empty = 0 /\ u.missing = v.missing
    BY <2>5 DEF Verdict
  <2> HIDE DEF u
  <2>7. /\ a \in {0, 1} /\ b \in {0, 1} /\ a + b <= 1 /\ v.empty <= b /\ 0 <= b /\ 0 \in {0, 1}
        /\ merged.found + 1 - a = merged.found + b /\ v.empty \in {0, 1}
        /\ merged.corrupt + 0 = merged.corrupt /\ merged.empty + 0 = merged.empty
    BY <1>0, <2>4
  <2>8. CASE v.ok /\ merged' = Keep(noted(v), v.rows, v.segments)
    <3>1. /\ merged'.sources = Append(noted(v).sources, source)
          /\ merged'.diagnostics = noted(v).diagnostics /\ merged'.missing = noted(v).missing
          /\ merged'.found = noted(v).found /\ merged'.empty = noted(v).empty
          /\ merged'.corrupt = noted(v).corrupt
      BY <2>1, <2>8, KeepKeeps
    <3>2. /\ merged'.missing = merged.missing + a /\ merged'.found = merged.found + b
          /\ merged'.empty = merged.empty + v.empty /\ merged'.corrupt = merged.corrupt
          /\ merged'.sources = Append(merged.sources, source) /\ Grown(merged'.diagnostics)
      BY <2>1, <2>7, <2>8, <3>1
    <3> HIDE DEF a, b
    <3> QED BY <2>7, <3>2, Zenon DEF Moves
  <2>9. CASE ~v.ok /\ merged' = noted(v)
    <3>1. /\ merged'.missing = merged.missing + a /\ merged'.found = merged.found + b
          /\ merged'.empty = merged.empty + v.empty /\ merged'.corrupt = merged.corrupt + 1
          /\ merged'.sources = merged.sources /\ Grown(merged'.diagnostics)
      BY <2>1, <2>7, <2>9
    <3> HIDE DEF a, b
    <3> QED BY <2>7, <3>1, Zenon DEF Moves
  <2>10. CASE merged' = noted(u)
    <3>1. /\ merged'.missing = merged.missing + a /\ merged'.found = merged.found + b
          /\ merged'.empty = merged.empty + 0 /\ merged'.corrupt = merged.corrupt + 1
          /\ merged'.sources = merged.sources /\ Grown(merged'.diagnostics)
      BY <2>1, <2>6, <2>7, <2>10
    <3> HIDE DEF a, b
    <3> QED BY <2>7, <3>1, Zenon DEF Moves
  <2> QED BY <2>2, <2>8, <2>9, <2>10 DEF u
<1> QED BY <1>1, <1>2, <1>3 DEF Step

\* The counters and the diagnostics are those of the sources in the lists.
CountInv == pc # "failed" => CountsTo(merged, MergedTo)

LEMMA CountInit == ASSUME Init PROVE CountInv
<1>1. merged = Start /\ MergedTo = 0
  BY DEF Init, MergedTo
<1>2. <<>> \in Seq(Nat) /\ <<>> \in Seq(Nat \X Codes) /\ Len(<<>>) = 0 /\ 1..0 = {}
  OBVIOUS
<1>3. /\ Start.found = 0 /\ Start.missing = 0 /\ Start.empty = 0 /\ Start.corrupt = 0
      /\ Start.sources = <<>> /\ Start.diagnostics = <<>>
  BY DEF Start
<1>4. CountsTo(Start, 0)
  BY <1>2, <1>3 DEF CountsTo
<1> QED BY <1>1, <1>4 DEF CountInv

LEMMA CountStep == ASSUME MergeBase, CountInv, [Next]_vars PROVE CountInv'
<1> SUFFICES ASSUME pc' # "failed" PROVE CountsTo(merged', MergedTo')
  BY DEF CountInv
<1>1. Types /\ IsMerged(merged)
  BY DEF MergeBase
<1>2. /\ MergedTo \in Nat /\ pc # "failed"
      /\ \/ merged' = merged /\ MergedTo' = MergedTo
         \/ Step /\ source = MergedTo + 1 /\ MergedTo' = MergedTo + 1
  BY <1>1, MergedToIs
<1>3. CountsTo(merged, MergedTo)
  BY <1>2 DEF CountInv
<1>4. CASE merged' = merged /\ MergedTo' = MergedTo
  BY <1>3, <1>4
<1>5. CASE Step /\ source = MergedTo + 1 /\ MergedTo' = MergedTo + 1
  <2>1. Moves(merged, merged', MergedTo + 1)
    BY <1>1, <1>3, <1>5, StepMoves
  <2> HIDE DEF MergedTo
  <2> QED BY <1>2, <1>3, <1>5, <2>1, CountsMove
<1> QED BY <1>2, <1>4, <1>5

-----------------------------------------------------------------------------
(* The arrays of a result *)

LEMMA ObjectsAscend ==
    ASSUME NEW rows \in Seq(Seq(Row)), NEW segments \in Seq(Seq(Seq(Point))),
           Len(segments) = Len(rows), \A b \in 1..Len(rows) : Len(segments[b]) <= Len(rows[b])
    PROVE  LET objects == FlattenSeq(ObjectsOf(rows, segments))
           IN  /\ Len(objects) = Len(FlattenSeq(segments)) /\ objects \in Seq(Nat)
               /\ \A k \in 2..Len(objects) : objects[k - 1] < objects[k]
<1> DEFINE offsets == Offsets(rows)
           o == ObjectsOf(rows, segments)
           objects == FlattenSeq(o)
           N == Len(rows)
<1>1. /\ N \in Nat /\ N + 1 \in 1..(N + 1)
      /\ \A b \in 1..N : b \in 1..(N + 1) /\ b + 1 \in 1..(N + 1) /\ Len(segments[b]) \in Nat
                         /\ Len(rows[b]) \in Nat
  OBVIOUS
<1>2. \A b \in 1..(N + 1) : offsets[b] = BeforeSeq(rows, b) /\ offsets[b] \in Nat
  BY OffsetsAre, BeforeIsNat
<1>3. \A b \in 1..N : offsets[b + 1] = offsets[b] + Len(rows[b])
  BY <1>1, <1>2, PartOf, ZenonT(30)
<1>4. /\ o \in Seq(Seq(Nat)) /\ Len(o) = N
      /\ \A b \in 1..N : Len(o[b]) = Len(segments[b])
      /\ \A b \in 1..N : \A j \in 1..Len(segments[b]) : o[b][j] = offsets[b] + j - 1
  BY ObjectsAre
<1> HIDE DEF o, offsets
<1>5. objects \in Seq(Nat)
  BY <1>4, FlattenIsSeq
<1>6. Len(objects) = Len(FlattenSeq(segments))
  <2>1. BeforeSeq(o, N + 1) = BeforeSeq(segments, N + 1)
    <3>1. /\ o \in Seq(Seq(Nat)) /\ segments \in Seq(Seq(Seq(Point))) /\ Len(o) = Len(segments)
          /\ \A c \in 1..Len(o) : Len(o[c]) = Len(segments[c])
          /\ N + 1 \in 1..(Len(o) + 1)
      BY <1>1, <1>4
    <3> HIDE DEF N
    <3> QED BY <3>1, SameBefore, Zenon
  <2>2. BeforeSeq(o, Len(o) + 1) = Len(FlattenSeq(o))
    BY <1>4, BeforeLast
  <2>3. BeforeSeq(segments, Len(segments) + 1) = Len(FlattenSeq(segments))
    BY BeforeLast
  <2> QED BY <1>4, <2>1, <2>2, <2>3
<1>7. ASSUME NEW e \in 1..Len(objects)
      PROVE  \E b \in 1..N : \E j \in 1..Len(segments[b]) :
                e = BeforeSeq(o, b) + j /\ objects[e] = offsets[b] + j - 1
  <2>1. PICK b \in 1..Len(o) : \E j \in 1..Len(o[b]) : e = BeforeSeq(o, b) + j
    BY <1>4, LocateElement
  <2>2. PICK j \in 1..Len(o[b]) : e = BeforeSeq(o, b) + j
    BY <2>1
  <2>3. objects[BeforeSeq(o, b) + j] = o[b][j]
    BY <1>4, PartOf, ZenonT(30)
  <2> QED BY <1>4, <2>2, <2>3
<1> HIDE DEF N, objects
<1>8. \A b \in 1..N : BeforeSeq(o, b) \in Nat /\ BeforeSeq(o, b + 1) = BeforeSeq(o, b) + Len(segments[b])
  BY <1>4, PartOf, SMTT(30)
<1>9. ASSUME NEW k \in 2..Len(objects) PROVE objects[k - 1] < objects[k]
  <2>1. k - 1 \in 1..Len(objects) /\ k \in 1..Len(objects) /\ k \in Nat
    BY <1>5
  <2>2. PICK b \in 1..N : \E j \in 1..Len(segments[b]) :
           k - 1 = BeforeSeq(o, b) + j /\ objects[k - 1] = offsets[b] + j - 1
    BY <1>7, <2>1
  <2>3. PICK j \in 1..Len(segments[b]) :
           k - 1 = BeforeSeq(o, b) + j /\ objects[k - 1] = offsets[b] + j - 1
    BY <2>2
  <2>4. PICK c \in 1..N : \E i \in 1..Len(segments[c]) :
           k = BeforeSeq(o, c) + i /\ objects[k] = offsets[c] + i - 1
    BY <1>7, <2>1
  <2>5. PICK i \in 1..Len(segments[c]) : k = BeforeSeq(o, c) + i /\ objects[k] = offsets[c] + i - 1
    BY <2>4
  <2>6. /\ Len(segments[b]) \in Nat /\ Len(segments[c]) \in Nat /\ Len(rows[b]) \in Nat
        /\ Len(segments[b]) <= Len(rows[b]) /\ offsets[b] \in Nat /\ offsets[c] \in Nat
        /\ BeforeSeq(o, b) \in Nat /\ BeforeSeq(o, c) \in Nat
        /\ BeforeSeq(o, c + 1) = BeforeSeq(o, c) + Len(segments[c])
        /\ offsets[b + 1] = offsets[b] + Len(rows[b])
    BY <1>1, <1>2, <1>3, <1>8 DEF N
  <2>7. BeforeSeq(o, b) + j + 1 = BeforeSeq(o, c) + i
    <3> DEFINE x == BeforeSeq(o, b)
               y == BeforeSeq(o, c)
    <3>1. k - 1 = x + j /\ k = y + i /\ x \in Nat /\ y \in Nat /\ k \in Nat /\ j \in Int /\ i \in Int
      BY <2>1, <2>3, <2>5, <2>6
    <3> HIDE DEF x, y
    <3>2. x + j + 1 = y + i
      BY ONLY <3>1
    <3> QED BY <3>2 DEF x, y
  <2>8. ~(c < b)
    <3> SUFFICES ASSUME c < b PROVE FALSE
      OBVIOUS
    <3>1. c + 1 \in 1..(Len(o) + 1) /\ b \in (c + 1)..(Len(o) + 1)
      BY <1>1, <1>4
    <3>2. BeforeSeq(o, c + 1) <= BeforeSeq(o, b)
      BY <1>4, <3>1, BeforeGrows
    <3> DEFINE x == BeforeSeq(o, b)
               y == BeforeSeq(o, c)
               l == Len(segments[c])
    <3>3. y + l <= x /\ x \in Nat /\ y \in Nat /\ l \in Nat /\ i \in 1..l /\ j \in Nat /\ j >= 1
          /\ x + j + 1 = y + i
      BY <2>6, <2>7, <3>2
    <3> HIDE DEF x, y, l
    <3> QED BY ONLY <3>3
  <2>9. CASE c = b
    <3> DEFINE x == BeforeSeq(o, b)
               w == offsets[b]
    <3>1. x + j + 1 = x + i /\ x \in Nat /\ i \in Int /\ j \in Int /\ w \in Nat
          /\ objects[k - 1] = w + j - 1 /\ objects[k] = w + i - 1
      BY <2>3, <2>5, <2>6, <2>7, <2>9
    <3> DEFINE p == objects[k - 1]
               q == objects[k]
    <3> HIDE DEF x, w, p, q
    <3>2. p = w + j - 1 /\ q = w + i - 1
      BY <3>1 DEF p, q
    <3>3. p < q
      BY ONLY <3>1, <3>2
    <3> QED BY <3>3 DEF p, q
  <2>10. CASE b < c
    <3>1. b + 1 \in 1..(Len(rows) + 1) /\ c \in (b + 1)..(Len(rows) + 1)
      BY <1>1, <2>10 DEF N
    <3>2. BeforeSeq(rows, b + 1) <= BeforeSeq(rows, c)
      BY <3>1, BeforeGrows
    <3>3. offsets[b + 1] <= offsets[c]
      BY <1>1, <1>2, <3>2
    <3>4. offsets[b] + j - 1 < offsets[c] + i - 1
      <4> DEFINE x == offsets[b]
                 y == offsets[c]
                 m == Len(segments[b])
                 n == Len(rows[b])
      <4>1. x \in Nat /\ y \in Nat /\ m \in Nat /\ n \in Nat /\ m <= n /\ j \in 1..m /\ x + n <= y
            /\ i \in Nat /\ i >= 1
        BY <2>6, <3>3
      <4> HIDE DEF x, y, m, n
      <4>2. x + j - 1 < y + i - 1
        BY ONLY <4>1
      <4> QED BY <4>2 DEF x, y
    <3> QED BY <2>3, <2>5, <3>4
  <2>11. b \in Nat /\ c \in Nat
    BY <1>1
  <2> QED BY <2>8, <2>9, <2>10, <2>11
<1> QED BY <1>5, <1>6, <1>9 DEF objects, o

-----------------------------------------------------------------------------
(* Encoding *)

\* What merged lists hold, for the encoder: Sound of each of their entries.
LEMMA ListsSound ==
    ASSUME config \in Scans, NEW images, NEW labels, \A i \in Source : labels[i] \in File,
           MergedFrom(merged, images, labels, config.single, config.sources)
    PROVE  LET rows == merged.rows
               segments == merged.segments
               N == Len(merged.rows)
           IN  /\ rows \in Seq(Seq(Row)) /\ segments \in Seq(Seq(Seq(Point))) /\ N \in Nat
               /\ Len(segments) = N /\ Len(merged.sources) = N
               /\ \A j, k \in 1..N : j < k => merged.sources[j] < merged.sources[k]
               /\ \A k \in 1..N : /\ merged.sources[k] \in Source
                                  /\ Sound([rows |-> rows[k], segments |-> segments[k]], config.single,
                                           labels[merged.sources[k]].text)
<1> DEFINE S == Survivors(images, labels, config.single, config.sources)
           kept == InOrder(S)
<1>1. config.sources \in Nat
  BY ConfigIs
<1>2. Lists(merged, kept, images, labels, config.single)
  BY DEF MergedFrom
<1>3. /\ kept \in Seq(S) /\ Len(kept) \in Nat /\ \A i \in S : i \in Source
      /\ S \subseteq Int /\ IsFiniteSet(S) /\ Len(kept) = Cardinality(S)
  BY <1>1, SurvivorsAre DEF Source
<1>4. \A j, k \in 1..Len(kept) : j < k => kept[j] < kept[k]
  BY <1>3, InOrderIs
<1> HIDE DEF S, kept
<1>5. /\ merged.sources = kept /\ merged.rows \in Seq(Seq(Row))
      /\ merged.segments \in Seq(Seq(Seq(Point)))
      /\ Len(merged.rows) = Len(kept) /\ Len(merged.segments) = Len(kept)
      /\ \A k \in 1..Len(kept) :
            /\ merged.rows[k] = Verify(labels[kept[k]], config.single).rows
            /\ merged.segments[k] = Verify(labels[kept[k]], config.single).segments
  BY <1>2 DEF Lists
<1>6. ASSUME NEW k \in 1..Len(kept)
      PROVE  /\ kept[k] \in Source
             /\ Sound([rows |-> merged.rows[k], segments |-> merged.segments[k]], config.single,
                      labels[kept[k]].text)
  <2>1. kept[k] \in Source
    BY <1>3, ElementOfSeq
  <2>2. Sound(Verify(labels[kept[k]], config.single), config.single, labels[kept[k]].text)
    BY <2>1, VerdictSound
  <2> QED BY <1>5, <2>1, <2>2, ZenonT(30) DEF Sound
<1> QED BY <1>3, <1>4, <1>5, <1>6

LEMMA Between ==
    ASSUME NEW n \in Nat, NEW k \in 2..n PROVE k \in 1..n /\ k - 1 \in 1..n /\ k - 1 < k
  OBVIOUS

\* The offsets of nonempty sequences grow.
LEMMA OffsetsGrow ==
    ASSUME NEW S, NEW s \in Seq(Seq(S)), NEW k \in 1..Len(s), Len(s[k]) > 0
    PROVE  Offsets(s)[k] < Offsets(s)[k + 1]
<1>1. k \in 1..(Len(s) + 1) /\ k + 1 \in 1..(Len(s) + 1)
  OBVIOUS
<1>2. Offsets(s)[k] = BeforeSeq(s, k) /\ Offsets(s)[k + 1] = BeforeSeq(s, k + 1)
  BY <1>1, OffsetsAre
<1>3. /\ BeforeSeq(s, k) \in Nat /\ Len(s[k]) \in Nat
      /\ BeforeSeq(s, k + 1) = BeforeSeq(s, k) + Len(s[k])
  BY PartOf
<1> QED BY <1>2, <1>3

\* An element of what some sequences join to is an element of one of them.
LEMMA ElementOf ==
    ASSUME NEW S, NEW s \in Seq(Seq(S)), NEW e \in 1..Len(FlattenSeq(s))
    PROVE  \E b \in 1..Len(s) : \E j \in 1..Len(s[b]) : FlattenSeq(s)[e] = s[b][j]
<1>1. PICK b \in 1..Len(s) : \E j \in 1..Len(s[b]) : e = BeforeSeq(s, b) + j
  BY LocateElement
<1>2. PICK j \in 1..Len(s[b]) : e = BeforeSeq(s, b) + j
  BY <1>1
<1>3. FlattenSeq(s)[BeforeSeq(s, b) + j] = s[b][j]
  BY PartOf
<1> QED BY <1>2, <1>3

\* The labels hold no infinite number: the last condition of _validate_arrays.
AllFinite(r) == \A l \in DOMAIN r.labels : \A k \in 1..5 : r.labels[l][k] # Infinite

LEMMA ResultIsValid ==
    ASSUME config \in Scans, NEW images, NEW labels, \A i \in Source : labels[i] \in File,
           MergedFrom(merged, images, labels, config.single, config.sources),
           CountsTo(merged, config.sources), AllFinite(Result)
    PROVE  ValidArrays(Result)
<1> DEFINE rows == merged.rows
           segments == merged.segments
           points == FlattenSeq(segments)
           objects == FlattenSeq(ObjectsOf(rows, segments))
           N == Len(rows)
           text(k) == labels[merged.sources[k]].text
           r == Result
<1>1. /\ rows \in Seq(Seq(Row)) /\ segments \in Seq(Seq(Seq(Point))) /\ N \in Nat
      /\ Len(segments) = N /\ Len(merged.sources) = N
      /\ \A j, k \in 1..N : j < k => merged.sources[j] < merged.sources[k]
      /\ \A k \in 1..N : Sound([rows |-> rows[k], segments |-> segments[k]], config.single, text(k))
  BY ListsSound
<1>2. /\ r.sources = merged.sources /\ r.offsets = Offsets(rows) /\ r.labels = FlattenSeq(rows)
      /\ r.segmentOffsets = Offsets(points) /\ r.objects = objects
  BY DEF Result, ObjectsOf
<1> HIDE DEF r, text, rows, segments
<1>3. \A k \in 2..Len(r.sources) : r.sources[k - 1] < r.sources[k]
  <2> HIDE DEF N
  <2> SUFFICES ASSUME NEW k \in 2..N PROVE merged.sources[k - 1] < merged.sources[k]
    BY <1>1, <1>2
  <2>1. k \in 1..N /\ k - 1 \in 1..N /\ k - 1 < k
    BY <1>1, Between
  <2> QED BY <1>1, <2>1
<1>4. r.offsets[Len(r.offsets)] = Len(r.labels)
  <2>1. /\ DOMAIN Offsets(rows) = 1..(N + 1) /\ N + 1 \in 1..(N + 1)
        /\ \A k \in 1..(N + 1) : Offsets(rows)[k] = BeforeSeq(rows, k)
    BY <1>1, OffsetsAre
  <2>2. Len(Offsets(rows)) = N + 1
    <3>1. Offsets(rows) = [k \in 1..(N + 1) |-> Len(FlattenSeq(SubSeq(rows, 1, k - 1)))]
      BY DEF Offsets
    <3>2. N + 1 \in Nat
      BY <1>1
    <3> QED BY <3>1, <3>2
  <2>3. BeforeSeq(rows, N + 1) = Len(FlattenSeq(rows))
    BY <1>1, BeforeLast
  <2> QED BY <1>2, <2>1, <2>2, <2>3
<1>5. \A b \in 1..N : Len(segments[b]) <= Len(rows[b])
  <2> SUFFICES ASSUME NEW b \in 1..N PROVE Len(segments[b]) <= Len(rows[b])
    OBVIOUS
  <2>1. Len(segments[b]) = 0 \/ Len(segments[b]) = Len(rows[b])
    BY <1>1 DEF Sound
  <2>2. Len(rows[b]) \in Nat
    BY <1>1
  <2> QED BY <2>1, <2>2
<1>6. /\ Len(objects) = Len(points) /\ objects \in Seq(Nat)
      /\ \A k \in 2..Len(objects) : objects[k - 1] < objects[k]
  BY <1>1, <1>5, ObjectsAscend
<1>7. \A k \in DOMAIN r.sources :
         Len(Materialize(r)[k].segments) \in {0, r.offsets[k + 1] - r.offsets[k]}
  <2>1. DOMAIN r.sources = 1..N
    <3>1. merged.sources \in Seq(Nat)
      BY DEF CountsTo
    <3> QED BY <1>1, <1>2, <3>1
  <2> SUFFICES ASSUME NEW k \in 1..N
               PROVE  Len(Materialize(r)[k].segments) \in {0, r.offsets[k + 1] - r.offsets[k]}
    BY <2>1
  <2>2. Len(Materialize(r)[k].segments) = Len(segments[k])
    <3> DEFINE mine == InOrder({s \in DOMAIN r.objects :
                                   r.offsets[k] <= r.objects[s] /\ r.objects[s] < r.offsets[k + 1]})
    <3>1. Materialize(r)[k].segments =
             [s \in DOMAIN mine |->
                 Slice(r.points, r.segmentOffsets[mine[s]], r.segmentOffsets[mine[s] + 1])]
      BY <2>1, ZenonT(30) DEF Materialize
    <3> DEFINE own == InOrder({s \in DOMAIN objects :
                                  Offsets(rows)[k] <= objects[s] /\ objects[s] < Offsets(rows)[k + 1]})
    <3>2. own \in Seq(Nat) /\ Len(own) = Len(segments[k])
      <4>1. /\ rows \in Seq(Seq(Row)) /\ segments \in Seq(Seq(Seq(Point)))
            /\ Len(segments) = Len(rows) /\ k \in 1..Len(rows)
            /\ \A b \in 1..Len(rows) : Len(segments[b]) <= Len(rows[b])
        BY <1>1, <1>5
      <4> QED BY ONLY <4>1, UnpackOne, Zenon
    <3>2a. mine = own
      BY <1>2
    <3> HIDE DEF own
    <3> HIDE DEF mine
    <3>3. DOMAIN mine = 1..Len(segments[k]) /\ Len(segments[k]) \in Nat
      BY <3>2, <3>2a
    <3> QED BY <3>1, <3>3, SMTT(30)
  <2>3. r.offsets[k + 1] - r.offsets[k] = Len(rows[k])
    <3>1. /\ BeforeSeq(rows, k) \in Nat /\ Len(rows[k]) \in Nat
          /\ BeforeSeq(rows, k + 1) = BeforeSeq(rows, k) + Len(rows[k])
      BY <1>1, PartOf
    <3>2. k \in 1..(N + 1) /\ k + 1 \in 1..(N + 1)
      BY <1>1
    <3>3. r.offsets[k] = BeforeSeq(rows, k) /\ r.offsets[k + 1] = BeforeSeq(rows, k + 1)
      BY <1>1, <1>2, <3>2, OffsetsAre
    <3> QED BY <3>1, <3>3
  <2>4. Len(segments[k]) = 0 \/ Len(segments[k]) = Len(rows[k])
    BY <1>1 DEF Sound
  <2> QED BY <2>2, <2>3, <2>4
<1>8. \A s \in DOMAIN r.objects : r.segmentOffsets[s] < r.segmentOffsets[s + 1]
  <2> SUFFICES ASSUME NEW s \in 1..Len(points) PROVE Offsets(points)[s] < Offsets(points)[s + 1]
    <3>1. DOMAIN r.objects = 1..Len(points)
      BY <1>2, <1>6
    <3> QED BY <1>2, <3>1
  <2>1. PICK b \in 1..N : \E j \in 1..Len(segments[b]) : points[s] = segments[b][j]
    <3> DEFINE T == Seq(Point)
    <3>1. segments \in Seq(Seq(T)) /\ s \in 1..Len(FlattenSeq(segments)) /\ Len(segments) = N
      BY <1>1
    <3> HIDE DEF T, N
    <3>2. \E b \in 1..Len(segments) : \E j \in 1..Len(segments[b]) :
             FlattenSeq(segments)[s] = segments[b][j]
      BY ONLY <3>1, ElementOf
    <3> QED BY <3>1, <3>2
  <2>2. PICK j \in 1..Len(segments[b]) : points[s] = segments[b][j]
    BY <2>1
  <2>3. Len(points[s]) > 0
    BY <1>1, <2>2 DEF Sound
  <2>4. points \in Seq(Seq(Point))
    BY <1>1, FlattenIsSeq
  <2> HIDE DEF points
  <2> QED BY <2>3, <2>4, OffsetsGrow
<1>9. \A l \in DOMAIN r.labels : \A k \in 1..5 : r.labels[l][k] # Infinite
  BY DEF AllFinite, r
<1>10. /\ Len(r.sources) = config.sources - merged.corrupt
       /\ merged.empty <= merged.found /\ merged.found + merged.missing <= config.sources
       /\ \A k \in 2..Len(merged.diagnostics) :
             merged.diagnostics[k - 1][1] < merged.diagnostics[k][1]
  <2> DEFINE d == merged.diagnostics
             l == Len(merged.sources)
             c == merged.corrupt
             n == config.sources
  <2>1. /\ d \in Seq(Nat \X Codes) /\ l \in Nat /\ c \in Nat /\ l + c = n /\ n \in Nat
        /\ \A k \in 1..Len(d) : \A j \in 1..(k - 1) : d[j][1] < d[k][1]
        /\ merged.empty <= merged.found /\ merged.found + merged.missing <= n
    BY ConfigIs DEF CountsTo
  <2>2. Len(d) \in Nat
    BY <2>1
  <2> HIDE DEF d, l, c, n
  <2>3. l = n - c
    BY ONLY <2>1
  <2>4. \A k \in 2..Len(d) : k \in 1..Len(d) /\ k - 1 \in 1..(k - 1)
    BY ONLY <2>2
  <2> QED BY <1>2, <2>1, <2>3, <2>4 DEF d, l, c, n
<1> HIDE DEF r, objects, points
<1> QED BY <1>2, <1>3, <1>4, <1>6, <1>7, <1>8, <1>9, <1>10 DEF ValidArrays, r

LEMMA EncodeHolds == Spec => [](ResultInv /\ CountInv)
<1>1. Init => ResultInv /\ CountInv
  BY ResultInit, CountInit
<1>2. ResultInv /\ CountInv /\ [Next]_vars => ResultInv' /\ CountInv'
  <2>1. ResultInv /\ [Next]_vars => ResultInv'
    BY MergeBaseStep, NothingKeptStep, SteadyStep, SteadyMergedStep, ProofStep, ProvenMergedStep
       DEF ResultInv, MergeBase
  <2>2. ResultInv /\ CountInv /\ [Next]_vars => CountInv'
    BY CountStep DEF ResultInv
  <2> QED BY <2>1, <2>2
<1> QED BY <1>1, <1>2, PTL DEF Spec

\* A result that can be saved is one the encoder accepts, for every dataset and every
\* interleaving of changes with the scan, unless single_cls let an infinite class
\* through (_encode, _validate_arrays).
THEOREM EncoderAccepts == Spec => []RefusedOnlyForInfinite
<1>1. ASSUME ResultInv, CountInv PROVE RefusedOnlyForInfinite
  <2> SUFFICES ASSUME Cacheable, ~ValidArrays(Result)
               PROVE  config.single /\ \E i \in Source : HasInfinite(labelProof[i].of.text)
    BY DEF RefusedOnlyForInfinite, HasInfinite
  <2>1. Proving /\ pc = "done" /\ ProvenTo = config.sources /\ MergedTo = config.sources
    BY DEF Cacheable, Proving, ProvenTo, MergedTo
  <2>2. \A i \in Source : labelProof[i] # Nothing
    BY <1>1, <2>1 DEF ResultInv, ProofInv, Source
  <2>3. MergedFrom(merged, ImagesProven, LabelsProven, config.single, config.sources)
    BY <1>1, <2>1 DEF ResultInv, ProvenMerged
  <2>4. config \in Scans /\ \A i \in Source : LabelsProven[i] \in File
    BY <1>1, <2>2, SeenType DEF ResultInv, MergeBase, Types, LabelsProven
  <2>5. CountsTo(merged, config.sources)
    BY <1>1, <2>1 DEF CountInv
  <2>6. ~AllFinite(Result)
    BY <2>3, <2>4, <2>5, ResultIsValid
  <2>7. PICK l \in DOMAIN Result.labels : \E k \in 1..5 : Result.labels[l][k] = Infinite
    BY <2>6 DEF AllFinite
  <2> DEFINE rows == merged.rows
  <2>8. /\ rows \in Seq(Seq(Row)) /\ Len(rows) \in Nat
        /\ \A b \in 1..Len(rows) :
              /\ merged.sources[b] \in Source
              /\ Sound([rows |-> rows[b], segments |-> merged.segments[b]], config.single,
                       LabelsProven[merged.sources[b]].text)
    BY <2>3, <2>4, ListsSound
  <2>9. Result.labels = FlattenSeq(rows)
    BY DEF Result
  <2> HIDE DEF rows
  <2>10. l \in 1..Len(FlattenSeq(rows))
    <3>1. FlattenSeq(rows) \in Seq(Row)
      BY <2>8, FlattenIsSeq
    <3> QED BY <2>9, <3>1
  <2>11. PICK b \in 1..Len(rows) : \E j \in 1..Len(rows[b]) : FlattenSeq(rows)[l] = rows[b][j]
    BY <2>8, <2>10, ElementOf
  <2>12. PICK j \in 1..Len(rows[b]) : FlattenSeq(rows)[l] = rows[b][j]
    BY <2>11
  <2>13. PICK k \in 1..5 : rows[b][j][k] = Infinite
    BY <2>7, <2>9, <2>12
  <2>14. config.single /\ HasInfinite(LabelsProven[merged.sources[b]].text)
    BY <2>8, <2>13 DEF Sound
  <2>15. LabelsProven[merged.sources[b]] = labelProof[merged.sources[b]].of
    BY <2>8 DEF LabelsProven
  <2> QED BY <2>8, <2>14, <2>15
<1> QED BY <1>1, EncodeHolds, PTL
=============================================================================
