----------------------------- MODULE SequenceFacts -----------------------------
(***************************************************************************)
(* Facts about sequences of any length: what FoldLeft and FlattenSeq of    *)
(* the community modules compute, one element at a time.  Both define a    *)
(* recursive function; that the function exists, and that the value for a  *)
(* prefix does not depend on what follows it, is proved by induction.      *)
(*                                                                         *)
(* The step of the fold and its first value are constants of this module,  *)
(* so that a module with a fold of its own gets the facts about it by      *)
(*    F == INSTANCE SequenceFacts WITH op <- Step, base <- First           *)
(***************************************************************************)
EXTENDS Integers, SequencesExt, SequenceTheorems, WellFoundedInduction, TLAPS

CONSTANTS
    op(_, _),       \* the step of a fold
    base            \* the value of the fold of an empty sequence

\* The recursion that FoldLeft unfolds to.
Iterates(g, n, seq) ==
    g = [s \in SUBSET (1..n) |->
            IF s = {} THEN base ELSE op(g[s \ {Max(s)}], seq[Max(s)])]

-----------------------------------------------------------------------------
\* Induction over the naturals for a set: a set with 0 and with the successor of
\* every natural number in it holds them all.
LEMMA Induct ==
    ASSUME NEW S, 0 \in S, \A n \in Nat : n \in S => n + 1 \in S
    PROVE  Nat \subseteq S
<1> DEFINE T == Nat \ S
<1>1. SUFFICES ASSUME T # {} PROVE FALSE
  OBVIOUS
<1>0. T \subseteq Nat
  OBVIOUS
<1>2. \E x \in T : \A y \in T : ~ (<<y, x>> \in OpToRel(<, Nat))
  <2> HIDE DEF T
  <2> QED BY <1>1, <1>0, WFMin, NatLessThanWellFounded
<1>2a. PICK x \in T : \A y \in T : ~ (<<y, x>> \in OpToRel(<, Nat))
  BY <1>2
<1>3. \A y \in T : ~(y < x)
  BY <1>2a DEF OpToRel
<1>4. x # 0 /\ x - 1 \in Nat /\ x - 1 \in S
  BY <1>3
<1> QED BY <1>4

\* A fold is the value of such a function for all positions.
LEMMA Unfold ==
    ASSUME NEW seq, NEW n \in Nat, DOMAIN seq = 1..n
    PROVE FoldLeft(op, base, seq) = (CHOOSE g : Iterates(g, n, seq))[1..n]
BY DEF FoldLeft, MapThenFoldSet, Iterates

\* The largest of some positions up to n, n among them, is n.
LEMMA MaxOfInitial ==
    ASSUME NEW n \in Nat, NEW s, s \subseteq 1..n, n \in s
    PROVE  Max(s) = n
<1>1. \A y \in s : n >= y
  OBVIOUS
<1>2. \A x : x \in s /\ (\A y \in s : x >= y) => x = n
  OBVIOUS
<1> QED BY <1>1, <1>2 DEF Max

\* A function with the values of the recursion is one.
LEMMA IteratesIf ==
    ASSUME NEW seq, NEW n \in Nat, NEW g, g = [s \in SUBSET (1..n) |-> g[s]],
           \A s \in SUBSET (1..n) :
               g[s] = IF s = {} THEN base ELSE op(g[s \ {Max(s)}], seq[Max(s)])
    PROVE  Iterates(g, n, seq)
<1> DEFINE body(s) == IF s = {} THEN base ELSE op(g[s \ {Max(s)}], seq[Max(s)])
<1>1. \A s \in SUBSET (1..n) : g[s] = body(s)
  OBVIOUS
<1> HIDE DEF body
<1>2. g = [s \in SUBSET (1..n) |-> body(s)]
  BY <1>1
<1> QED BY <1>2 DEF Iterates, body

\* There is one for every sequence.
LEMMA IteratesExist == ASSUME NEW seq, NEW n \in Nat PROVE \E g : Iterates(g, n, seq)
<1> DEFINE S == {k \in Nat : \E g : Iterates(g, k, seq)}
<1>1. 0 \in S
  <2>1. 1..0 = {} /\ SUBSET {} = {{}}
    OBVIOUS
  <2> DEFINE g == [s \in {{}} |-> base]
  <2>2. Iterates(g, 0, seq)
    BY <2>1 DEF Iterates
  <2> QED BY <2>2
<1>2. ASSUME NEW k \in Nat, k \in S PROVE k + 1 \in S
  <2>1. PICK g : Iterates(g, k, seq)
    BY <1>2
  <2> DEFINE h == [s \in SUBSET (1..(k + 1)) |->
                      IF k + 1 \in s THEN op(g[s \ {k + 1}], seq[k + 1]) ELSE g[s]]
  <2>2. h = [s \in SUBSET (1..(k + 1)) |-> h[s]]
    OBVIOUS
  <2>3. /\ \A s \in SUBSET (1..(k + 1)) : k + 1 \in s => h[s] = op(g[s \ {k + 1}], seq[k + 1])
        /\ \A s \in SUBSET (1..(k + 1)) : k + 1 \notin s => h[s] = g[s]
    OBVIOUS
  <2> HIDE DEF h
  <2>4. ASSUME NEW s \in SUBSET (1..(k + 1))
        PROVE  h[s] = IF s = {} THEN base ELSE op(h[s \ {Max(s)}], seq[Max(s)])
    <3>1. CASE k + 1 \in s
      <4>1. Max(s) = k + 1
        <5>1. k + 1 \in Nat /\ s \subseteq 1..(k + 1)
          OBVIOUS
        <5> QED BY <3>1, <5>1, MaxOfInitial
      <4>2. s \ {k + 1} \in SUBSET (1..(k + 1)) /\ k + 1 \notin s \ {k + 1} /\ s # {}
        BY <3>1
      <4>3. h[s] = op(g[s \ {k + 1}], seq[k + 1]) /\ h[s \ {k + 1}] = g[s \ {k + 1}]
        BY <2>3, <3>1, <4>2
      <4> QED BY <4>1, <4>2, <4>3
    <3>2. CASE k + 1 \notin s
      <4>1. s \in SUBSET (1..k)
        BY <3>2
      <4>2. g[s] = IF s = {} THEN base ELSE op(g[s \ {Max(s)}], seq[Max(s)])
        BY <2>1, <4>1 DEF Iterates
      <4>3. s \ {Max(s)} \in SUBSET (1..(k + 1)) /\ k + 1 \notin s \ {Max(s)}
        BY <3>2
      <4>4. h[s] = g[s] /\ h[s \ {Max(s)}] = g[s \ {Max(s)}]
        BY <2>3, <3>2, <4>3
      <4> QED BY <4>2, <4>4
    <3> QED BY <3>1, <3>2
  <2>5. Iterates(h, k + 1, seq)
    <3>1. k + 1 \in Nat
      OBVIOUS
    <3> QED BY <2>2, <2>4, <3>1, IteratesIf
  <2> QED BY <2>5
<1> HIDE DEF S
<1>3. n \in S
  BY <1>1, <1>2, Induct
<1> QED BY <1>3 DEF S

\* Its values for the first positions, one by one.
LEMMA IteratesUnfold ==
    ASSUME NEW seq, NEW n \in Nat, NEW g, Iterates(g, n, seq)
    PROVE  g[{}] = base /\ \A k \in 1..n : g[1..k] = op(g[1..(k - 1)], seq[k])
<1>1. g[{}] = base
  BY DEF Iterates
<1>2. ASSUME NEW k \in 1..n PROVE g[1..k] = op(g[1..(k - 1)], seq[k])
  <2>1. 1..k \in SUBSET (1..n) /\ k \in 1..k
    OBVIOUS
  <2>2. Max(1..k) = k
    BY MaxOfInitial
  <2>3. (1..k) \ {k} = 1..(k - 1)
    OBVIOUS
  <2>4. g[1..k] = op(g[(1..k) \ {Max(1..k)}], seq[Max(1..k)])
    BY <2>1 DEF Iterates
  <2> QED BY <2>2, <2>3, <2>4
<1> QED BY <1>1, <1>2

\* They depend only on the elements up to there.
LEMMA IteratesAgree ==
    ASSUME NEW seq, NEW other, NEW n \in Nat, NEW m \in Nat, NEW g, NEW h,
           Iterates(g, n, seq), Iterates(h, m, other),
           NEW k \in Nat, k <= n, k <= m, \A i \in 1..k : seq[i] = other[i]
    PROVE  g[1..k] = h[1..k]
<1> DEFINE S == {j \in Nat : j <= k => g[1..j] = h[1..j]}
<1>1. 0 \in S
  <2>1. 1..0 = {}
    OBVIOUS
  <2> QED BY <2>1, IteratesUnfold
<1>2. ASSUME NEW j \in Nat, j \in S PROVE j + 1 \in S
  <2>1. SUFFICES ASSUME j + 1 <= k PROVE g[1..(j + 1)] = h[1..(j + 1)]
    OBVIOUS
  <2>2. j + 1 \in 1..n /\ j + 1 \in 1..m /\ j + 1 \in 1..k /\ (j + 1) - 1 = j
    BY <2>1
  <2>3. g[1..j] = h[1..j]
    BY <1>2, <2>1
  <2>4. g[1..(j + 1)] = op(g[1..j], seq[j + 1])
    BY <2>2, IteratesUnfold
  <2>5. h[1..(j + 1)] = op(h[1..j], other[j + 1])
    BY <2>2, IteratesUnfold
  <2> QED BY <2>2, <2>3, <2>4, <2>5
<1> HIDE DEF S
<1>3. k \in S
  BY <1>1, <1>2, Induct
<1> QED BY <1>3 DEF S

\* A fold of the first n + 1 elements is one step after the fold of the first n.
THEOREM FoldStep ==
    ASSUME NEW n \in Nat, NEW seq, DOMAIN seq = 1..(n + 1)
    PROVE  FoldLeft(op, base, seq) = op(FoldLeft(op, base, [i \in 1..n |-> seq[i]]), seq[n + 1])
<1> DEFINE other == [i \in 1..n |-> seq[i]]
<1>0. DOMAIN other = 1..n /\ \A i \in 1..n : seq[i] = other[i]
  OBVIOUS
<1> HIDE DEF other
<1>1. PICK g : Iterates(g, n + 1, seq) /\ FoldLeft(op, base, seq) = g[1..(n + 1)]
  <2>1. \E f : Iterates(f, n + 1, seq)
    BY IteratesExist
  <2> QED BY <2>1, Unfold
<1>2. PICK h : Iterates(h, n, other) /\ FoldLeft(op, base, other) = h[1..n]
  <2>1. \E f : Iterates(f, n, other)
    BY IteratesExist
  <2> QED BY <1>0, <2>1, Unfold
<1>3. g[1..(n + 1)] = op(g[1..n], seq[n + 1])
  <2>1. n + 1 \in Nat /\ n + 1 \in 1..(n + 1) /\ (n + 1) - 1 = n
    OBVIOUS
  <2> QED BY <1>1, <2>1, IteratesUnfold
<1>4. g[1..n] = h[1..n]
  <2>1. n + 1 \in Nat /\ n <= n + 1 /\ n <= n
    OBVIOUS
  <2> QED BY <1>0, <1>1, <1>2, <2>1, IteratesAgree
<1> QED BY <1>1, <1>2, <1>3, <1>4 DEF other

\* A fold of nothing is where it starts.
THEOREM FoldEmpty ==
    ASSUME NEW seq, DOMAIN seq = {}
    PROVE  FoldLeft(op, base, seq) = base
<1>1. 1..0 = {}
  OBVIOUS
<1>2. \E f : Iterates(f, 0, seq)
  BY IteratesExist
<1>3. FoldLeft(op, base, seq) = (CHOOSE f : Iterates(f, 0, seq))[{}]
  BY <1>1, Unfold
<1> QED BY <1>2, <1>3, IteratesUnfold

\* The same for a sequence that grows by one element.
THEOREM FoldAppend ==
    ASSUME NEW S, NEW seq \in Seq(S), NEW x \in S
    PROVE  FoldLeft(op, base, Append(seq, x)) = op(FoldLeft(op, base, seq), x)
<1> DEFINE n == Len(seq)
<1> DEFINE all == Append(seq, x)
<1>1. n \in Nat /\ DOMAIN all = 1..(n + 1) /\ all[n + 1] = x
  OBVIOUS
<1>2. [i \in 1..n |-> all[i]] = seq
  OBVIOUS
<1> HIDE DEF n, all
<1>3. FoldLeft(op, base, all) = op(FoldLeft(op, base, [i \in 1..n |-> all[i]]), all[n + 1])
  BY <1>1, FoldStep
<1> QED BY <1>1, <1>2, <1>3 DEF all

-----------------------------------------------------------------------------
(* FlattenSeq *)

Joined(s, t) == s \o t

\* The recursion that FlattenSeq unfolds to, for the first n sequences.
Joins(g, n, seqs) ==
    g = [i \in 1..n |-> IF i = 1 THEN seqs[i] ELSE Joined(g[i - 1], seqs[i])]

\* The values of such a function, one by one.
LEMMA JoinsUnfold ==
    ASSUME NEW seqs, NEW n \in Nat, NEW g, Joins(g, n, seqs), NEW k \in 1..n
    PROVE  g[k] = IF k = 1 THEN seqs[1] ELSE Joined(g[k - 1], seqs[k])
<1> DEFINE body(i) == IF i = 1 THEN seqs[i] ELSE Joined(g[i - 1], seqs[i])
<1>1. g = [i \in 1..n |-> body(i)]
  BY DEF Joins
<1> HIDE DEF body
<1>2. g[k] = body(k)
  BY <1>1
<1> QED BY <1>2 DEF body

\* There is such a function.
LEMMA JoinsExist == ASSUME NEW seqs, NEW n \in Nat PROVE \E g : Joins(g, n, seqs)
<1> DEFINE S == {k \in Nat : \E g : Joins(g, k, seqs)}
<1>1. 0 \in S
  <2> DEFINE g == [i \in {} |-> seqs]
  <2>1. 1..0 = {}
    OBVIOUS
  <2>2. g = [i \in {} |-> IF i = 1 THEN seqs[i] ELSE Joined(g[i - 1], seqs[i])]
    OBVIOUS
  <2>3. Joins(g, 0, seqs)
    BY <2>1, <2>2 DEF Joins
  <2> QED BY <2>3
<1>2. ASSUME NEW k \in Nat, k \in S PROVE k + 1 \in S
  <2>1. PICK g : Joins(g, k, seqs)
    BY <1>2
  <2> DEFINE top == IF k = 0 THEN seqs[1] ELSE Joined(g[k], seqs[k + 1])
  <2>3. top = IF k = 0 THEN seqs[1] ELSE Joined(g[k], seqs[k + 1])
    OBVIOUS
  <2> HIDE DEF top
  <2> DEFINE h == [i \in 1..(k + 1) |-> IF i = k + 1 THEN top ELSE g[i]]
  <2> DEFINE body(f, i) == IF i = 1 THEN seqs[i] ELSE Joined(f[i - 1], seqs[i])
  <2>2. /\ h = [i \in 1..(k + 1) |-> h[i]]
        /\ h[k + 1] = top
        /\ \A i \in 1..k : h[i] = g[i]
    OBVIOUS
  <2> HIDE DEF h
  <2>4. \A i \in 1..k : g[i] = body(g, i)
    <3>1. TAKE i \in 1..k
    <3>2. g[i] = IF i = 1 THEN seqs[1] ELSE Joined(g[i - 1], seqs[i])
      BY ONLY <1>2, <2>1, <3>1, JoinsUnfold
    <3> QED BY ONLY <3>2 DEF body
  <2>5. \A i \in 1..(k + 1) : h[i] = body(h, i)
    <3>1. TAKE i \in 1..(k + 1)
    <3>2. CASE i = k + 1 /\ k = 0
      BY <2>2, <2>3, <3>2
    <3>3. CASE i = k + 1 /\ k # 0
      <4>1. i - 1 = k /\ k \in 1..k /\ i # 1
        BY <3>3
      <4> QED BY <2>2, <2>3, <3>3, <4>1
    <3>4. CASE i = 1 /\ i # k + 1
      <4>1. i \in 1..k
        BY <3>4
      <4> QED BY <2>2, <2>4, <3>4, <4>1
    <3>5. CASE i # 1 /\ i # k + 1
      <4>1. i \in 1..k /\ i - 1 \in 1..k
        BY <3>5
      <4> QED BY <2>2, <2>4, <3>5, <4>1
    <3> QED BY <3>2, <3>3, <3>4, <3>5
  <2> HIDE DEF body
  <2>6. h = [i \in 1..(k + 1) |-> body(h, i)]
    BY <2>2, <2>5
  <2>7. Joins(h, k + 1, seqs)
    BY <2>6 DEF Joins, body
  <2> QED BY <2>7
<1> HIDE DEF S
<1>3. n \in S
  BY <1>1, <1>2, Induct
<1> QED BY <1>3 DEF S

\* The next value, from the one before.
LEMMA JoinsNext ==
    ASSUME NEW seqs, NEW n \in Nat, NEW g, Joins(g, n, seqs),
           NEW k \in Nat, k # 0, k + 1 <= n
    PROVE  g[k + 1] = Joined(g[k], seqs[k + 1])
<1>1. k + 1 \in 1..n /\ k + 1 # 1 /\ (k + 1) - 1 = k
  OBVIOUS
<1>2. g[k + 1] = IF k + 1 = 1 THEN seqs[1] ELSE Joined(g[(k + 1) - 1], seqs[k + 1])
  BY <1>1, JoinsUnfold
<1> QED BY <1>1, <1>2

\* They depend only on the sequences up to there.
LEMMA JoinsAgree ==
    ASSUME NEW seqs, NEW other, NEW n \in Nat, NEW m \in Nat, NEW g, NEW h,
           Joins(g, n, seqs), Joins(h, m, other),
           NEW k \in Nat, k <= n, k <= m, \A i \in 1..k : seqs[i] = other[i]
    PROVE  k # 0 => g[k] = h[k]
<1> DEFINE S == {j \in Nat : j # 0 /\ j <= k => g[j] = h[j]}
<1>1. 0 \in S
  OBVIOUS
<1>2. ASSUME NEW j \in Nat, j \in S PROVE j + 1 \in S
  <2>1. SUFFICES ASSUME j + 1 <= k PROVE g[j + 1] = h[j + 1]
    OBVIOUS
  <2>2. j + 1 \in 1..n /\ j + 1 \in 1..m /\ j + 1 \in 1..k /\ (j + 1) - 1 = j
    BY <2>1
  <2>3. CASE j = 0
    <3>1. g[1] = seqs[1] /\ h[1] = other[1]
      BY <2>2, <2>3, JoinsUnfold
    <3> QED BY <2>2, <2>3, <3>1
  <2>4. CASE j # 0
    <3>1. g[j] = h[j]
      BY <1>2, <2>1, <2>4
    <3>2. g[j + 1] = Joined(g[j], seqs[j + 1]) /\ h[j + 1] = Joined(h[j], other[j + 1])
      <4>1. j + 1 <= n /\ j + 1 <= m
        BY <2>2
      <4>2. g[j + 1] = Joined(g[j], seqs[j + 1])
        BY <2>4, <4>1, JoinsNext
      <4>3. h[j + 1] = Joined(h[j], other[j + 1])
        BY <2>4, <4>1, JoinsNext
      <4> QED BY <4>2, <4>3
    <3> QED BY <2>2, <3>1, <3>2
  <2> QED BY <2>3, <2>4
<1> HIDE DEF S
<1>3. k \in S
  BY <1>1, <1>2, Induct
<1> QED BY <1>3 DEF S

\* Nothing joined is nothing.
THEOREM FlattenEmpty == FlattenSeq(<<>>) = <<>>
  BY DEF FlattenSeq

\* The sequences that are joined, one more than before.
LEMMA FlattenMore ==
    ASSUME NEW seqs, NEW other, NEW n \in Nat, n # 0, Len(seqs) = n + 1, Len(other) = n,
           \A i \in 1..n : seqs[i] = other[i]
    PROVE  FlattenSeq(seqs) = Joined(FlattenSeq(other), seqs[n + 1])
<1>1. n + 1 \in Nat /\ n + 1 # 0 /\ n <= n /\ n <= n + 1 /\ n + 1 <= n + 1
  OBVIOUS
<1>2. PICK g : Joins(g, n + 1, seqs) /\ FlattenSeq(seqs) = g[n + 1]
  <2>1. \E f : Joins(f, n + 1, seqs)
    BY <1>1, JoinsExist
  <2>2. FlattenSeq(seqs) = (CHOOSE f : Joins(f, n + 1, seqs))[n + 1]
    BY <1>1 DEF FlattenSeq, Joins, Joined
  <2> QED BY <2>1, <2>2
<1>3. PICK h : Joins(h, n, other) /\ FlattenSeq(other) = h[n]
  <2>1. \E f : Joins(f, n, other)
    BY JoinsExist
  <2>2. FlattenSeq(other) = (CHOOSE f : Joins(f, n, other))[n]
    BY DEF FlattenSeq, Joins, Joined
  <2> QED BY <2>1, <2>2
<1>4. n # 0 => g[n] = h[n]
  BY <1>1, <1>2, <1>3, JoinsAgree
<1>5. g[n + 1] = Joined(g[n], seqs[n + 1])
  BY <1>1, <1>2, JoinsNext
<1> QED BY <1>2, <1>3, <1>4, <1>5

\* What joins n + 1 sequences is what joins the first n, and the last.
THEOREM FlattenStep ==
    ASSUME NEW S, NEW seqs \in Seq(Seq(S)), NEW n \in Nat, Len(seqs) = n + 1
    PROVE  FlattenSeq(seqs) = FlattenSeq(SubSeq(seqs, 1, n)) \o seqs[n + 1]
<1>1. /\ Len(SubSeq(seqs, 1, n)) = n
      /\ \A i \in 1..n : seqs[i] = SubSeq(seqs, 1, n)[i]
      /\ seqs[n + 1] \in Seq(S)
  OBVIOUS
<1>2. CASE n # 0
  BY <1>1, <1>2, FlattenMore DEF Joined
<1>3. CASE n = 0
  <2>1. SubSeq(seqs, 1, n) = <<>> /\ n + 1 = 1
    BY <1>3
  <2>2. PICK g : Joins(g, 1, seqs) /\ FlattenSeq(seqs) = g[1]
    <3>1. \E f : Joins(f, 1, seqs)
      BY JoinsExist
    <3>2. Len(seqs) # 0 /\ Len(seqs) = 1
      BY <1>3
    <3>3. FlattenSeq(seqs) = (CHOOSE f : Joins(f, 1, seqs))[1]
      BY <3>2 DEF FlattenSeq, Joins, Joined
    <3> QED BY <3>1, <3>3
  <2>3. g[1] = seqs[1]
    BY <2>2, JoinsUnfold
  <2>4. <<>> \o seqs[1] = seqs[1]
    BY <1>1, <2>1, ConcatEmptySeq
  <2> QED BY <2>1, <2>2, <2>3, <2>4, FlattenEmpty
<1> QED BY <1>2, <1>3

\* What joins sequences over S is one.
THEOREM FlattenType ==
    ASSUME NEW S, NEW seqs \in Seq(Seq(S))
    PROVE  FlattenSeq(seqs) \in Seq(S)
<1> DEFINE T == {n \in Nat : \A s \in Seq(Seq(S)) : Len(s) = n => FlattenSeq(s) \in Seq(S)}
<1>1. 0 \in T
  BY FlattenEmpty
<1>2. ASSUME NEW n \in Nat, n \in T PROVE n + 1 \in T
  <2>1. SUFFICES ASSUME NEW s \in Seq(Seq(S)), Len(s) = n + 1 PROVE FlattenSeq(s) \in Seq(S)
    OBVIOUS
  <2>2. SubSeq(s, 1, n) \in Seq(Seq(S)) /\ Len(SubSeq(s, 1, n)) = n /\ s[n + 1] \in Seq(S)
    BY <2>1
  <2>3. FlattenSeq(SubSeq(s, 1, n)) \in Seq(S)
    BY <1>2, <2>2
  <2>4. FlattenSeq(s) = FlattenSeq(SubSeq(s, 1, n)) \o s[n + 1]
    BY <2>1, FlattenStep
  <2> QED BY <2>2, <2>3, <2>4
<1> HIDE DEF T
<1>3. Len(seqs) \in T
  <2>1. Len(seqs) \in Nat
    OBVIOUS
  <2> QED BY <1>1, <1>2, <2>1, Induct
<1> QED BY <1>3 DEF T

\* One more sequence at the end.
THEOREM FlattenAppend ==
    ASSUME NEW S, NEW seqs \in Seq(Seq(S)), NEW s \in Seq(S)
    PROVE  FlattenSeq(Append(seqs, s)) = FlattenSeq(seqs) \o s
<1> DEFINE n == Len(seqs)
<1> DEFINE all == Append(seqs, s)
<1>1. all \in Seq(Seq(S)) /\ Len(all) = n + 1 /\ all[n + 1] = s /\ n \in Nat
  OBVIOUS
<1>2. SubSeq(all, 1, n) = seqs
  OBVIOUS
<1> HIDE DEF n, all
<1>3. FlattenSeq(all) = FlattenSeq(SubSeq(all, 1, n)) \o all[n + 1]
  BY <1>1, FlattenStep
<1> QED BY <1>1, <1>2, <1>3 DEF all

\* t begins with s.
Begins(s, t) == Len(s) <= Len(t) /\ \A k \in 1..Len(s) : t[k] = s[k]

\* What begins with a sequence still does when it grows.
LEMMA BeginsConcat ==
    ASSUME NEW S, NEW s \in Seq(S), NEW t \in Seq(S), NEW u \in Seq(S), Begins(s, t)
    PROVE  Begins(s, t \o u)
  BY DEF Begins

\* What the first sequences join to is the beginning of what all of them do.
THEOREM FlattenPrefix ==
    ASSUME NEW S, NEW seqs \in Seq(Seq(S)), NEW i \in 0..Len(seqs)
    PROVE  Begins(FlattenSeq(SubSeq(seqs, 1, i)), FlattenSeq(seqs))
<1> DEFINE T == {n \in Nat : i + n <= Len(seqs) =>
                    Begins(FlattenSeq(SubSeq(seqs, 1, i)), FlattenSeq(SubSeq(seqs, 1, i + n)))}
<1>0. \A j \in 0..Len(seqs) : SubSeq(seqs, 1, j) \in Seq(Seq(S))
  OBVIOUS
<1>1. 0 \in T
  <2>1. FlattenSeq(SubSeq(seqs, 1, i)) \in Seq(S)
    BY <1>0, FlattenType
  <2>2. i + 0 = i
    OBVIOUS
  <2> QED BY <2>1, <2>2 DEF Begins
<1>2. ASSUME NEW n \in Nat, n \in T PROVE n + 1 \in T
  <2>1. SUFFICES ASSUME i + (n + 1) <= Len(seqs)
                 PROVE  Begins(FlattenSeq(SubSeq(seqs, 1, i)), FlattenSeq(SubSeq(seqs, 1, i + (n + 1))))
    OBVIOUS
  <2> DEFINE more == SubSeq(seqs, 1, i + (n + 1))
  <2>2. /\ more \in Seq(Seq(S)) /\ i + n \in Nat /\ Len(more) = (i + n) + 1
        /\ SubSeq(more, 1, i + n) = SubSeq(seqs, 1, i + n)
        /\ more[(i + n) + 1] \in Seq(S)
    BY <2>1
  <2> HIDE DEF more
  <2>3. FlattenSeq(more) = FlattenSeq(SubSeq(seqs, 1, i + n)) \o more[(i + n) + 1]
    BY <2>2, FlattenStep
  <2>4. /\ FlattenSeq(SubSeq(seqs, 1, i)) \in Seq(S)
        /\ FlattenSeq(SubSeq(seqs, 1, i + n)) \in Seq(S)
    <3>1. i + n \in 0..Len(seqs)
      BY <2>1
    <3> QED BY <1>0, <3>1, FlattenType
  <2>5. Begins(FlattenSeq(SubSeq(seqs, 1, i)), FlattenSeq(SubSeq(seqs, 1, i + n)))
    BY <1>2, <2>1
  <2>7. Begins(FlattenSeq(SubSeq(seqs, 1, i)), FlattenSeq(more))
    BY <2>2, <2>3, <2>4, <2>5, BeginsConcat
  <2> QED BY <2>7 DEF more
<1> HIDE DEF T
<1>3. Len(seqs) - i \in T
  <2>1. Len(seqs) - i \in Nat
    OBVIOUS
  <2> QED BY <1>1, <1>2, <2>1, Induct
<1>4. SubSeq(seqs, 1, i + (Len(seqs) - i)) = seqs
  OBVIOUS
<1>5. i + (Len(seqs) - i) <= Len(seqs)
  OBVIOUS
<1>6. Begins(FlattenSeq(SubSeq(seqs, 1, i)), FlattenSeq(SubSeq(seqs, 1, i + (Len(seqs) - i))))
  BY <1>3, <1>5 DEF T
<1> QED BY <1>4, <1>6

\* Where the elements of one sequence are in what all of them join to.
THEOREM FlattenAt ==
    ASSUME NEW S, NEW seqs \in Seq(Seq(S)), NEW i \in Nat, i + 1 <= Len(seqs)
    PROVE  LET before == Len(FlattenSeq(SubSeq(seqs, 1, i)))
           IN  /\ Len(FlattenSeq(SubSeq(seqs, 1, i + 1))) = before + Len(seqs[i + 1])
               /\ before + Len(seqs[i + 1]) <= Len(FlattenSeq(seqs))
               /\ \A k \in 1..Len(seqs[i + 1]) : FlattenSeq(seqs)[before + k] = seqs[i + 1][k]
<1> DEFINE more == SubSeq(seqs, 1, i + 1)
<1> DEFINE less == SubSeq(seqs, 1, i)
<1>1. /\ more \in Seq(Seq(S)) /\ Len(more) = i + 1 /\ SubSeq(more, 1, i) = less
      /\ less \in Seq(Seq(S)) /\ more[i + 1] = seqs[i + 1] /\ seqs[i + 1] \in Seq(S)
      /\ i + 1 \in 0..Len(seqs)
  OBVIOUS
<1>2. /\ Len(FlattenSeq(more)) <= Len(FlattenSeq(seqs))
      /\ \A k \in 1..Len(FlattenSeq(more)) : FlattenSeq(seqs)[k] = FlattenSeq(more)[k]
  <2>1. Begins(FlattenSeq(more), FlattenSeq(seqs))
    BY <1>1, FlattenPrefix
  <2> QED BY <2>1 DEF Begins
<1> HIDE DEF more, less
<1>3. FlattenSeq(more) = FlattenSeq(less) \o seqs[i + 1]
  BY <1>1, FlattenStep
<1>4. FlattenSeq(less) \in Seq(S)
  BY <1>1, FlattenType
<1> DEFINE all == FlattenSeq(seqs)
<1> DEFINE first == FlattenSeq(less)
<1> DEFINE s == seqs[i + 1]
<1>5. first \in Seq(S) /\ s \in Seq(S)
  BY <1>1, <1>4
<1>6. Len(first \o s) <= Len(all) /\ \A k \in 1..Len(first \o s) : all[k] = (first \o s)[k]
  BY <1>2, <1>3
<1>7. Len(FlattenSeq(more)) = Len(first) + Len(s)
  BY <1>3, <1>5
<1> HIDE DEF all, first, s
<1>8. /\ Len(first) + Len(s) <= Len(all)
      /\ \A k \in 1..Len(s) : all[Len(first) + k] = s[k]
  <2>1. Len(first \o s) = Len(first) + Len(s) /\ Len(first) \in Nat
    BY <1>5
  <2>2. \A k \in 1..Len(s) : Len(first) + k \in 1..(Len(first) + Len(s))
                             /\ (first \o s)[Len(first) + k] = s[k]
    BY <1>5
  <2> QED BY <1>6, <2>1, <2>2
<1> QED BY <1>7, <1>8 DEF all, first, s, more, less
=============================================================================
