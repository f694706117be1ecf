-------------------------------- MODULE Labels --------------------------------
(***************************************************************************)
(* What a label file means, twice: parse of parser.rs, the native engine,  *)
(* and verify_image_label of _reference.py, the pinned Ultralytics code it *)
(* must agree with whenever it does not ask for it (status 3).             *)
(*                                                                         *)
(* A text is the sequence of its lines, a line the sequence of its tokens; *)
(* it has no blank line at either end, because both sides strip it first.  *)
(* Numbers are exact, in units of 1/200 of the image side or of a class:   *)
(* binary rounding, characters outside ASCII, the separators that only     *)
(* splitlines knows and the keypoint columns are left out.                 *)
(***************************************************************************)
EXTENDS Integers, SequencesExt

CONSTANTS
    Number,         \* the value of every plain token, [token -> Int]
    NumClasses,     \* the dataset's class count
    Infinite        \* the value of an infinite number, beyond all the others

Special == {"inf", "nan", "-0", "word"}
Token == DOMAIN Number \cup Special

ASSUME LabelAssumption ==
    /\ NumClasses \in Nat \ {0}
    /\ \A t \in DOMAIN Number : Number[t] \in Int /\ Number[t] % 2 = 0
    /\ DOMAIN Number \cap Special = {}

\* The side of an image, and the step from one class to the next.
Unit == 200

ASSUME InfiniteAssumption ==
    /\ Infinite \in Int /\ Infinite > 2 * Unit /\ Infinite > NumClasses * Unit
    /\ \A t \in DOMAIN Number : Number[t] < Infinite

\* Native statuses.
Valid == 0
NoFile == 1
Empty == 2
Reference == 3
TooLarge == 4

-----------------------------------------------------------------------------
\* number: plain digits, signs and exponents, finite after rounding.
NativeToken(t) == t \in DOMAIN Number \/ t = "-0"

\* float32 of NumPy: infinity too; "nan" is a number that fails every comparison.
ReferenceToken(t) == NativeToken(t) \/ t = "inf"

ValueOf(t) == CASE t = "-0" -> 0 [] t = "inf" -> Infinite [] OTHER -> Number[t]

\* Any line longer than six tokens makes the file a polygon file.
HasPolygons(text) == \E l \in DOMAIN text : Len(text[l]) > 6

Points(line) ==
    [k \in 1..((Len(line) - 1) \div 2) |-> <<ValueOf(line[2 * k]), ValueOf(line[2 * k + 1])>>]

\* Class, centre and size of the box around the points (segments2boxes).
BoxRow(line) ==
    LET points == Points(line)
        xs == {p[1] : p \in ToSet(points)}
        ys == {p[2] : p \in ToSet(points)}
    IN  <<ValueOf(line[1]), (Min(xs) + Max(xs)) \div 2, (Min(ys) + Max(ys)) \div 2,
          Max(xs) - Min(xs), Max(ys) - Min(ys)>>

RowOf(line, polygons) ==
    IF polygons THEN BoxRow(line) ELSE [k \in 1..5 |-> ValueOf(line[k])]

\* A centre beyond 1.01, a negative number, a class that does not exist.
InRange(row, single) ==
    /\ \A k \in 1..5 : row[k] >= -(Unit \div 100)
    /\ \A k \in 2..5 : row[k] <= Unit + Unit \div 100
    /\ single \/ row[1] < NumClasses * Unit

Before(a, b) == \E k \in 1..5 : a[k] < b[k] /\ \A j \in 1..(k - 1) : a[j] = b[j]

\* The members of a finite set in the order of a relation.
Ordered(S, less) ==
    [i \in 1..Cardinality(S) |->
        CHOOSE x \in S : Cardinality({y \in S : <<y, x>> \in less}) = i - 1]

InOrder(S) == Ordered(S, {p \in S \X S : p[1] < p[2]})
Lexicographic(S) == Ordered(S, {p \in S \X S : Before(p[1], p[2])})

-----------------------------------------------------------------------------
(* parser.rs *)

Record(status) == [status |-> status, rows |-> <<>>, segments |-> <<>>, duplicates |-> 0]

\* The order of the indices: by row, equal rows by index.
Earlier(rows) ==
    {p \in (DOMAIN rows) \X (DOMAIN rows) :
        Before(rows[p[1]], rows[p[2]]) \/ (rows[p[1]] = rows[p[2]] /\ p[1] < p[2])}

\* Mutant of Kept: the sorted order is used although nothing is duplicated.
KeptSorted(rows) == Ordered(DOMAIN rows, Earlier(rows))

\* The indices of the rows that stay: all of them in file order, or, when a row
\* occurs twice, the sorted ones without those that repeat the one before.
Kept(rows) ==
    LET order == Ordered(DOMAIN rows, Earlier(rows))
        new == {k \in DOMAIN order : k = 1 \/ rows[order[k - 1]] # rows[order[k]]}
    IN  IF Cardinality(new) < Len(rows)
        THEN [k \in 1..Cardinality(new) |-> order[InOrder(new)[k]]]
        ELSE [i \in DOMAIN rows |-> i]

\* Mutant of Acceptable: a polygon needs two points.
AcceptableFromTwoPoints(text, polygons) ==
    \A l \in DOMAIN text :
        /\ IF polygons THEN Len(text[l]) >= 5 /\ Len(text[l]) % 2 = 1 /\ Len(text[l]) # 5
           ELSE Len(text[l]) = 5
        /\ \A k \in DOMAIN text[l] : NativeToken(text[l][k])
        /\ polygons => \A k \in 2..Len(text[l]) : text[l][k] # "-0"

\* Lines the native engine reads.  The sign of a zero polygon coordinate is left
\* to the reference.
Acceptable(text, polygons) ==
    \A l \in DOMAIN text :
        /\ IF polygons THEN Len(text[l]) >= 3 /\ Len(text[l]) % 2 = 1 /\ Len(text[l]) # 5
           ELSE Len(text[l]) = 5
        /\ \A k \in DOMAIN text[l] : NativeToken(text[l][k])
        /\ polygons => \A k \in 2..Len(text[l]) : text[l][k] # "-0"

Parse(text, single) ==
    LET polygons == HasPolygons(text)
        rows == [l \in DOMAIN text |-> RowOf(text[l], polygons)]
        kept == Kept(rows)
    IN  IF text = <<>> THEN Record(Empty)
        ELSE IF ~Acceptable(text, polygons) \/ \E l \in DOMAIN text : ~InRange(rows[l], single)
        THEN Record(Reference)
        ELSE [status |-> Valid, rows |-> [i \in DOMAIN kept |-> rows[kept[i]]],
              segments |-> IF polygons THEN [i \in DOMAIN kept |-> Points(text[kept[i]])]
                           ELSE <<>>,
              duplicates |-> Len(rows) - Len(kept)]

-----------------------------------------------------------------------------
(* _reference.py *)

Missing == [kind |-> "missing", text |-> <<>>]
TextFile(text) == [kind |-> "file", text |-> text]

\* np.unique(axis=0): every row once, in order, with its first index.
Unique(rows) ==
    LET values == Lexicographic(ToSet(rows))
    IN  [i \in DOMAIN values |-> Min({l \in DOMAIN rows : rows[l] = values[i]})]

Readable(text, polygons) ==
    \A l \in DOMAIN text :
        /\ IF polygons THEN Len(text[l]) >= 3 /\ Len(text[l]) % 2 = 1 /\ Len(text[l]) # 5
           ELSE Len(text[l]) = 5
        /\ \A k \in DOMAIN text[l] : ReferenceToken(text[l][k])

\* The result of verify_image_label for an image that passed its check.
Verdict(ok, rows, segments, missing, empty, duplicates) ==
    [ok |-> ok, rows |-> rows, segments |-> segments, missing |-> missing,
     empty |-> empty, duplicates |-> duplicates]

Verify(file, single) ==
    LET text == file.text
        polygons == HasPolygons(text)
        rows == [l \in DOMAIN text |-> RowOf(text[l], polygons)]
        unique == IF Cardinality(ToSet(rows)) < Len(rows) THEN Unique(rows)
                  ELSE [l \in DOMAIN rows |-> l]
    IN  IF file.kind = "missing" THEN Verdict(TRUE, <<>>, <<>>, 1, 0, 0)
        ELSE IF text = <<>> THEN Verdict(TRUE, <<>>, <<>>, 0, 1, 0)
        ELSE IF ~Readable(text, polygons) \/ \E l \in DOMAIN text : ~InRange(rows[l], single)
        THEN Verdict(FALSE, <<>>, <<>>, 0, 0, 0)
        ELSE Verdict(TRUE, [i \in DOMAIN unique |-> rows[unique[i]]],
                     IF polygons THEN [i \in DOMAIN unique |-> Points(text[unique[i]])] ELSE <<>>,
                     0, 0, Len(rows) - Len(unique))
=============================================================================
