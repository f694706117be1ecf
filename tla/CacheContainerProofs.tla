------------------------- MODULE CacheContainerProofs -------------------------
(***************************************************************************)
(* Proofs about CacheContainer, for any files, payloads and limits and any *)
(* number of changes: what a loader reserves, accepts and refuses.         *)
(*                                                                         *)
(* The invariant follows the reader through the file.  As long as the file *)
(* is the one that was opened, the cells before its offset are the header, *)
(* the rows and the chunks it has taken.                                   *)
(***************************************************************************)
EXTENDS CacheContainer, SequenceTheorems, TLAPS

\* What SequenceFacts says of the sum over the rows of a table.
RowSum == INSTANCE SequenceFacts WITH op <- WithRow, base <- 0

-----------------------------------------------------------------------------
(* Cells *)

Cell ==
    {Header(n) : n \in Nat} \cup {Row(n, s) : n \in Nat, s \in Seq(Datum)}
        \cup {Chunk(d) : d \in Datum}

\* What is said of a cell one by one, and of all cells as a set.
LEMMA CellMade ==
    /\ \A n \in Nat : Header(n) \in Cell
    /\ \A n \in Nat, s \in Seq(Datum) : Row(n, s) \in Cell
    /\ \A d \in Datum : Chunk(d) \in Cell
    /\ \A c : IsCell(c) => c \in Cell
<1>1. /\ \A n \in Nat : Header(n) \in Cell
      /\ \A n \in Nat, s \in Seq(Datum) : Row(n, s) \in Cell
      /\ \A d \in Datum : Chunk(d) \in Cell
  BY DEF Cell
<1>2. ASSUME NEW c, IsCell(c) PROVE c \in Cell
  BY <1>1, <1>2 DEF IsCell
<1> QED BY <1>1, <1>2

\* What can be read off a cell.
LEMMA CellRead ==
    ASSUME NEW c \in Cell
    PROVE  /\ c.number \in Nat
           /\ c.kind = "header" => c = Header(c.number)
           /\ c.kind = "row" => c = Row(c.number, c.digest) /\ c.digest \in Seq(Datum)
  BY DEF Cell, Header, Row, Chunk

\* The parts of a row.
LEMMA RowParts ==
    ASSUME NEW n, NEW s
    PROVE  /\ Row(n, s).kind = "row" /\ Row(n, s).number = n /\ Row(n, s).digest = s
           /\ Header(n).kind = "header" /\ Header(n).number = n
  BY DEF Row, Header

-----------------------------------------------------------------------------
(* The file of a list of sections *)

Section == Seq(Datum)
Bodies(sections) == [i \in DOMAIN sections |-> Body(sections[i])]
Chunks(sections) == FlattenSeq(Bodies(sections))

\* The chunks of a section.
LEMMA BodyType ==
    ASSUME NEW s \in Section
    PROVE  /\ Body(s) \in Seq(Cell) /\ Len(Body(s)) = Len(s)
           /\ \A k \in 1..Len(s) : Body(s)[k] = Chunk(s[k])
<1>1. \A k \in 1..Len(s) : Chunk(s[k]) \in Cell
  BY CellMade DEF Section
<1>2. Body(s) = [k \in 1..Len(s) |-> Chunk(s[k])]
  BY DEF Body, Section
<1> QED BY <1>1, <1>2 DEF Section

\* Their list, section by section.
LEMMA BodiesType ==
    ASSUME NEW sections \in Seq(Section)
    PROVE  /\ Bodies(sections) \in Seq(Seq(Cell)) /\ Len(Bodies(sections)) = Len(sections)
           /\ \A i \in 1..Len(sections) : Bodies(sections)[i] = Body(sections[i])
<1>1. \A i \in 1..Len(sections) : Body(sections[i]) \in Seq(Cell)
  BY BodyType
<1>2. Bodies(sections) = [i \in 1..Len(sections) |-> Body(sections[i])]
  BY DEF Bodies
<1> QED BY <1>1, <1>2

\* FlattenSeq is the one SequenceFacts speaks of.
LEMMA SameFlatten == ASSUME NEW s PROVE RowSum!FlattenSeq(s) = FlattenSeq(s)
  BY DEF RowSum!FlattenSeq, FlattenSeq

\* All chunks of a list of sections are cells.
LEMMA ChunksType ==
    ASSUME NEW sections \in Seq(Section)
    PROVE  Chunks(sections) \in Seq(Cell)
<1>1. RowSum!FlattenSeq(Bodies(sections)) \in Seq(Cell)
  BY BodiesType, RowSum!FlattenType
<1> QED BY <1>1, SameFlatten DEF Chunks

\* No sections have no chunks.
LEMMA ChunksEmpty == Chunks(<<>>) = <<>>
<1>1. Bodies(<<>>) = <<>>
  BY DEF Bodies
<1>2. RowSum!FlattenSeq(<<>>) = <<>>
  BY RowSum!FlattenEmpty
<1> QED BY <1>1, <1>2, SameFlatten DEF Chunks

\* One more section has its chunks at the end.
LEMMA ChunksAppend ==
    ASSUME NEW sections \in Seq(Section), NEW s \in Section
    PROVE  Chunks(Append(sections, s)) = Chunks(sections) \o Body(s)
<1>1. Bodies(Append(sections, s)) = Append(Bodies(sections), Body(s))
  <2> DEFINE all == Append(sections, s)
  <2>1. all \in Seq(Section) /\ Len(all) = Len(sections) + 1
    OBVIOUS
  <2>9. /\ Bodies(all) \in Seq(Seq(Cell)) /\ Len(Bodies(all)) = Len(sections) + 1
        /\ \A i \in 1..(Len(sections) + 1) : Bodies(all)[i] = Body(all[i])
    <3> HIDE DEF all
    <3> QED BY <2>1, BodiesType
  <2>2. /\ Bodies(Append(sections, s)) \in Seq(Seq(Cell))
        /\ Len(Bodies(Append(sections, s))) = Len(sections) + 1
        /\ \A i \in 1..(Len(sections) + 1) :
              Bodies(Append(sections, s))[i] = Body(Append(sections, s)[i])
    BY <2>9
  <2>3. Append(Bodies(sections), Body(s)) \in Seq(Seq(Cell))
    BY BodiesType, BodyType
  <2>4. \A i \in 1..(Len(sections) + 1) :
            Bodies(Append(sections, s))[i] = Append(Bodies(sections), Body(s))[i]
    <3>1. TAKE i \in 1..(Len(sections) + 1)
    <3>2. CASE i = Len(sections) + 1
      BY <2>2, <3>2, BodiesType
    <3>3. CASE i # Len(sections) + 1
      <4>1. i \in 1..Len(sections)
        BY <3>3
      <4> QED BY <2>2, <4>1, BodiesType
    <3> QED BY <3>2, <3>3
  <2>5. Len(Append(Bodies(sections), Body(s))) = Len(sections) + 1
    BY BodiesType, BodyType
  <2> QED BY <2>2, <2>3, <2>4, <2>5, SeqEqual
<1>2. RowSum!FlattenSeq(Append(Bodies(sections), Body(s))) = RowSum!FlattenSeq(Bodies(sections)) \o Body(s)
  BY BodiesType, BodyType, RowSum!FlattenAppend
<1> QED BY <1>1, <1>2, SameFlatten DEF Chunks

\* Where the chunks of one section are among all of them.
LEMMA ChunksAt ==
    ASSUME NEW sections \in Seq(Section), NEW i \in Nat, i + 1 <= Len(sections)
    PROVE  LET before == Len(Chunks(SubSeq(sections, 1, i)))
           IN  /\ before + Len(sections[i + 1]) <= Len(Chunks(sections))
               /\ \A k \in 1..Len(sections[i + 1]) :
                     Chunks(sections)[before + k] = Chunk(sections[i + 1][k])
<1>1. Bodies(SubSeq(sections, 1, i)) = SubSeq(Bodies(sections), 1, i)
  <2>1. SubSeq(sections, 1, i) \in Seq(Section) /\ Len(SubSeq(sections, 1, i)) = i
    OBVIOUS
  <2>2. /\ Bodies(SubSeq(sections, 1, i)) \in Seq(Seq(Cell))
        /\ Len(Bodies(SubSeq(sections, 1, i))) = i
        /\ \A k \in 1..i : Bodies(SubSeq(sections, 1, i))[k] = Body(SubSeq(sections, 1, i)[k])
    BY <2>1, BodiesType
  <2>3. /\ SubSeq(Bodies(sections), 1, i) \in Seq(Seq(Cell))
        /\ Len(SubSeq(Bodies(sections), 1, i)) = i
        /\ \A k \in 1..i : SubSeq(Bodies(sections), 1, i)[k] = Bodies(sections)[k]
    BY BodiesType
  <2>4. \A k \in 1..i : Bodies(SubSeq(sections, 1, i))[k] = SubSeq(Bodies(sections), 1, i)[k]
    BY <2>2, <2>3, BodiesType
  <2> QED BY <2>2, <2>3, <2>4, SeqEqual
<1>2. i + 1 \in 1..Len(sections) /\ sections[i + 1] \in Section
  OBVIOUS
<1>3. LET before == Len(RowSum!FlattenSeq(SubSeq(Bodies(sections), 1, i)))
      IN  /\ before + Len(Bodies(sections)[i + 1]) <= Len(RowSum!FlattenSeq(Bodies(sections)))
          /\ \A k \in 1..Len(Bodies(sections)[i + 1]) :
                RowSum!FlattenSeq(Bodies(sections))[before + k] = Bodies(sections)[i + 1][k]
  BY BodiesType, RowSum!FlattenAt
<1>4. /\ Bodies(sections)[i + 1] = Body(sections[i + 1])
      /\ Len(Body(sections[i + 1])) = Len(sections[i + 1])
      /\ \A k \in 1..Len(sections[i + 1]) : Body(sections[i + 1])[k] = Chunk(sections[i + 1][k])
  BY <1>2, BodiesType, BodyType
<1> QED BY <1>1, <1>3, <1>4, SameFlatten DEF Chunks

\* Where the elements of two joined sequences are.
LEMMA ConcatAt ==
    ASSUME NEW s \in Seq(Cell), NEW t \in Seq(Cell)
    PROVE  /\ s \o t \in Seq(Cell) /\ Len(s \o t) = Len(s) + Len(t)
           /\ \A i \in 1..Len(s) : (s \o t)[i] = s[i]
           /\ \A k \in 1..Len(t) : (s \o t)[Len(s) + k] = t[k]
<1>1. /\ s \o t \in Seq(Cell) /\ Len(s \o t) = Len(s) + Len(t)
      /\ \A i \in 1..(Len(s) + Len(t)) :
            (s \o t)[i] = IF i <= Len(s) THEN s[i] ELSE t[i - Len(s)]
  BY ConcatProperties
<1>2. Len(s) \in Nat /\ Len(t) \in Nat
  OBVIOUS
<1>3. ASSUME NEW k \in 1..Len(t) PROVE (s \o t)[Len(s) + k] = t[k]
  <2>1. Len(s) + k \in 1..(Len(s) + Len(t)) /\ ~(Len(s) + k <= Len(s)) /\ (Len(s) + k) - Len(s) = k
    BY <1>2
  <2> QED BY <1>1, <2>1
<1> QED BY <1>1, <1>2, <1>3

\* The header, the rows and the chunks of a file, by position.
LEMMA ContainerAt ==
    ASSUME NEW sections \in Seq(Section)
    PROVE  /\ Container(sections) \in Seq(Cell)
           /\ Len(Container(sections)) = 1 + Len(sections) + Len(Chunks(sections))
           /\ Container(sections)[1] = Header(Len(sections))
           /\ \A i \in 1..Len(sections) :
                 Container(sections)[1 + i] = Row(Len(sections[i]), sections[i])
           /\ \A k \in 1..Len(Chunks(sections)) :
                 Container(sections)[1 + Len(sections) + k] = Chunks(sections)[k]
<1> DEFINE head == <<Header(Len(sections))>>
<1> DEFINE table == [i \in DOMAIN sections |-> Row(Len(sections[i]), sections[i])]
<1>1. head \in Seq(Cell) /\ Len(head) = 1 /\ head[1] = Header(Len(sections))
  BY CellMade
<1>2. /\ table \in Seq(Cell) /\ Len(table) = Len(sections)
      /\ \A i \in 1..Len(sections) : table[i] = Row(Len(sections[i]), sections[i])
  <2>1. \A i \in 1..Len(sections) : Row(Len(sections[i]), sections[i]) \in Cell
    BY CellMade DEF Section
  <2>2. table = [i \in 1..Len(sections) |-> Row(Len(sections[i]), sections[i])]
    OBVIOUS
  <2> QED BY <2>1, <2>2
<1>3. Container(sections) = (head \o table) \o Chunks(sections)
  BY DEF Container, Chunks, Bodies
<1>4. Chunks(sections) \in Seq(Cell)
  BY ChunksType
<1> HIDE DEF head, table
<1> DEFINE all == Chunks(sections)
<1>5. all \in Seq(Cell) /\ Container(sections) = (head \o table) \o all /\ Len(sections) \in Nat
  BY <1>3, <1>4
<1> HIDE DEF all
<1>6. /\ Container(sections) \in Seq(Cell)
      /\ Len(Container(sections)) = 1 + Len(sections) + Len(all)
      /\ Container(sections)[1] = head[1]
      /\ \A i \in 1..Len(sections) : Container(sections)[1 + i] = table[i]
      /\ \A k \in 1..Len(all) : Container(sections)[1 + Len(sections) + k] = all[k]
  <2> DEFINE front == head \o table
  <2>1. /\ front \in Seq(Cell) /\ Len(front) = 1 + Len(sections)
        /\ front[1] = head[1] /\ \A i \in 1..Len(sections) : front[1 + i] = table[i]
    <3>1. 1 \in 1..Len(head)
      BY <1>1
    <3>2. /\ \A i \in 1..Len(head) : (head \o table)[i] = head[i]
          /\ \A k \in 1..Len(table) : (head \o table)[Len(head) + k] = table[k]
          /\ head \o table \in Seq(Cell) /\ Len(head \o table) = Len(head) + Len(table)
      BY <1>1, <1>2, ConcatAt
    <3> QED BY <1>1, <1>2, <3>1, <3>2
  <2> HIDE DEF front
  <2>2. Container(sections) = front \o all
    BY <1>5 DEF front
  <2>3. /\ \A i \in 1..(1 + Len(sections)) : (front \o all)[i] = front[i]
        /\ \A k \in 1..Len(all) : (front \o all)[1 + Len(sections) + k] = all[k]
        /\ front \o all \in Seq(Cell) /\ Len(front \o all) = 1 + Len(sections) + Len(all)
    <3>1. /\ \A i \in 1..Len(front) : (front \o all)[i] = front[i]
          /\ \A k \in 1..Len(all) : (front \o all)[Len(front) + k] = all[k]
          /\ front \o all \in Seq(Cell) /\ Len(front \o all) = Len(front) + Len(all)
      BY <1>5, <2>1, ConcatAt
    <3> QED BY <2>1, <3>1
  <2>4. 1 \in 1..(1 + Len(sections)) /\ \A i \in 1..Len(sections) : 1 + i \in 1..(1 + Len(sections))
    BY <1>5
  <2> QED BY <2>1, <2>2, <2>3, <2>4
<1> QED BY <1>1, <1>2, <1>6 DEF all

-----------------------------------------------------------------------------
(* The sum over the rows of a table *)

\* FoldLeft is the one SequenceFacts speaks of.
LEMMA SameFold == ASSUME NEW s PROVE RowSum!FoldLeft(WithRow, 0, s) = FoldLeft(WithRow, 0, s)
  BY DEF RowSum!FoldLeft, RowSum!MapThenFoldSet, RowSum!Max, FoldLeft, MapThenFoldSet, Max

\* No rows reserve nothing, and one more row its length.
LEMMA ReservedStep ==
    /\ Reserved(<<>>) = 0
    /\ \A rows \in Seq(Cell), c \in Cell : Reserved(Append(rows, c)) = Reserved(rows) + c.number
<1>1. Reserved(<<>>) = 0
  <2>1. RowSum!FoldLeft(WithRow, 0, <<>>) = 0
    BY RowSum!FoldEmpty
  <2> QED BY <2>1, SameFold DEF Reserved
<1>2. ASSUME NEW rows \in Seq(Cell), NEW c \in Cell
      PROVE  Reserved(Append(rows, c)) = Reserved(rows) + c.number
  <2>1. RowSum!FoldLeft(WithRow, 0, Append(rows, c)) = WithRow(RowSum!FoldLeft(WithRow, 0, rows), c)
    BY RowSum!FoldAppend
  <2> QED BY <2>1, SameFold DEF Reserved, WithRow
<1> QED BY <1>1, <1>2

\* A sequence that is not empty is one that has grown by its last element.
LEMMA LastStep ==
    ASSUME NEW S, NEW s \in Seq(S), NEW n \in Nat, Len(s) = n + 1
    PROVE  /\ SubSeq(s, 1, n) \in Seq(S) /\ Len(SubSeq(s, 1, n)) = n
           /\ \A i \in 1..n : SubSeq(s, 1, n)[i] = s[i]
           /\ s[n + 1] \in S /\ s = Append(SubSeq(s, 1, n), s[n + 1])
  OBVIOUS

\* What rows reserve is a number.
LEMMA ReservedType == ASSUME NEW rows \in Seq(Cell) PROVE Reserved(rows) \in Nat
<1> DEFINE T == {n \in Nat : \A r \in Seq(Cell) : Len(r) = n => Reserved(r) \in Nat}
<1>1. 0 \in T
  <2>1. \A r \in Seq(Cell) : Len(r) = 0 => r = <<>>
    OBVIOUS
  <2> QED BY <2>1, ReservedStep
<1>2. ASSUME NEW n \in Nat, n \in T PROVE n + 1 \in T
  <2>1. SUFFICES ASSUME NEW r \in Seq(Cell), Len(r) = n + 1 PROVE Reserved(r) \in Nat
    OBVIOUS
  <2>2. /\ SubSeq(r, 1, n) \in Seq(Cell) /\ Len(SubSeq(r, 1, n)) = n /\ r[n + 1] \in Cell
        /\ r = Append(SubSeq(r, 1, n), r[n + 1])
    BY <2>1, LastStep
  <2>3. Reserved(r) = Reserved(SubSeq(r, 1, n)) + r[n + 1].number
    BY <2>2, ReservedStep
  <2>4. Reserved(SubSeq(r, 1, n)) \in Nat
    BY <1>2, <2>2
  <2>5. r[n + 1].number \in Nat
    BY <2>2, CellRead
  <2> QED BY <2>3, <2>4, <2>5
<1> HIDE DEF T
<1>3. Len(rows) \in T
  <2>1. Len(rows) \in Nat
    OBVIOUS
  <2> QED BY <1>1, <1>2, <2>1, RowSum!Induct
<1> QED BY <1>3 DEF T

\* The rows of a list of sections reserve as much as its chunks take.
LEMMA ReservedIsChunks ==
    ASSUME NEW rows \in Seq(Cell), NEW sections \in Seq(Section), Len(rows) = Len(sections),
           \A i \in 1..Len(sections) : rows[i].number = Len(sections[i])
    PROVE  Reserved(rows) = Len(Chunks(sections))
<1> DEFINE Fits(r, s) == Len(r) = Len(s) /\ \A i \in 1..Len(s) : r[i].number = Len(s[i])
<1> DEFINE T == {n \in Nat : \A r \in Seq(Cell), s \in Seq(Section) :
                    Len(s) = n /\ Fits(r, s) => Reserved(r) = Len(Chunks(s))}
<1>1. 0 \in T
  <2>1. \A r \in Seq(Cell), s \in Seq(Section) : Len(s) = 0 /\ Fits(r, s) => r = <<>> /\ s = <<>>
    OBVIOUS
  <2>2. Reserved(<<>>) = 0 /\ Len(Chunks(<<>>)) = 0
    BY ReservedStep, ChunksEmpty
  <2> QED BY <2>1, <2>2
<1>2. ASSUME NEW n \in Nat, n \in T PROVE n + 1 \in T
  <2>1. SUFFICES ASSUME NEW r \in Seq(Cell), NEW s \in Seq(Section), Len(s) = n + 1, Fits(r, s)
                 PROVE  Reserved(r) = Len(Chunks(s))
    OBVIOUS
  <2> DEFINE r0 == SubSeq(r, 1, n)
  <2> DEFINE s0 == SubSeq(s, 1, n)
  <2>2. /\ r0 \in Seq(Cell) /\ Len(r0) = n /\ r[n + 1] \in Cell /\ r = Append(r0, r[n + 1])
        /\ \A i \in 1..n : r0[i] = r[i]
    BY <2>1, LastStep
  <2>3. /\ s0 \in Seq(Section) /\ Len(s0) = n /\ s[n + 1] \in Section /\ s = Append(s0, s[n + 1])
        /\ \A i \in 1..n : s0[i] = s[i]
    BY <2>1, LastStep
  <2> HIDE DEF r0, s0
  <2>4. Fits(r0, s0) /\ r[n + 1].number = Len(s[n + 1])
    <3>1. n + 1 \in 1..Len(s) /\ \A i \in 1..n : i \in 1..Len(s)
      BY <2>1
    <3> QED BY <2>1, <2>2, <2>3, <3>1
  <2>5. Reserved(r0) = Len(Chunks(s0))
    BY <1>2, <2>2, <2>3, <2>4
  <2>6. Reserved(r) = Reserved(r0) + r[n + 1].number
    BY <2>2, ReservedStep
  <2>7. Len(Chunks(s)) = Len(Chunks(s0)) + Len(s[n + 1])
    <3>1. Chunks(s) = Chunks(s0) \o Body(s[n + 1])
      BY <2>3, ChunksAppend
    <3>2. Chunks(s0) \in Seq(Cell) /\ Body(s[n + 1]) \in Seq(Cell) /\ Len(Body(s[n + 1])) = Len(s[n + 1])
      BY <2>3, ChunksType, BodyType
    <3>3. Len(Chunks(s0) \o Body(s[n + 1])) = Len(Chunks(s0)) + Len(Body(s[n + 1]))
      BY <3>2, ConcatAt
    <3> QED BY <3>1, <3>2, <3>3
  <2> QED BY <2>4, <2>5, <2>6, <2>7
<1>3. Len(sections) \in T
  <2>1. Len(sections) \in Nat
    OBVIOUS
  <2> HIDE DEF T
  <2> QED BY <1>1, <1>2, <2>1, RowSum!Induct
<1> QED BY <1>3

-----------------------------------------------------------------------------
(* The inductive invariant *)

Opened == {"header", "row", "section", "final"}
Resting == {"idle", "accepted", "malformed", "failed", "examine", "open"}

FileType == [cells : Seq(Cell), mtime : Nat, saved : Nat]
ReadType ==
    [at : Resting \cup {"measure"} \cup Opened, file : CacheFile \cup {NoFile},
     budget : 0..MaxWord, size : Nat, mtime : Nat, offset : Nat, count : Nat, total : Nat,
     rows : Seq(Cell), part : Seq(Cell), sections : Seq(Section), opened : Seq(Cell),
     trusted : BOOLEAN]

ContainerTypes ==
    /\ stored \in [CacheFile -> FileType]
    /\ visible \in CacheFile \cup {NoFile, Directory}
    /\ tick \in Nat
    /\ saving \in [file : CacheFile \cup {NoFile}, cells : Seq(Cell), budget : Nat]
    /\ reading \in ReadType

\* The cells are a list of sections within the limits of the writer.
Savable(cells, budget) ==
    \E p \in Payloads :
        /\ cells = Container(p) /\ Len(p) \in 1..MaxSections /\ Len(p[1]) <= MaxMetadata
        /\ Len(cells) <= budget

\* The writer's file is nobody else's, and a file that counts as saved is one that
\* could be.
SavedInv ==
    /\ saving # NoSave =>
          /\ saving.file \in CacheFile /\ saving.file # visible /\ saving.file # reading.file
          /\ stored[saving.file].saved = 0
          /\ Savable(saving.cells, saving.budget)
    /\ \A f \in CacheFile : stored[f].saved # 0 => Savable(stored[f].cells, stored[f].saved)

\* How far a reader is: what it has counted.
Progress(r) ==
    /\ r.at \in Resting <=> r.file = NoFile
    /\ r.at \in Opened =>
          r.size = Len(r.opened) /\ r.size <= r.budget /\ (r.trusted => r.mtime < tick)
    /\ r.at \in {"examine", "open", "measure", "header"} =>
          r.offset = 0 /\ r.rows = <<>> /\ r.sections = <<>> /\ r.part = <<>>
    /\ r.at = "row" =>
          /\ r.count \in 1..MaxSections /\ Len(r.rows) < r.count /\ r.offset = 1 + Len(r.rows)
          /\ r.sections = <<>> /\ r.part = <<>> /\ r.total = 1 + r.count + Reserved(r.rows)
    /\ r.at \in {"section", "final"} =>
          /\ Len(r.rows) = r.count
          /\ r.size = 1 + r.count + Reserved(r.rows)
          /\ r.offset = 1 + r.count + Len(Chunks(r.sections)) + Len(r.part)
          /\ Len(r.sections) <= r.count
          /\ \A i \in 1..Len(r.sections) : r.rows[i] = Row(Len(r.sections[i]), r.sections[i])
    /\ r.at = "section" => Len(r.sections) < r.count
    /\ r.at = "final" => Len(r.sections) = r.count /\ r.part = <<>>

\* What it has taken is what the cells say up to its offset.
Taken(r, cells) ==
    /\ r.at # "header" => Len(cells) >= 1 /\ cells[1] = Header(r.count)
    /\ \A i \in 1..Len(r.rows) : cells[1 + i] = r.rows[i]
    /\ \A k \in 1..Len(Chunks(r.sections)) : cells[1 + r.count + k] = Chunks(r.sections)[k]
    /\ \A k \in 1..Len(r.part) :
          cells[1 + r.count + Len(Chunks(r.sections)) + k] = r.part[k]

\* The file is the one that was opened, and has been read so far.
Same(r, f) == f.cells = r.opened /\ f.mtime = r.mtime /\ Taken(r, f.cells)

\* A saved file does not change, and a change the reader can see moves the time on.
Followed(r, f) ==
    /\ f.saved # 0 => Same(r, f)
    /\ r.trusted => Same(r, f) \/ r.mtime < f.mtime

ReadInv ==
    /\ Progress(reading)
    /\ reading.at \in Opened => Followed(reading, stored[reading.file])

CInv == ContainerTypes /\ SavedInv /\ ReadInv

\* Budgets, and what can be put into a file.
LEMMA Given ==
    /\ MaxWord \in Nat /\ \A b \in Budgets : b \in 1..MaxWord /\ b \in 0..MaxWord /\ b \in Nat
    /\ NoFile \notin CacheFile /\ Directory \notin CacheFile /\ NoFile # Directory
    /\ \A p \in Payloads : p \in Seq(Section) /\ Container(p) \in Seq(Cell)
    /\ \A cells \in Found : cells \in Seq(Cell)
    /\ Junk \subseteq Cell
<1>1. \A p \in Payloads : p \in Seq(Section)
  BY ContainerAssumption DEF Section
<1>2. \A p \in Payloads : Container(p) \in Seq(Cell)
  BY <1>1, ContainerAt
<1>3. ASSUME NEW cells \in Found PROVE cells \in Seq(Cell)
  <2>1. cells \in Seq(ToSet(cells)) /\ \A c \in ToSet(cells) : c \in Cell
    BY ContainerAssumption, CellMade
  <2>2. ToSet(cells) \subseteq Cell
    BY <2>1
  <2> QED BY <2>1, <2>2, SeqMonotonic
<1>4. Junk \subseteq Cell
  BY ContainerAssumption, CellMade
<1> QED BY <1>1, <1>2, <1>3, <1>4, ContainerAssumption

\* A reader that is not at work.
LEMMA NoReadAtRest ==
    NoRead \in ReadType /\ NoRead.file = NoFile /\ NoRead.at = "idle" /\ Progress(NoRead)
<1>1. 0 \in 0..MaxWord
  BY Given
<1>2. /\ NoRead.at = "idle" /\ NoRead.file = NoFile
      /\ NoRead \in ReadType
  BY <1>1 DEF NoRead, ReadType, Resting
<1> QED BY <1>2 DEF Progress, Opened, Resting

\* The same after a call.
LEMMA AtRest ==
    ASSUME NEW outcome \in Resting
    PROVE  /\ Finished(outcome) \in ReadType /\ Finished(outcome).file = NoFile
           /\ Finished(outcome).at = outcome
           /\ Progress(Finished(outcome))
<1>0. NoRead.offset = 0 /\ NoRead.rows = <<>> /\ NoRead.sections = <<>> /\ NoRead.part = <<>>
  BY DEF NoRead
<1>1. /\ Finished(outcome) \in ReadType /\ Finished(outcome).file = NoFile
      /\ Finished(outcome).at = outcome
      /\ Finished(outcome).offset = 0 /\ Finished(outcome).rows = <<>>
      /\ Finished(outcome).sections = <<>> /\ Finished(outcome).part = <<>>
  BY <1>0, NoReadAtRest DEF Finished, ReadType
<1>2. outcome \notin Opened
  BY DEF Resting, Opened
<1> QED BY <1>1, <1>2 DEF Progress, Opened

\* The invariant holds in the beginning.
LEMMA ContainerInitInv == ContainerInit => CInv
<1> SUFFICES ASSUME ContainerInit PROVE CInv
  OBVIOUS
<1>1. NoRead \in ReadType /\ NoRead.file = NoFile /\ NoRead.at = "idle" /\ Progress(NoRead)
  BY NoReadAtRest
<1>2. Empty \in FileType /\ Empty.saved = 0
  BY DEF Empty, FileType
<1>3. /\ stored \in [CacheFile -> FileType] /\ \A f \in CacheFile : stored[f].saved = 0
      /\ visible \in CacheFile \cup {NoFile, Directory}
  <2>1. CASE visible = NoFile /\ stored = [f \in CacheFile |-> Empty]
    BY <2>1, <1>2
  <2>2. CASE \E f \in CacheFile, cells \in Found :
                /\ visible = f
                /\ stored = [[g \in CacheFile |-> Empty] EXCEPT ![f] = [Empty EXCEPT !.cells = cells]]
    <3>1. PICK f \in CacheFile, cells \in Found :
                /\ visible = f
                /\ stored = [[g \in CacheFile |-> Empty] EXCEPT ![f] = [Empty EXCEPT !.cells = cells]]
      BY <2>2
    <3>2. [Empty EXCEPT !.cells = cells] \in FileType /\ [Empty EXCEPT !.cells = cells].saved = 0
      BY Given DEF Empty, FileType
    <3> QED BY <1>2, <3>1, <3>2
  <2> QED BY <2>1, <2>2 DEF ContainerInit
<1>4. NoSave \in [file : CacheFile \cup {NoFile}, cells : Seq(Cell), budget : Nat]
  BY DEF NoSave
<1>5. ContainerTypes
  BY <1>1, <1>3, <1>4 DEF ContainerInit, ContainerTypes
<1>6. SavedInv
  BY <1>3 DEF ContainerInit, SavedInv
<1>7. ReadInv
  BY <1>1 DEF ContainerInit, ReadInv, Opened
<1> QED BY <1>5, <1>6, <1>7 DEF CInv

-----------------------------------------------------------------------------
(* The writer *)

\* Nothing the reader depends on has changed.
LEMMA ReaderKept ==
    ASSUME ContainerTypes, ReadInv, reading' = reading, tick' \in Nat, tick <= tick',
           reading.file \in CacheFile => stored'[reading.file] = stored[reading.file]
    PROVE  ReadInv'
<1>1. Progress(reading)'
  BY DEF ReadInv, Progress, ContainerTypes, ReadType
<1>2. reading.at \in Opened => reading.file \in CacheFile
  <2>1. reading.at \in Opened => reading.at \notin Resting
    BY DEF Opened, Resting
  <2> QED BY <2>1 DEF ReadInv, Progress, ContainerTypes, ReadType
<1>3. reading.at \in Opened => Followed(reading, stored[reading.file])'
  BY <1>2 DEF ReadInv, Followed, Same, Taken
<1> QED BY <1>1, <1>3 DEF ReadInv

\* The record of a save, and that it is one.
LEMMA SavingType ==
    ASSUME ContainerTypes, SavedInv, saving # NoSave
    PROVE  /\ saving.file \in CacheFile /\ saving.cells \in Seq(Cell) /\ saving.budget \in Nat
           /\ stored[saving.file] \in FileType
  BY DEF ContainerTypes, SavedInv

\* A save keeps the invariant: it does not touch the file that is read.
LEMMA SaverStep == ASSUME CInv, Saver PROVE CInv'
<1> USE DEF CInv
<1>1. CASE \E f \in CacheFile, p \in Payloads, b \in Budgets : BeginSave(f, p, b)
  <2>1. PICK f \in CacheFile, p \in Payloads, b \in Budgets : BeginSave(f, p, b)
    BY <1>1
  <2> DEFINE new == [file |-> f, cells |-> Container(p), budget |-> b]
  <2>2. /\ f # visible /\ f # reading.file /\ saving = NoSave /\ saving' = new
        /\ stored' = [stored EXCEPT ![f] = [Empty EXCEPT !.mtime = tick]]
        /\ UNCHANGED <<visible, tick, reading>>
    BY <2>1 DEF BeginSave, SaverOnly
  <2>3. Savable(Container(p), b)
    BY <2>1 DEF BeginSave, Savable
  <2>4. [Empty EXCEPT !.mtime = tick] \in FileType /\ [Empty EXCEPT !.mtime = tick].saved = 0
    <3>1. Empty \in FileType /\ Empty.saved = 0
      BY DEF Empty, FileType
    <3> QED BY <3>1 DEF FileType, ContainerTypes
  <2>5. /\ stored' \in [CacheFile -> FileType] /\ stored'[f].saved = 0
        /\ \A g \in CacheFile : g # f => stored'[g] = stored[g]
    BY <2>2, <2>4 DEF ContainerTypes
  <2>6. new.file = f /\ new.cells = Container(p) /\ new.budget = b
        /\ new \in [file : CacheFile \cup {NoFile}, cells : Seq(Cell), budget : Nat]
    BY Given
  <2> HIDE DEF new
  <2>7. ContainerTypes'
    BY <2>2, <2>5, <2>6 DEF ContainerTypes
  <2>8. SavedInv'
    <3>1. ASSUME NEW g \in CacheFile, stored'[g].saved # 0 PROVE Savable(stored'[g].cells, stored'[g].saved)
      BY <2>5, <3>1 DEF SavedInv
    <3> QED BY <2>2, <2>3, <2>5, <2>6, <3>1 DEF SavedInv, Savable
  <2>9. ReadInv'
    BY <2>2, <2>5, ReaderKept DEF ContainerTypes
  <2> QED BY <2>7, <2>8, <2>9
<1>2. CASE WriteCell
  <2> DEFINE f == saving.file
  <2> DEFINE cell == saving.cells[Len(stored[f].cells) + 1]
  <2> DEFINE new == [stored[f] EXCEPT !.mtime = tick, !.cells = Append(stored[f].cells, cell)]
  <2>1. /\ saving # NoSave /\ Len(stored[f].cells) < Len(saving.cells)
        /\ stored' = [stored EXCEPT ![f] = new]
        /\ UNCHANGED <<visible, saving, tick, reading>>
    <3>1. stored' = [stored EXCEPT ![f] = new]
      BY <1>2 DEF WriteCell
    <3> QED BY <1>2, <3>1 DEF WriteCell, SaverOnly
  <2>2. /\ f \in CacheFile /\ saving.cells \in Seq(Cell) /\ stored[f] \in FileType
        /\ f # reading.file /\ stored[f].saved = 0 /\ f # visible
        /\ Savable(saving.cells, saving.budget)
    BY <2>1, SavingType DEF SavedInv
  <2>3. cell \in Cell
    BY <2>1, <2>2 DEF FileType
  <2>4. new \in FileType /\ new.saved = 0
    <3> HIDE DEF cell, f
    <3>1. Append(stored[f].cells, cell) \in Seq(Cell) /\ tick \in Nat
      BY <2>2, <2>3 DEF FileType, ContainerTypes
    <3> DEFINE more == Append(stored[f].cells, cell)
    <3> HIDE DEF more
    <3>2. new = [stored[f] EXCEPT !.mtime = tick, !.cells = more]
      BY DEF more
    <3>3. more \in Seq(Cell)
      BY <3>1 DEF more
    <3> HIDE DEF new
    <3> QED BY <2>2, <3>1, <3>2, <3>3 DEF FileType
  <2> HIDE DEF new
  <2>5. /\ stored' \in [CacheFile -> FileType] /\ stored'[f].saved = 0
        /\ \A g \in CacheFile : g # f => stored'[g] = stored[g]
    BY <2>1, <2>2, <2>4 DEF ContainerTypes
  <2>6. ContainerTypes'
    BY <2>1, <2>5 DEF ContainerTypes
  <2>7. SavedInv'
    <3>1. ASSUME NEW g \in CacheFile, stored'[g].saved # 0 PROVE Savable(stored'[g].cells, stored'[g].saved)
      BY <2>5, <3>1 DEF SavedInv
    <3> QED BY <2>1, <2>2, <2>5, <3>1 DEF SavedInv, Savable
  <2>8. ReadInv'
    BY <2>1, <2>2, <2>5, ReaderKept DEF ContainerTypes
  <2> QED BY <2>6, <2>7, <2>8
<1>3. CASE PublishSave
  <2> DEFINE f == saving.file
  <2>1. /\ saving # NoSave /\ stored[f].cells = saving.cells
        /\ visible' = f /\ saving' = NoSave /\ UNCHANGED <<tick, reading>>
    BY <1>3 DEF PublishSave, SaverOnly
  <2>2. /\ f \in CacheFile /\ saving.budget \in Nat /\ stored[f] \in FileType
        /\ f # reading.file /\ f # visible
        /\ Savable(saving.cells, saving.budget)
    BY <2>1, SavingType DEF SavedInv
  <2> DEFINE body(g) == CASE g = f -> [stored[g] EXCEPT !.saved = saving.budget]
                          [] g = visible /\ g # reading.file -> Empty
                          [] OTHER -> stored[g]
  <2>3. stored' = [g \in CacheFile |-> body(g)]
    BY <1>3 DEF PublishSave
  <2>4. ASSUME NEW g \in CacheFile
        PROVE  /\ body(g) \in FileType
               /\ body(g).saved # 0 => Savable(body(g).cells, body(g).saved)
               /\ g = reading.file => body(g) = stored[g]
    <3>1. CASE g = f
      <4>1. body(g) = [stored[f] EXCEPT !.saved = saving.budget]
        BY <2>2, <3>1
      <4>2. body(g) \in FileType /\ body(g).cells = saving.cells /\ body(g).saved = saving.budget
        BY <2>1, <2>2, <4>1 DEF FileType
      <4> HIDE DEF body
      <4> QED BY <2>2, <3>1, <4>2
    <3>2. CASE g # f /\ g = visible /\ g # reading.file
      <4>1. body(g) = Empty
        BY <3>2
      <4>2. Empty \in FileType /\ Empty.saved = 0
        BY DEF Empty, FileType
      <4> HIDE DEF body
      <4> QED BY <3>2, <4>1, <4>2
    <3>3. CASE g # f /\ ~(g = visible /\ g # reading.file)
      <4>1. body(g) = stored[g]
        BY <3>3
      <4> HIDE DEF body
      <4> QED BY <4>1 DEF ContainerTypes, SavedInv
    <3> QED BY <3>1, <3>2, <3>3
  <2> HIDE DEF body
  <2>5. /\ stored' \in [CacheFile -> FileType]
        /\ \A g \in CacheFile : stored'[g] = body(g)
    BY <2>3, <2>4
  <2>6. NoSave \in [file : CacheFile \cup {NoFile}, cells : Seq(Cell), budget : Nat]
    BY DEF NoSave
  <2>7. ContainerTypes'
    BY <2>1, <2>2, <2>5, <2>6 DEF ContainerTypes
  <2>8. SavedInv'
    BY <2>1, <2>4, <2>5 DEF SavedInv
  <2>9. ReadInv'
    BY <2>1, <2>4, <2>5, ReaderKept DEF ContainerTypes
  <2> QED BY <2>7, <2>8, <2>9
<1>4. CASE AbandonSave
  <2>1. saving' = NoSave /\ UNCHANGED <<stored, visible, tick, reading>>
    BY <1>4 DEF AbandonSave, storage
  <2>2. NoSave \in [file : CacheFile \cup {NoFile}, cells : Seq(Cell), budget : Nat]
    BY DEF NoSave
  <2>3. ContainerTypes'
    BY <2>1, <2>2 DEF ContainerTypes
  <2>4. SavedInv'
    BY <2>1 DEF SavedInv, Savable
  <2>5. ReadInv'
    BY <2>1, ReaderKept DEF ContainerTypes
  <2> QED BY <2>3, <2>4, <2>5
<1> QED BY <1>1, <1>2, <1>3, <1>4 DEF Saver

-----------------------------------------------------------------------------
(* The reader *)

\* What a step of the reader alone has to keep.
LEMMA LoaderFrame ==
    ASSUME CInv, UNCHANGED <<stored, visible, tick, saving>>,
           reading' \in ReadType, Progress(reading'),
           reading'.file = NoFile \/ reading'.file = reading.file \/ reading'.file = visible,
           reading'.at \in Opened => Followed(reading', stored[reading'.file])
    PROVE  CInv'
<1>1. ContainerTypes'
  BY DEF CInv, ContainerTypes
<1>2. SavedInv'
  <2>1. saving # NoSave => saving.file # NoFile
    BY Given DEF CInv, SavedInv
  <2> QED BY <2>1 DEF CInv, SavedInv, Savable
<1>3. ReadInv'
  BY DEF ReadInv, Progress, Followed, Same, Taken
<1> QED BY <1>1, <1>2, <1>3 DEF CInv

\* A call that is over.
LEMMA LoaderStops ==
    ASSUME CInv, UNCHANGED <<stored, visible, tick, saving>>,
           NEW outcome \in Resting, reading' = Finished(outcome)
    PROVE  CInv'
<1>1. outcome \notin Opened
  BY DEF Resting, Opened
<1>2. /\ Finished(outcome) \in ReadType /\ Finished(outcome).file = NoFile
      /\ Finished(outcome).at = outcome /\ Progress(Finished(outcome))
  BY AtRest
<1> QED BY <1>1, <1>2, LoaderFrame

\* One that is accepted hands over its sections and forgets the rest.
LEMMA LoaderAccepts ==
    ASSUME CInv, UNCHANGED <<stored, visible, tick, saving>>, reading' = Accepted
    PROVE  CInv'
<1>1. /\ Finished("accepted") \in ReadType /\ Finished("accepted").file = NoFile
      /\ Finished("accepted").at = "accepted"
  BY AtRest DEF Resting
<1>2. reading.sections \in Seq(Section)
  BY DEF CInv, ContainerTypes, ReadType
<1>3. Accepted \in ReadType /\ Accepted.file = NoFile /\ Accepted.at = "accepted"
  BY <1>1, <1>2 DEF Accepted, ReadType
<1>4. Progress(Accepted) /\ "accepted" \notin Opened
  BY <1>3 DEF Progress, Resting, Opened
<1> QED BY <1>3, <1>4, LoaderFrame

\* A file that is open.
LEMMA OpenFile ==
    ASSUME CInv, reading.at \in Opened \cup {"measure"}
    PROVE  /\ reading.file \in CacheFile /\ stored[reading.file] \in FileType
           /\ reading \in ReadType
<1>1. reading.at \notin Resting
  BY DEF Resting, Opened
<1> QED BY <1>1 DEF CInv, ReadInv, Progress, ContainerTypes, ReadType

\* A step that keeps what was taken follows the file as before.
LEMMA FollowedStep ==
    ASSUME NEW r, NEW s, NEW f, Followed(r, f),
           s.opened = r.opened, s.mtime = r.mtime, s.trusted = r.trusted,
           Taken(r, f.cells) => Taken(s, f.cells)
    PROVE  Followed(s, f)
  BY DEF Followed, Same

\* Nothing but the first call chooses the file.
LEMMA BeginsRead ==
    ASSUME CInv, Examine \/ OpenCache \/ \E b \in Budgets : Ask(b)
    PROVE  CInv'
<1>1. UNCHANGED <<stored, visible, tick, saving>>
  BY DEF Examine, OpenCache, Ask, ReaderOnly, storage
<1>2. reading \in ReadType
  BY DEF CInv, ContainerTypes
<1>3. ASSUME NEW b \in Budgets, Ask(b) PROVE CInv'
  <2> DEFINE r == [NoRead EXCEPT !.at = "examine", !.budget = b]
  <2>0. NoRead.offset = 0 /\ NoRead.rows = <<>> /\ NoRead.sections = <<>> /\ NoRead.part = <<>>
    BY DEF NoRead
  <2>1. /\ r \in ReadType /\ r.at = "examine" /\ r.file = NoFile
        /\ r.offset = 0 /\ r.rows = <<>> /\ r.sections = <<>> /\ r.part = <<>>
    BY <2>0, NoReadAtRest, Given DEF ReadType, Resting
  <2>2. reading' = r
    BY <1>3 DEF Ask
  <2> HIDE DEF r
  <2>3. Progress(r) /\ r.at \notin Opened
    BY <2>1 DEF Progress, Opened, Resting
  <2> QED BY <1>1, <2>1, <2>2, <2>3, LoaderFrame
<1>4. CASE Examine
  <2> DEFINE r == [reading EXCEPT !.at = "open"]
  <2>1. /\ r \in ReadType /\ r.at = "open" /\ r.file = reading.file
        /\ r.offset = reading.offset /\ r.rows = reading.rows
        /\ r.sections = reading.sections /\ r.part = reading.part
    BY <1>2 DEF ReadType, Resting
  <2>2. reading' = Finished("failed") \/ reading' = Finished("malformed") \/ reading' = r
    BY <1>4 DEF Examine
  <2>3. /\ reading.file = NoFile
        /\ reading.offset = 0 /\ reading.rows = <<>>
        /\ reading.sections = <<>> /\ reading.part = <<>>
    BY <1>4 DEF Examine, CInv, ReadInv, Progress, Resting
  <2> HIDE DEF r
  <2>4. Progress(r) /\ r.at \notin Opened
    BY <2>1, <2>3 DEF Progress, Opened, Resting
  <2>5. CASE reading' = r
    BY <1>1, <2>1, <2>4, <2>5, LoaderFrame
  <2>6. CASE reading' = Finished("failed") \/ reading' = Finished("malformed")
    <3>1. "failed" \in Resting /\ "malformed" \in Resting
      BY DEF Resting
    <3> QED BY <1>1, <2>6, <3>1, LoaderStops
  <2> QED BY <2>2, <2>5, <2>6
<1>5. CASE OpenCache
  <2> DEFINE r == [reading EXCEPT !.at = "measure", !.file = visible]
  <2>1. \/ reading' = Finished("failed") \/ reading' = Finished("malformed")
        \/ reading' = r /\ visible # NoFile /\ visible # Directory
    BY <1>5 DEF OpenCache
  <2>2. CASE reading' = r /\ visible # NoFile /\ visible # Directory
    <3>1. visible \in CacheFile
      BY <2>2 DEF CInv, ContainerTypes
    <3>2. /\ r \in ReadType /\ r.at = "measure" /\ r.file = visible
          /\ r.offset = reading.offset /\ r.rows = reading.rows
          /\ r.sections = reading.sections /\ r.part = reading.part
      BY <1>2, <3>1 DEF ReadType
    <3>4. /\ reading.offset = 0 /\ reading.rows = <<>>
          /\ reading.sections = <<>> /\ reading.part = <<>>
      BY <1>5 DEF OpenCache, CInv, ReadInv, Progress
    <3> HIDE DEF r
    <3>3. Progress(r) /\ r.at \notin Opened
      BY <2>2, <3>2, <3>4 DEF Progress, Opened, Resting
    <3> QED BY <1>1, <2>2, <3>2, <3>3, LoaderFrame
  <2>3. CASE reading' = Finished("failed") \/ reading' = Finished("malformed")
    <3>1. "failed" \in Resting /\ "malformed" \in Resting
      BY DEF Resting
    <3> QED BY <1>1, <2>3, <3>1, LoaderStops
  <2> QED BY <2>1, <2>2, <2>3
<1> QED BY <1>3, <1>4, <1>5

\* From now on the file is compared with what it holds here.
LEMMA MeasureStep == ASSUME CInv, Measure PROVE CInv'
<1> DEFINE f == stored[reading.file]
<1> DEFINE r == [reading EXCEPT !.at = "header", !.size = Len(f.cells), !.mtime = f.mtime,
                                !.opened = f.cells, !.trusted = f.mtime < tick]
<1>1. UNCHANGED <<stored, visible, tick, saving>>
  BY DEF Measure, ReaderOnly, storage
<1>2. reading' = Finished("malformed") \/ (reading' = r /\ Len(f.cells) <= reading.budget)
  <2>1. \/ reading' = Finished("malformed")
        \/ reading' = r /\ ~(Len(f.cells) > reading.budget)
    BY Zenon DEF Measure
  <2>2. reading.at = "measure"
    BY DEF Measure
  <2>3. f \in FileType /\ reading \in ReadType
    BY <2>2, OpenFile
  <2>4. Len(f.cells) \in Nat /\ reading.budget \in Nat
    BY <2>3 DEF FileType, ReadType
  <2>5. ~(Len(f.cells) > reading.budget) => Len(f.cells) <= reading.budget
    BY ONLY <2>4
  <2> QED BY <2>1, <2>5
<1>3. CASE reading' = r /\ Len(f.cells) <= reading.budget
  <2>1. reading.at = "measure"
    BY DEF Measure
  <2>2. reading.file \in CacheFile /\ f \in FileType /\ reading \in ReadType
    BY <2>1, OpenFile
  <2> DEFINE settled == f.mtime < tick
  <2>0. settled \in BOOLEAN
    OBVIOUS
  <2> HIDE DEF f, settled
  <2>9. r = [reading EXCEPT !.at = "header", !.size = Len(f.cells), !.mtime = f.mtime,
                            !.opened = f.cells, !.trusted = settled]
    BY DEF settled
  <2> HIDE DEF r
  <2>3. /\ r \in ReadType /\ r.at = "header" /\ r.file = reading.file /\ r.size = Len(f.cells)
        /\ r.mtime = f.mtime /\ r.opened = f.cells /\ r.trusted = settled
        /\ r.budget = reading.budget
        /\ r.offset = reading.offset /\ r.rows = reading.rows /\ r.sections = reading.sections
        /\ r.part = reading.part
    <3>1. f.cells \in Seq(Cell) /\ Len(f.cells) \in Nat /\ f.mtime \in Nat
      BY <2>2 DEF FileType
    <3>2. r \in ReadType
      BY <2>0, <2>2, <2>9, <3>1 DEF ReadType, Opened
    <3> QED BY <2>2, <2>9, <3>2 DEF ReadType
  <2>4. r.offset = 0 /\ r.rows = <<>> /\ r.sections = <<>> /\ r.part = <<>>
    BY <2>1, <2>3 DEF CInv, ReadInv, Progress
  <2>5. r.file # NoFile
    BY <2>2, <2>3, Given
  <2>6. Progress(r)
    BY <1>3, <2>3, <2>4, <2>5 DEF Progress, Resting, Opened, settled
  <2>7. Taken(r, f.cells)
    BY <2>3, <2>4, ChunksEmpty DEF Taken
  <2>8. Followed(r, f)
    BY <2>3, <2>7 DEF Followed, Same
  <2>10. f = stored[r.file]
    BY <2>3 DEF f
  <2> QED BY <1>1, <1>3, <2>3, <2>6, <2>8, <2>10, LoaderFrame
<1>4. CASE reading' = Finished("malformed")
  <2>1. "malformed" \in Resting
    BY DEF Resting
  <2> QED BY <1>1, <1>4, <2>1, LoaderStops
<1> QED BY <1>2, <1>3, <1>4

\* The next cell of a file that is followed.
LEMMA NextIsCell ==
    ASSUME CInv, reading.at \in Opened, ~AtEnd
    PROVE  /\ NextCell \in Cell /\ reading.offset \in Nat
           /\ reading.offset + 1 \in 1..Len(stored[reading.file].cells)
           /\ NextCell = stored[reading.file].cells[reading.offset + 1]
<1>1. stored[reading.file].cells \in Seq(Cell) /\ reading.offset \in Nat
  BY OpenFile DEF FileType, ReadType
<1> QED BY <1>1 DEF AtEnd, NextCell

\* The header: the number of sections is within the limit.
LEMMA HeaderStep == ASSUME CInv, ReadHeader PROVE CInv'
<1> DEFINE n == NextCell.number
<1> DEFINE r == [reading EXCEPT !.at = "row", !.offset = 1, !.count = n, !.total = 1 + n]
<1>1. UNCHANGED <<stored, visible, tick, saving>> /\ reading.at = "header"
  BY DEF ReadHeader, ReaderOnly, storage
<1>2. \/ reading' = Finished("malformed")
      \/ ~AtEnd /\ NextCell.kind = "header" /\ n \in 1..MaxSections /\ reading' = r
  BY DEF ReadHeader
<1>3. CASE reading' = Finished("malformed")
  <2>1. "malformed" \in Resting
    BY DEF Resting
  <2> QED BY <1>1, <1>3, <2>1, LoaderStops
<1>4. CASE ~AtEnd /\ NextCell.kind = "header" /\ n \in 1..MaxSections /\ reading' = r
  <2> DEFINE f == stored[reading.file]
  <2>1. reading.at \in Opened
    BY <1>1 DEF Opened
  <2>2. /\ reading.file \in CacheFile /\ f \in FileType /\ reading \in ReadType
        /\ Followed(reading, f) /\ Progress(reading)
    BY <2>1, OpenFile DEF CInv, ReadInv
  <2>3. /\ reading.offset = 0 /\ reading.rows = <<>> /\ reading.sections = <<>> /\ reading.part = <<>>
        /\ reading.size = Len(reading.opened) /\ reading.size <= reading.budget
        /\ reading.trusted => reading.mtime < tick
    BY <1>1, <2>2 DEF Progress, Opened
  <2>4. Len(f.cells) >= 1 /\ f.cells[1] = Header(n)
    <3>1. NextCell \in Cell /\ 1 \in 1..Len(f.cells) /\ NextCell = f.cells[1]
      BY <1>4, <2>1, <2>3, NextIsCell
    <3>2. NextCell = Header(n)
      BY <1>4, <3>1, CellRead
    <3> QED BY <3>1, <3>2
  <2>5. n \in Nat /\ 1 + n \in Nat /\ 1 \in Nat
    BY <1>4
  <2> HIDE DEF n, f
  <2>6. /\ r \in ReadType /\ r.at = "row" /\ r.offset = 1 /\ r.count = n /\ r.total = 1 + n
        /\ r.file = reading.file /\ r.budget = reading.budget /\ r.size = reading.size
        /\ r.opened = reading.opened /\ r.mtime = reading.mtime /\ r.trusted = reading.trusted
        /\ r.rows = <<>> /\ r.sections = <<>> /\ r.part = <<>>
    BY <2>2, <2>3, <2>5 DEF ReadType, Opened
  <2> HIDE DEF r
  <2>7. Progress(r)
    <3>1. r.file # NoFile /\ Len(r.rows) = 0 /\ Reserved(r.rows) = 0
      BY <2>2, <2>6, Given, ReservedStep
    <3> QED BY <1>4, <2>3, <2>5, <2>6, <3>1 DEF Progress, Resting, Opened
  <2>8. Taken(r, f.cells)
    BY <2>4, <2>6, ChunksEmpty DEF Taken
  <2>9. Followed(r, f)
    BY <2>2, <2>6, <2>8, FollowedStep
  <2>10. f = stored[r.file]
    BY <2>6 DEF f
  <2> QED BY <1>1, <1>4, <2>6, <2>7, <2>9, <2>10, LoaderFrame
<1> QED BY <1>2, <1>3, <1>4

\* A row that is accepted, in the terms of the invariant.
LEMMA RowStep == ASSUME CInv, ReadRow PROVE CInv'
<1> DEFINE cell == NextCell
<1> DEFINE total == reading.total + cell.number
<1> DEFINE last == Len(reading.rows) + 1 = reading.count
<1> DEFINE where == IF last THEN "section" ELSE "row"
<1> DEFINE r == [reading EXCEPT !.at = where, !.offset = @ + 1, !.total = total,
                                !.rows = Append(@, cell)]
<1>1. UNCHANGED <<stored, visible, tick, saving>> /\ reading.at = "row"
  BY DEF ReadRow, ReaderOnly, storage
<1>2. \/ reading' = Finished("malformed")
      \/ ~AtEnd /\ reading' = r /\ (last => total = reading.size)
  BY DEF ReadRow
<1>3. CASE reading' = Finished("malformed")
  <2>1. "malformed" \in Resting
    BY DEF Resting
  <2> QED BY <1>1, <1>3, <2>1, LoaderStops
<1>4. CASE ~AtEnd /\ reading' = r /\ (last => total = reading.size)
  <2> DEFINE f == stored[reading.file]
  <2>1. reading.at \in Opened
    BY <1>1 DEF Opened
  <2>2. /\ reading.file \in CacheFile /\ f \in FileType /\ reading \in ReadType
        /\ Followed(reading, f) /\ Progress(reading)
    BY <2>1, OpenFile DEF CInv, ReadInv
  <2>3. /\ reading.count \in 1..MaxSections /\ Len(reading.rows) < reading.count
        /\ reading.offset = 1 + Len(reading.rows)
        /\ reading.sections = <<>> /\ reading.part = <<>>
        /\ reading.total = 1 + reading.count + Reserved(reading.rows)
        /\ reading.size = Len(reading.opened) /\ reading.size <= reading.budget
        /\ reading.trusted => reading.mtime < tick
    BY <1>1, <2>2 DEF Progress, Opened
  <2>4. /\ cell \in Cell /\ reading.offset \in Nat
        /\ reading.offset + 1 \in 1..Len(f.cells) /\ cell = f.cells[reading.offset + 1]
    BY <1>4, <2>1, NextIsCell
  <2>5. /\ cell.number \in Nat /\ total \in Nat /\ reading.offset + 1 \in Nat
        /\ reading.rows \in Seq(Cell) /\ Append(reading.rows, cell) \in Seq(Cell)
        /\ where \in Opened /\ (last => where = "section") /\ (~last => where = "row")
    <3>1. cell.number \in Nat /\ reading.rows \in Seq(Cell) /\ reading.total \in Nat
      BY <2>2, <2>4, CellRead DEF ReadType
    <3>2. where \in Opened /\ (last => where = "section") /\ (~last => where = "row")
      BY DEF Opened
    <3> HIDE DEF where, last
    <3> QED BY <2>4, <3>1, <3>2
  <2>6. Reserved(Append(reading.rows, cell)) = Reserved(reading.rows) + cell.number
    BY <2>4, <2>5, ReservedStep
  <2>7. Reserved(reading.rows) \in Nat
    BY <2>5, ReservedType
  <2> DEFINE more == Append(reading.rows, cell)
  <2>8. /\ Len(more) = Len(reading.rows) + 1 /\ more[Len(reading.rows) + 1] = cell
        /\ \A i \in 1..Len(reading.rows) : more[i] = reading.rows[i]
        /\ more \in Seq(Cell) /\ Reserved(more) = Reserved(reading.rows) + cell.number
    BY <2>5, <2>6
  <2>9. r = [reading EXCEPT !.at = where, !.offset = @ + 1, !.total = total, !.rows = more]
    OBVIOUS
  <2>10. total = 1 + reading.count + Reserved(more)
    BY <2>2, <2>3, <2>5, <2>7, <2>8 DEF ReadType
  <2>11. last <=> Len(more) = reading.count
    BY <2>8
  <2>12. last => total = reading.size
    BY <1>4
  <2>13. reading' = r
    BY <1>4
  <2> HIDE DEF cell, total, last, where, more, r, f
  <2>14. /\ r \in ReadType /\ r.at = where /\ r.offset = reading.offset + 1 /\ r.total = total
         /\ r.rows = more /\ r.count = reading.count
         /\ r.file = reading.file /\ r.budget = reading.budget /\ r.size = reading.size
         /\ r.opened = reading.opened /\ r.mtime = reading.mtime /\ r.trusted = reading.trusted
         /\ r.sections = <<>> /\ r.part = <<>>
    BY <2>2, <2>3, <2>5, <2>8, <2>9 DEF ReadType
  <2>15. Progress(r)
    <3>1. r.file # NoFile /\ Len(r.sections) = 0 /\ Len(r.part) = 0 /\ Len(Chunks(r.sections)) = 0
      BY <2>2, <2>14, Given, ChunksEmpty
    <3>2. CASE last
      <4>1. r.at = "section" /\ Len(r.rows) = r.count /\ r.size = 1 + r.count + Reserved(r.rows)
        BY <2>5, <2>10, <2>11, <2>12, <2>14, <3>2
      <4>2. r.offset = 1 + r.count /\ r.count \in Nat /\ r.count > 0
        BY <2>3, <2>8, <2>14, <4>1
      <4> QED BY <2>3, <2>14, <3>1, <4>1, <4>2 DEF Progress, Resting, Opened
    <3>3. CASE ~last
      <4>1. /\ r.at = "row" /\ r.total = 1 + r.count + Reserved(r.rows)
            /\ r.count \in 1..MaxSections /\ r.offset = 1 + Len(r.rows)
            /\ Len(r.rows) < r.count
        BY <2>3, <2>5, <2>8, <2>10, <2>11, <2>14, <3>3
      <4> QED BY <2>3, <2>14, <3>1, <4>1 DEF Progress, Resting, Opened
    <3> QED BY <3>2, <3>3
  <2>16. ASSUME Taken(reading, f.cells) PROVE Taken(r, f.cells)
    <3>1. \A i \in 1..Len(more) : f.cells[1 + i] = more[i]
      <4>1. TAKE i \in 1..Len(more)
      <4>2. CASE i = Len(reading.rows) + 1
        BY <2>3, <2>4, <2>8, <4>2
      <4>3. CASE i # Len(reading.rows) + 1
        <5>1. i \in 1..Len(reading.rows)
          BY <2>5, <2>8, <4>3
        <5> QED BY <2>8, <2>16, <5>1 DEF Taken
      <4> QED BY <4>2, <4>3
    <3>2. Len(f.cells) >= 1 /\ f.cells[1] = Header(reading.count)
      BY <1>1, <2>16 DEF Taken
    <3> QED BY <2>14, <3>1, <3>2, ChunksEmpty DEF Taken
  <2>17. Followed(r, f)
    BY <2>2, <2>14, <2>16, FollowedStep
  <2>18. f = stored[r.file]
    BY <2>14 DEF f
  <2> QED BY <1>1, <2>13, <2>14, <2>15, <2>17, <2>18, LoaderFrame
<1> QED BY <1>2, <1>3, <1>4

\* A chunk is put where the sections before it end.
LEMMA ChunkStep == ASSUME CInv, ReadChunk PROVE CInv'
<1> DEFINE cell == NextCell
<1> DEFINE r == [reading EXCEPT !.part = Append(@, cell), !.offset = @ + 1]
<1>1. UNCHANGED <<stored, visible, tick, saving>> /\ reading.at = "section"
  BY DEF ReadChunk, ReaderOnly, storage
<1>2. reading' = Finished("malformed") \/ (~AtEnd /\ reading' = r)
  BY DEF ReadChunk
<1>3. CASE reading' = Finished("malformed")
  <2>1. "malformed" \in Resting
    BY DEF Resting
  <2> QED BY <1>1, <1>3, <2>1, LoaderStops
<1>4. CASE ~AtEnd /\ reading' = r
  <2> DEFINE f == stored[reading.file]
  <2> DEFINE before == 1 + reading.count + Len(Chunks(reading.sections))
  <2>1. reading.at \in Opened
    BY <1>1 DEF Opened
  <2>2. /\ reading.file \in CacheFile /\ f \in FileType /\ reading \in ReadType
        /\ Followed(reading, f) /\ Progress(reading)
    BY <2>1, OpenFile DEF CInv, ReadInv
  <2>3. reading.offset = before + Len(reading.part)
    BY <1>1, <2>2 DEF Progress
  <2>4. /\ cell \in Cell /\ reading.offset \in Nat /\ cell = f.cells[reading.offset + 1]
    BY <1>4, <2>1, NextIsCell
  <2>5. /\ reading.part \in Seq(Cell) /\ reading.sections \in Seq(Section) /\ reading.count \in Nat
        /\ Len(Chunks(reading.sections)) \in Nat
    <3>1. /\ reading.part \in Seq(Cell) /\ reading.sections \in Seq(Section)
          /\ reading.count \in Nat
      BY <2>2 DEF ReadType
    <3>2. Chunks(reading.sections) \in Seq(Cell)
      BY <3>1, ChunksType
    <3> QED BY <3>1, <3>2
  <2> DEFINE more == Append(reading.part, cell)
  <2>6. /\ more \in Seq(Cell) /\ Len(more) = Len(reading.part) + 1
        /\ more[Len(reading.part) + 1] = cell
        /\ \A k \in 1..Len(reading.part) : more[k] = reading.part[k]
    BY <2>4, <2>5
  <2>7. r = [reading EXCEPT !.part = more, !.offset = @ + 1]
    OBVIOUS
  <2>8. reading' = r /\ before \in Nat
    BY <1>4, <2>5
  <2>9. ASSUME Taken(reading, f.cells), NEW k \in 1..Len(more) PROVE f.cells[before + k] = more[k]
    <3>1. CASE k = Len(reading.part) + 1
      <4>1. before + k = reading.offset + 1
        BY <2>3, <2>5, <2>8, <3>1
      <4> QED BY <2>4, <2>6, <3>1, <4>1
    <3>2. CASE k # Len(reading.part) + 1
      <4>1. k \in 1..Len(reading.part)
        BY <2>5, <2>6, <3>2
      <4> QED BY <2>6, <2>9, <4>1 DEF Taken
    <3> QED BY <3>1, <3>2
  <2> HIDE DEF cell, more, r, f
  <2>10. /\ r \in ReadType /\ r.at = "section" /\ r.offset = reading.offset + 1
         /\ r.total = reading.total /\ r.rows = reading.rows /\ r.count = reading.count
         /\ r.file = reading.file /\ r.budget = reading.budget /\ r.size = reading.size
         /\ r.opened = reading.opened /\ r.mtime = reading.mtime /\ r.trusted = reading.trusted
         /\ r.sections = reading.sections /\ r.part = more
    <3>1. reading.offset + 1 \in Nat
      BY <2>4
    <3> QED BY <1>1, <2>2, <2>6, <2>7, <3>1 DEF ReadType
  <2>11. Progress(r)
    <3>1. Len(reading.part) \in Nat
      BY <2>5
    <3>2. before + Len(reading.part) + 1 = before + (Len(reading.part) + 1)
      BY <2>8, <3>1
    <3>3. r.offset = 1 + r.count + Len(Chunks(r.sections)) + Len(r.part)
      BY <2>3, <2>6, <2>10, <3>2
    <3> QED BY <1>1, <2>2, <2>10, <3>3 DEF Progress, Resting, Opened
  <2>12. ASSUME Taken(reading, f.cells) PROVE Taken(r, f.cells)
    BY <1>1, <2>9, <2>10, <2>12 DEF Taken
  <2>13. Followed(r, f)
    BY <2>2, <2>10, <2>12, FollowedStep
  <2>14. f = stored[r.file]
    BY <2>10 DEF f
  <2> QED BY <1>1, <2>8, <2>10, <2>11, <2>13, <2>14, LoaderFrame
<1> QED BY <1>2, <1>3, <1>4

\* A section is complete: its chunks are its row's, and so is its length.
LEMMA SectionStep == ASSUME CInv, CheckSection PROVE CInv'
<1> DEFINE row == CurrentRow
<1> DEFINE where == IF Len(reading.sections) + 1 = reading.count THEN "final" ELSE "section"
<1> DEFINE r == [reading EXCEPT !.sections = Append(@, row.digest), !.part = <<>>, !.at = where]
<1>1. /\ UNCHANGED <<stored, visible, tick, saving>>
      /\ reading.at = "section" /\ Len(reading.part) = row.number
  BY DEF CheckSection, ReaderOnly, storage
<1>2. \/ reading' = Finished("malformed")
      \/ reading' = r /\ row.kind = "row" /\ reading.part = Body(row.digest)
  BY DEF CheckSection
<1>3. CASE reading' = Finished("malformed")
  <2>1. "malformed" \in Resting
    BY DEF Resting
  <2> QED BY <1>1, <1>3, <2>1, LoaderStops
<1>4. CASE reading' = r /\ row.kind = "row" /\ reading.part = Body(row.digest)
  <2> DEFINE f == stored[reading.file]
  <2> DEFINE s == row.digest
  <2> DEFINE n == Len(reading.sections)
  <2>1. reading.at \in Opened
    BY <1>1 DEF Opened
  <2>2. /\ reading.file \in CacheFile /\ f \in FileType /\ reading \in ReadType
        /\ Followed(reading, f) /\ Progress(reading)
    BY <2>1, OpenFile DEF CInv, ReadInv
  <2>3. /\ Len(reading.rows) = reading.count /\ n < reading.count
        /\ reading.size = 1 + reading.count + Reserved(reading.rows)
        /\ reading.offset = 1 + reading.count + Len(Chunks(reading.sections)) + Len(reading.part)
        /\ \A i \in 1..n : reading.rows[i] = Row(Len(reading.sections[i]), reading.sections[i])
        /\ reading.size = Len(reading.opened) /\ reading.size <= reading.budget
        /\ reading.trusted => reading.mtime < tick
    BY <1>1, <2>2 DEF Progress, Opened
  <2>4. /\ reading.sections \in Seq(Section) /\ reading.rows \in Seq(Cell) /\ reading.count \in Nat
        /\ n \in Nat
    BY <2>2 DEF ReadType
  <2>5. row = reading.rows[n + 1] /\ row \in Cell
    BY <2>3, <2>4 DEF CurrentRow
  <2>6. row = Row(row.number, s) /\ s \in Section
    BY <1>4, <2>5, CellRead DEF Section
  <2>7. /\ Body(s) \in Seq(Cell) /\ Len(Body(s)) = Len(s) /\ row = Row(Len(s), s)
        /\ reading.part = Body(s)
    BY <1>1, <1>4, <2>6, BodyType
  <2> DEFINE more == Append(reading.sections, s)
  <2>8. /\ more \in Seq(Section) /\ Len(more) = n + 1 /\ more[n + 1] = s
        /\ \A i \in 1..n : more[i] = reading.sections[i]
    BY <2>4, <2>6
  <2>9. /\ Chunks(more) = Chunks(reading.sections) \o Body(s)
        /\ Chunks(reading.sections) \in Seq(Cell)
    BY <2>4, <2>6, ChunksAppend, ChunksType
  <2>10. r = [reading EXCEPT !.sections = more, !.part = <<>>, !.at = where]
    OBVIOUS
  <2>11. where \in Opened /\ (n + 1 = reading.count => where = "final")
         /\ (n + 1 # reading.count => where = "section")
    BY DEF Opened
  <2>12. reading' = r
    BY <1>4
  <2>13. /\ \A i \in 1..Len(Chunks(reading.sections)) : Chunks(more)[i] = Chunks(reading.sections)[i]
         /\ \A k \in 1..Len(Body(s)) : Chunks(more)[Len(Chunks(reading.sections)) + k] = Body(s)[k]
         /\ Len(Chunks(more)) = Len(Chunks(reading.sections)) + Len(Body(s))
    <3> DEFINE a == Chunks(reading.sections)
    <3> DEFINE b == Body(s)
    <3> DEFINE c == a \o b
    <3>1. /\ \A i \in 1..Len(a) : c[i] = a[i]
          /\ \A k \in 1..Len(b) : c[Len(a) + k] = b[k]
          /\ Len(c) = Len(a) + Len(b)
      BY <2>7, <2>9, ConcatAt
    <3>2. Chunks(more) = c
      BY <2>9
    <3> HIDE DEF c, more, b, s
    <3> QED BY <3>1, <3>2 DEF b
  <2>14. Len(Chunks(reading.sections)) \in Nat /\ Len(Body(s)) \in Nat
    BY <2>7, <2>9
  <2> HIDE DEF row, where, more, r, f, s, n
  <2>15. /\ r \in ReadType /\ r.at = where /\ r.offset = reading.offset
         /\ r.total = reading.total /\ r.rows = reading.rows /\ r.count = reading.count
         /\ r.file = reading.file /\ r.budget = reading.budget /\ r.size = reading.size
         /\ r.opened = reading.opened /\ r.mtime = reading.mtime /\ r.trusted = reading.trusted
         /\ r.sections = more /\ r.part = <<>>
    <3>1. <<>> \in Seq(Cell)
      OBVIOUS
    <3> QED BY <2>2, <2>8, <2>10, <2>11, <3>1 DEF ReadType
  <2>16. Progress(r)
    <3>1. r.file # NoFile /\ Len(r.part) = 0
      BY <2>2, <2>15, Given
    <3>2. r.offset = 1 + r.count + Len(Chunks(r.sections)) + Len(r.part)
      <4> DEFINE a == Len(Chunks(reading.sections))
      <4> DEFINE b == Len(Body(s))
      <4>1. reading.offset = 1 + reading.count + a + b
        BY <2>3, <2>7
      <4>2. Len(Chunks(r.sections)) = a + b
        BY <2>13, <2>15
      <4>3. a \in Nat /\ b \in Nat
        BY <2>14
      <4> HIDE DEF a, b
      <4>4. 1 + reading.count + a + b = 1 + reading.count + (a + b) + 0
        BY <2>4, <4>3
      <4> QED BY <2>15, <3>1, <4>1, <4>2, <4>4
    <3>3. Len(r.sections) <= r.count
      BY <2>3, <2>4, <2>8, <2>15
    <3>4. \A i \in 1..Len(r.sections) : r.rows[i] = Row(Len(r.sections[i]), r.sections[i])
      <4>1. TAKE i \in 1..Len(r.sections)
      <4>2. CASE i = n + 1
        BY <2>5, <2>7, <2>8, <2>15, <4>2
      <4>3. CASE i # n + 1
        <5>1. i \in 1..n
          BY <2>4, <2>8, <2>15, <4>3
        <5> QED BY <2>3, <2>8, <2>15, <5>1
      <4> QED BY <4>2, <4>3
    <3>5. r.size = 1 + r.count + Reserved(r.rows) /\ Len(r.rows) = r.count
      BY <2>3, <2>15
    <3>6. CASE n + 1 = reading.count
      <4>1. r.at = "final" /\ Len(r.sections) = r.count
        BY <2>8, <2>11, <2>15, <3>6
      <4> QED BY <2>3, <2>15, <3>1, <3>2, <3>3, <3>4, <3>5, <4>1 DEF Progress, Resting, Opened
    <3>7. CASE n + 1 # reading.count
      <4>1. r.at = "section" /\ Len(r.sections) < r.count
        BY <2>3, <2>4, <2>8, <2>11, <2>15, <3>7
      <4> QED BY <2>3, <2>15, <3>1, <3>2, <3>3, <3>4, <3>5, <4>1 DEF Progress, Resting, Opened
    <3> QED BY <3>6, <3>7
  <2>17. ASSUME Taken(reading, f.cells) PROVE Taken(r, f.cells)
    <3>1. /\ Len(f.cells) >= 1 /\ f.cells[1] = Header(reading.count)
          /\ \A i \in 1..Len(reading.rows) : f.cells[1 + i] = reading.rows[i]
          /\ \A k \in 1..Len(Chunks(reading.sections)) :
                f.cells[1 + reading.count + k] = Chunks(reading.sections)[k]
          /\ \A k \in 1..Len(reading.part) :
                f.cells[1 + reading.count + Len(Chunks(reading.sections)) + k] = reading.part[k]
      BY <1>1, <2>17 DEF Taken
    <3>2. ASSUME NEW k \in 1..Len(Chunks(more)) PROVE f.cells[1 + reading.count + k] = Chunks(more)[k]
      <4>1. CASE k <= Len(Chunks(reading.sections))
        <5>1. k \in 1..Len(Chunks(reading.sections))
          BY <2>13, <2>14, <4>1
        <5> QED BY <2>13, <3>1, <5>1
      <4>2. CASE ~(k <= Len(Chunks(reading.sections)))
        <5> DEFINE j == k - Len(Chunks(reading.sections))
        <5>1. /\ j \in 1..Len(Body(s)) /\ k = Len(Chunks(reading.sections)) + j
              /\ 1 + reading.count + k = 1 + reading.count + Len(Chunks(reading.sections)) + j
          BY <2>4, <2>13, <2>14, <4>2
        <5> HIDE DEF j
        <5> QED BY <2>7, <2>13, <3>1, <5>1
      <4> QED BY <4>1, <4>2
    <3> QED BY <2>15, <3>1, <3>2 DEF Taken
  <2>18. Followed(r, f)
    BY <2>2, <2>15, <2>17, FollowedStep
  <2>19. f = stored[r.file]
    BY <2>15 DEF f
  <2> QED BY <1>1, <2>12, <2>15, <2>16, <2>18, <2>19, LoaderFrame
<1> QED BY <1>2, <1>3, <1>4

\* Every step of the reader keeps the invariant.
LEMMA LoaderStep == ASSUME CInv, Loader PROVE CInv'
<1>1. CASE FinalCheck
  <2>1. /\ UNCHANGED <<stored, visible, tick, saving>>
        /\ reading' = Accepted \/ reading' = Finished("malformed")
    BY <1>1 DEF FinalCheck, ReaderOnly, storage
  <2>2. "malformed" \in Resting
    BY DEF Resting
  <2> QED BY <2>1, <2>2, LoaderStops, LoaderAccepts
<1>2. CASE ReadFails
  <2>1. UNCHANGED <<stored, visible, tick, saving>> /\ reading' = Finished("failed")
    BY <1>2 DEF ReadFails, storage
  <2>2. "failed" \in Resting
    BY DEF Resting
  <2> QED BY <2>1, <2>2, LoaderStops
<1>3. CASE Examine \/ OpenCache \/ \E b \in Budgets : Ask(b)
  BY <1>3, BeginsRead
<1>4. CASE Measure \/ ReadHeader \/ ReadRow \/ ReadChunk \/ CheckSection
  BY <1>4, MeasureStep, HeaderStep, RowStep, ChunkStep, SectionStep
<1> QED BY <1>1, <1>2, <1>3, <1>4 DEF Loader

-----------------------------------------------------------------------------
(* Other programs, and the clock *)

\* A file that others have changed is not a saved one any more.
LEMMA TouchedSaved ==
    ASSUME CInv, NEW f \in CacheFile, f # saving.file, NEW new \in FileType, new.saved = 0,
           stored' = [stored EXCEPT ![f] = new], UNCHANGED <<visible, saving, tick>>,
           reading'.file = reading.file, reading' \in ReadType
    PROVE  ContainerTypes' /\ SavedInv'
<1>1. /\ stored' \in [CacheFile -> FileType] /\ stored'[f] = new
      /\ \A g \in CacheFile : g # f => stored'[g] = stored[g]
  BY DEF CInv, ContainerTypes
<1>2. ContainerTypes'
  BY <1>1 DEF CInv, ContainerTypes
<1>3. SavedInv'
  BY <1>1 DEF CInv, SavedInv, Savable
<1> QED BY <1>2, <1>3

\* Cells put into the file that is read move its time on.
LEMMA PutStep ==
    ASSUME CInv, NEW f \in CacheFile, f # saving.file, NEW cells \in Seq(Cell), PutCells(f, cells)
    PROVE  CInv'
<1> DEFINE new == [cells |-> cells, mtime |-> tick, saved |-> 0]
<1>1. /\ stored' = [stored EXCEPT ![f] = new]
      /\ UNCHANGED <<visible, reading, tick, saving>>
  BY DEF PutCells, Edited
<1>2. new \in FileType /\ new.saved = 0 /\ new.mtime = tick
  BY DEF FileType, CInv, ContainerTypes
<1>3. reading \in ReadType /\ tick \in Nat /\ stored \in [CacheFile -> FileType]
  BY DEF CInv, ContainerTypes
<1> HIDE DEF new
<1>4. ContainerTypes' /\ SavedInv'
  BY <1>1, <1>2, <1>3, TouchedSaved
<1>5. ReadInv'
  <2>1. CASE f # reading.file
    BY <1>1, <1>3, <2>1, ReaderKept DEF CInv
  <2>2. CASE f = reading.file
    <3>1. stored'[reading.file] = new
      BY <1>1, <1>3, <2>2
    <3>2. reading.at \in Opened => Followed(reading, new)
      BY <1>2 DEF CInv, ReadInv, Progress, Followed
    <3>3. /\ Progress(reading')
          /\ reading'.at \in Opened => Followed(reading', stored'[reading'.file])
      <4>1. reading' = reading /\ stored'[reading'.file] = new
        BY <1>1, <3>1
      <4> QED BY <3>2, <4>1 DEF CInv, ReadInv
    <3> QED BY <1>1, <3>3 DEF ReadInv, Progress, Followed, Same, Taken
  <2> QED BY <2>1, <2>2
<1> QED BY <1>4, <1>5 DEF CInv

\* A time that is given back ends the trust in the times of that file.
LEMMA RestoreStep ==
    ASSUME CInv, NEW f \in CacheFile, f # saving.file, NEW t \in 0..tick, RestoreTime(f, t)
    PROVE  CInv'
<1> DEFINE new == [stored[f] EXCEPT !.mtime = t, !.saved = 0]
<1> DEFINE still == reading.trusted /\ f # reading.file
<1> DEFINE r == [reading EXCEPT !.trusted = still]
<1>1. /\ stored' = [stored EXCEPT ![f] = new] /\ reading' = r
      /\ UNCHANGED <<visible, tick, saving>>
  BY DEF RestoreTime, Edited, CInv, ContainerTypes
<1>2. reading \in ReadType /\ tick \in Nat /\ stored \in [CacheFile -> FileType]
  BY DEF CInv, ContainerTypes
<1>3. new \in FileType /\ new.saved = 0
  <2>1. t \in Nat
    BY <1>2
  <2> QED BY <1>2, <2>1 DEF FileType
<1>4. still \in BOOLEAN /\ (still => reading.trusted) /\ (f # reading.file => still = reading.trusted)
      /\ (f = reading.file => ~still)
  BY <1>2 DEF ReadType
<1> HIDE DEF new, still
<1>5. /\ r \in ReadType /\ r.at = reading.at /\ r.file = reading.file /\ r.budget = reading.budget
      /\ r.size = reading.size /\ r.mtime = reading.mtime /\ r.offset = reading.offset
      /\ r.count = reading.count /\ r.total = reading.total /\ r.rows = reading.rows
      /\ r.part = reading.part /\ r.sections = reading.sections /\ r.opened = reading.opened
      /\ r.trusted = still
  BY <1>2, <1>4 DEF ReadType
<1> HIDE DEF r
<1>6. ContainerTypes' /\ SavedInv'
  BY <1>1, <1>2, <1>3, <1>5, TouchedSaved
<1>7. Progress(r)
  BY <1>4, <1>5 DEF CInv, ReadInv, Progress
<1>8. ASSUME r.at \in Opened PROVE Followed(r, stored'[r.file])
  <2>1. Followed(reading, stored[reading.file])
    BY <1>5, <1>8 DEF CInv, ReadInv
  <2>2. \A cells : Taken(reading, cells) => Taken(r, cells)
    BY <1>5 DEF Taken
  <2>3. CASE f # reading.file
    <3>1. stored'[r.file] = stored[reading.file] /\ still = reading.trusted
      BY <1>1, <1>2, <1>4, <1>5, <2>3
    <3> QED BY <1>5, <2>1, <2>2, <3>1 DEF Followed, Same
  <2>4. CASE f = reading.file
    <3>1. stored'[r.file] = new /\ ~still
      BY <1>1, <1>2, <1>4, <1>5, <2>4
    <3> QED BY <1>3, <1>5, <3>1 DEF Followed
  <2> QED BY <2>3, <2>4
<1>9. ReadInv'
  <2>1. /\ Progress(reading')
        /\ reading'.at \in Opened => Followed(reading', stored'[reading'.file])
    BY <1>1, <1>7, <1>8
  <2> QED BY <1>1, <2>1 DEF ReadInv, Progress, Followed, Same, Taken
<1> QED BY <1>6, <1>9 DEF CInv

\* The cells other programs can leave behind are cells.
LEMMA PutIsCells ==
    ASSUME CInv, NEW f \in CacheFile
    PROVE  /\ \A cell \in Junk :
                 /\ Append(stored[f].cells, cell) \in Seq(Cell)
                 /\ \A k \in DOMAIN stored[f].cells : [stored[f].cells EXCEPT ![k] = cell] \in Seq(Cell)
           /\ \A k \in 0..(Len(stored[f].cells) - 1) : SubSeq(stored[f].cells, 1, k) \in Seq(Cell)
           /\ \A p \in Payloads : Container(p) \in Seq(Cell)
<1> DEFINE s == stored[f].cells
<1>1. s \in Seq(Cell)
  BY DEF CInv, ContainerTypes, FileType
<1>2. Junk \subseteq Cell /\ \A p \in Payloads : Container(p) \in Seq(Cell)
  BY Given
<1> HIDE DEF s
<1>3. ASSUME NEW cell \in Junk
      PROVE  Append(s, cell) \in Seq(Cell) /\ \A k \in DOMAIN s : [s EXCEPT ![k] = cell] \in Seq(Cell)
  <2>1. cell \in Cell
    BY <1>2
  <2> QED BY <1>1, <2>1
<1>4. ASSUME NEW k \in 0..(Len(s) - 1) PROVE SubSeq(s, 1, k) \in Seq(Cell)
  BY <1>1
<1> QED BY <1>2, <1>3, <1>4 DEF s

\* Every step of other programs, and every tick, keeps the invariant.
LEMMA OtherStep == ASSUME CInv, OtherPrograms PROVE CInv'
<1>1. CASE Tick
  <2>1. /\ tick' = tick + 1 /\ tick \in Nat
        /\ UNCHANGED <<stored, visible, saving, reading>>
    BY <1>1 DEF Tick, CInv, ContainerTypes
  <2>2. ContainerTypes'
    BY <2>1 DEF CInv, ContainerTypes
  <2>3. SavedInv'
    BY <2>1 DEF CInv, SavedInv, Savable
  <2>4. ReadInv'
    BY <2>1, ReaderKept DEF CInv
  <2> QED BY <2>2, <2>3, <2>4 DEF CInv
<1>2. CASE \E target \in CacheFile \cup {NoFile, Directory} : MovePath(target)
  <2>1. PICK target \in CacheFile \cup {NoFile, Directory} : MovePath(target)
    BY <1>2
  <2>2. /\ visible' = target /\ (saving # NoSave => target # saving.file)
        /\ UNCHANGED <<stored, reading, tick, saving>>
    BY <2>1 DEF MovePath, Edited
  <2>3. ContainerTypes'
    BY <2>1, <2>2 DEF CInv, ContainerTypes
  <2>4. SavedInv'
    BY <2>2 DEF CInv, SavedInv, Savable
  <2>5. ReadInv'
    BY <2>2, ReaderKept DEF CInv, ContainerTypes
  <2> QED BY <2>3, <2>4, <2>5 DEF CInv
<1>3. ASSUME NEW f \in (CacheFile \cap {visible, reading.file}) \ {saving.file},
             \/ \E cell \in Junk :
                   Lengthen(f, cell) \/ \E k \in DOMAIN stored[f].cells : Damage(f, k, cell)
             \/ \E k \in 0..(Len(stored[f].cells) - 1) : CutShort(f, k)
             \/ \E p \in Payloads : CopyOver(f, p)
      PROVE  CInv'
  <2>1. \E cells \in Seq(Cell) : PutCells(f, cells)
    BY <1>3, PutIsCells DEF Lengthen, Damage, CutShort, CopyOver
  <2> QED BY <2>1, PutStep
<1>4. ASSUME NEW f \in (CacheFile \cap {visible, reading.file}) \ {saving.file},
             NEW t \in 0..tick, RestoreTime(f, t)
      PROVE  CInv'
  BY <1>4, RestoreStep
<1> QED BY <1>1, <1>2, <1>3, <1>4 DEF OtherPrograms

-----------------------------------------------------------------------------
(* Theorems *)

\* The invariant is inductive.
LEMMA ContainerStep == ASSUME CInv, [ContainerNext]_containerVars PROVE CInv'
<1>1. CASE UNCHANGED containerVars
  <2>1. UNCHANGED <<stored, visible, tick, saving, reading>>
    BY <1>1 DEF containerVars
  <2> QED BY <2>1 DEF CInv, ContainerTypes, SavedInv, Savable, ReadInv, Progress, Followed, Same, Taken
<1> QED BY <1>1, SaverStep, LoaderStep, OtherStep DEF ContainerNext

\* It holds in every state: a file that counts as saved is within the limits of the
\* writer, and a reader that stands at an offset has read what the file holds.
THEOREM ContainerInvariant == ContainerSpec => []CInv
<1>1. CInv /\ [ContainerNext]_containerVars => CInv'
  BY ContainerStep
<1> QED BY <1>1, ContainerInitInv, PTL DEF ContainerSpec

\* What a loader reserves for sections fits into its max_bytes, whatever lengths a
\* damaged table names.
THEOREM ReservesWithinBudget == ContainerSpec => []ReservedWithinBudget
<1>1. CInv => ReservedWithinBudget
  <2>1. SUFFICES ASSUME CInv, reading.at = "section" PROVE Reserved(reading.rows) <= reading.budget
    BY DEF ReservedWithinBudget
  <2>2. /\ reading.size = 1 + reading.count + Reserved(reading.rows)
        /\ reading.size <= reading.budget
    BY <2>1 DEF CInv, ReadInv, Progress, Opened
  <2>3. reading.rows \in Seq(Cell) /\ reading.count \in Nat /\ reading.budget \in Nat
    BY <2>1, Given DEF CInv, ContainerTypes, ReadType
  <2>4. Reserved(reading.rows) \in Nat
    BY <2>3, ReservedType
  <2> QED BY <2>2, <2>3, <2>4
<1> QED BY <1>1, ContainerInvariant, PTL

\* Sequences with the same elements are the same.
LEMMA SameElements ==
    ASSUME NEW S, NEW s \in Seq(S), NEW t \in Seq(S), Len(s) = Len(t),
           \A i \in 1..Len(t) : s[i] = t[i]
    PROVE  s = t
  OBVIOUS

\* What a loader accepts is what the file held when it was opened, if no time was
\* given back meanwhile.
THEOREM AcceptsWhatWasThere == ContainerSpec => AcceptedWasThere
<1>1. ASSUME CInv, [ContainerNext]_containerVars, reading.at = "final",
             reading'.at = "accepted", reading.trusted
      PROVE  reading.opened = Container(reading'.sections)
  <2> DEFINE f == stored[reading.file]
  <2>1. FinalCheck
    <3>1. \A t \in 0..tick, g \in CacheFile : RestoreTime(g, t) => reading'.at = reading.at
      BY <1>1 DEF RestoreTime, CInv, ContainerTypes, ReadType
    <3>2. OtherPrograms => reading'.at = reading.at
      BY <3>1 DEF OtherPrograms, Tick, MovePath, Lengthen, Damage, CutShort, CopyOver, PutCells
    <3>3. Saver => reading' = reading
      BY DEF Saver, WriteCell, PublishSave, AbandonSave, BeginSave, SaverOnly
    <3>4. Finished("failed").at = "failed"
      BY AtRest DEF Resting
    <3>5. Loader => FinalCheck
      BY <1>1, <3>4 DEF Loader, Examine, OpenCache, Measure, ReadHeader, ReadRow, ReadChunk,
        CheckSection, ReadFails, Ask, Idle
    <3>6. UNCHANGED containerVars => reading' = reading
      BY DEF containerVars
    <3> QED BY <1>1, <3>2, <3>3, <3>5, <3>6 DEF ContainerNext
  <2>2. Len(f.cells) = reading.size /\ f.mtime = reading.mtime /\ reading' = Accepted
    <3>1. Finished("malformed").at = "malformed"
      BY AtRest DEF Resting
    <3> QED BY <1>1, <2>1, <3>1 DEF FinalCheck
  <2>3. /\ reading.file \in CacheFile /\ f \in FileType /\ reading \in ReadType
        /\ Followed(reading, f) /\ Progress(reading)
    BY <1>1, OpenFile DEF CInv, ReadInv, Opened
  <2>4. Same(reading, f)
    <3>1. ~(f.mtime < f.mtime)
      BY <2>3 DEF FileType
    <3> QED BY <1>1, <2>2, <2>3, <3>1 DEF Followed
  <2> DEFINE p == reading.sections
  <2> DEFINE made == Container(p)
  <2>5. /\ Len(p) = reading.count /\ Len(reading.rows) = reading.count
        /\ Len(reading.opened) = 1 + reading.count + Reserved(reading.rows)
        /\ \A i \in 1..Len(p) : reading.rows[i] = Row(Len(p[i]), p[i])
    BY <1>1, <2>3 DEF Progress, Opened
  <2>6. /\ p \in Seq(Section) /\ reading.rows \in Seq(Cell) /\ reading.opened \in Seq(Cell)
        /\ reading.count \in Nat
    BY <2>3 DEF ReadType
  <2>7. Reserved(reading.rows) = Len(Chunks(p)) /\ Len(Chunks(p)) \in Nat
    <3>1. \A i \in 1..Len(p) : reading.rows[i].number = Len(p[i])
      BY <2>5, RowParts
    <3>2. Chunks(p) \in Seq(Cell)
      BY <2>6, ChunksType
    <3> HIDE DEF p
    <3>3. Len(reading.rows) = Len(p)
      BY <2>5
    <3>4. Reserved(reading.rows) = Len(Chunks(p))
      BY <2>6, <3>1, <3>3, ReservedIsChunks
    <3> QED BY <3>2, <3>4
  <2>8. /\ made \in Seq(Cell) /\ Len(made) = 1 + Len(p) + Len(Chunks(p))
        /\ made[1] = Header(Len(p))
        /\ \A i \in 1..Len(p) : made[1 + i] = Row(Len(p[i]), p[i])
        /\ \A k \in 1..Len(Chunks(p)) : made[1 + Len(p) + k] = Chunks(p)[k]
    BY <2>6, ContainerAt
  <2>9. /\ reading.opened[1] = Header(Len(p))
        /\ \A i \in 1..Len(p) : reading.opened[1 + i] = Row(Len(p[i]), p[i])
        /\ \A k \in 1..Len(Chunks(p)) : reading.opened[1 + Len(p) + k] = Chunks(p)[k]
    BY <1>1, <2>4, <2>5 DEF Same, Taken
  <2>10. Len(p) \in Nat
    BY <2>5, <2>6
  <2> HIDE DEF p, made
  <2>11. ASSUME NEW j \in 1..Len(made) PROVE reading.opened[j] = made[j]
    <3>1. CASE j = 1
      BY <2>8, <2>9, <3>1
    <3>2. CASE j # 1 /\ j <= 1 + Len(p)
      <4>1. j - 1 \in 1..Len(p) /\ j = 1 + (j - 1)
        BY <2>8, <2>10, <3>2
      <4> QED BY <2>8, <2>9, <4>1
    <3>3. CASE ~(j <= 1 + Len(p))
      <4>1. j - (1 + Len(p)) \in 1..Len(Chunks(p)) /\ j = 1 + Len(p) + (j - (1 + Len(p)))
        BY <2>7, <2>8, <2>10, <3>3
      <4> QED BY <2>8, <2>9, <4>1
    <3> QED BY <2>7, <2>8, <2>10, <3>1, <3>2, <3>3
  <2>12. reading.opened = made
    <3>1. Len(reading.opened) = Len(made)
      BY <2>5, <2>7, <2>8
    <3>2. reading.opened \in Seq(Cell) /\ made \in Seq(Cell)
      BY <2>6, <2>8
    <3> QED BY <2>11, <3>1, <3>2, SameElements
  <2>13. reading'.sections = p
    BY <2>2, AtRest DEF Accepted, Finished, NoRead, p
  <2> QED BY <2>12, <2>13 DEF made
<1>2. CInv /\ [ContainerNext]_containerVars =>
        [reading.at = "final" /\ reading'.at = "accepted" /\ reading.trusted =>
            reading.opened = Container(reading'.sections)]_containerVars
  BY <1>1
<1> QED BY <1>2, ContainerInvariant, PTL DEF ContainerSpec, AcceptedWasThere

-----------------------------------------------------------------------------
(* What the library has saved *)

\* A saved file the budget allows is the one a list of sections makes, and the
\* reader has taken the beginning of it.
SavedAs(p) ==
    /\ p \in Seq(Section) /\ Len(p) \in 1..MaxSections /\ Len(p[1]) <= MaxMetadata
    /\ stored[reading.file].cells = Container(p)
    /\ Len(stored[reading.file].cells) <= reading.budget

LEMMA SavedFile ==
    ASSUME CInv, reading.file # NoFile, stored[reading.file].saved \in 1..reading.budget
    PROVE  /\ reading.at \in Opened \cup {"measure"}
           /\ reading.at \in Opened => Same(reading, stored[reading.file])
           /\ \E p \in Payloads : SavedAs(p)
<1>1. reading.file \in CacheFile /\ reading \in ReadType /\ Progress(reading)
  BY DEF CInv, ContainerTypes, ReadInv, ReadType
<1>2. reading.at \in Opened \cup {"measure"}
  BY <1>1 DEF Progress, ReadType
<1>3. reading.budget \in Nat /\ stored[reading.file].saved # 0
  BY <1>1, Given DEF ReadType
<1>4. reading.at \in Opened => Same(reading, stored[reading.file])
  BY <1>3 DEF CInv, ReadInv, Followed
<1>5. PICK p \in Payloads :
          /\ stored[reading.file].cells = Container(p) /\ Len(p) \in 1..MaxSections
          /\ Len(p[1]) <= MaxMetadata
          /\ Len(stored[reading.file].cells) <= stored[reading.file].saved
  BY <1>1, <1>3 DEF CInv, SavedInv, Savable
<1>6. Len(stored[reading.file].cells) \in Nat
  BY <1>1, OpenFile, <1>2 DEF FileType
<1>7. SavedAs(p)
  BY <1>3, <1>5, <1>6, Given DEF SavedAs
<1> QED BY <1>2, <1>4, <1>7

\* The rows that were taken are those of its sections.
LEMMA SavedRows ==
    ASSUME CInv, NEW p, SavedAs(p), reading.at \in {"row", "section", "final"},
           Same(reading, stored[reading.file])
    PROVE  /\ reading.count = Len(p)
           /\ reading.opened = Container(p) /\ reading.size = 1 + Len(p) + Len(Chunks(p))
           /\ \A i \in 1..Len(reading.rows) :
                 i \in 1..Len(p) => reading.rows[i] = Row(Len(p[i]), p[i])
<1>1. /\ stored[reading.file].cells[1] = Header(reading.count)
      /\ \A i \in 1..Len(reading.rows) : stored[reading.file].cells[1 + i] = reading.rows[i]
      /\ stored[reading.file].cells = reading.opened
  BY DEF Same, Taken
<1>2. /\ Container(p)[1] = Header(Len(p))
      /\ Len(Container(p)) = 1 + Len(p) + Len(Chunks(p))
      /\ \A i \in 1..Len(p) : Container(p)[1 + i] = Row(Len(p[i]), p[i])
  BY ContainerAt DEF SavedAs
<1>3. stored[reading.file].cells = Container(p)
  BY DEF SavedAs
<1>4. reading.count = Len(p)
  <2>1. Header(reading.count).number = Header(Len(p)).number
    BY <1>1, <1>2, <1>3
  <2> QED BY <2>1, RowParts
<1>5. reading.size = Len(reading.opened)
  BY DEF CInv, ReadInv, Progress, Opened
<1> QED BY <1>1, <1>2, <1>3, <1>4, <1>5

\* The sections before the one that is read are its first sections.
LEMMA SavedSections ==
    ASSUME CInv, NEW p, SavedAs(p), reading.at = "section", Same(reading, stored[reading.file])
    PROVE  LET n == Len(reading.sections)
           IN  /\ n \in Nat /\ n + 1 <= Len(p)
               /\ reading.sections = SubSeq(p, 1, n)
               /\ CurrentRow = Row(Len(p[n + 1]), p[n + 1])
<1> DEFINE n == Len(reading.sections)
<1>1. /\ reading.count = Len(p)
      /\ \A i \in 1..Len(reading.rows) :
            i \in 1..Len(p) => reading.rows[i] = Row(Len(p[i]), p[i])
  BY SavedRows
<1>2. /\ Len(reading.rows) = reading.count /\ n < reading.count
      /\ \A i \in 1..n : reading.rows[i] = Row(Len(reading.sections[i]), reading.sections[i])
  BY DEF CInv, ReadInv, Progress
<1>3. reading.sections \in Seq(Section) /\ n \in Nat /\ p \in Seq(Section) /\ Len(p) \in Nat
  BY DEF CInv, ContainerTypes, ReadType, SavedAs
<1>4. ASSUME NEW i \in 1..n PROVE reading.sections[i] = p[i]
  <2>1. i \in 1..Len(p)
    BY <1>1, <1>2, <1>3
  <2>2. Row(Len(reading.sections[i]), reading.sections[i]) = Row(Len(p[i]), p[i])
    BY <1>1, <1>2, <2>1
  <2>3. Row(Len(reading.sections[i]), reading.sections[i]).digest = Row(Len(p[i]), p[i]).digest
    BY <2>2
  <2> QED BY <2>3, RowParts
<1> DEFINE first == SubSeq(p, 1, n)
<1>5. first \in Seq(Section) /\ Len(first) = n /\ \A i \in 1..n : first[i] = p[i]
  BY <1>1, <1>2, <1>3
<1>6. n + 1 \in 1..Len(p)
  BY <1>1, <1>2, <1>3
<1>7. CurrentRow = Row(Len(p[n + 1]), p[n + 1])
  BY <1>1, <1>2, <1>6 DEF CurrentRow
<1>8. reading.sections = first
  <2> HIDE DEF first
  <2> QED BY <1>3, <1>4, <1>5, SameElements
<1> QED BY <1>3, <1>6, <1>7, <1>8

\* The first rows of a saved table reserve no more than the file has.
LEMMA FirstRowsFit ==
    ASSUME NEW p \in Seq(Section), NEW n \in 1..Len(p), NEW rows \in Seq(Cell), Len(rows) = n,
           \A i \in 1..n : rows[i].number = Len(p[i])
    PROVE  /\ Reserved(rows) \in Nat /\ Len(Chunks(p)) \in Nat
           /\ Reserved(rows) <= Len(Chunks(p))
           /\ n = Len(p) => Reserved(rows) = Len(Chunks(p))
<1> DEFINE first == SubSeq(p, 1, n)
<1>1. first \in Seq(Section) /\ Len(first) = n /\ \A i \in 1..n : first[i] = p[i]
  OBVIOUS
<1>2. Reserved(rows) = Len(Chunks(first))
  <2> HIDE DEF first
  <2> QED BY <1>1, ReservedIsChunks
<1>3. Chunks(p) \in Seq(Cell) /\ Len(Chunks(p)) \in Nat /\ Reserved(rows) \in Nat
  <2>1. Chunks(p) \in Seq(Cell)
    BY ChunksType
  <2> QED BY <2>1, ReservedType
<1>4. CASE n = Len(p)
  <2>1. Len(first) = Len(p) /\ \A i \in 1..Len(p) : first[i] = p[i]
    BY <1>1, <1>4
  <2>2. first = p
    <3> HIDE DEF first
    <3> QED BY <1>1, <2>1, SameElements
  <2> HIDE DEF first
  <2> QED BY <1>2, <1>3, <2>2
<1>5. CASE n # Len(p)
  <2>1. n \in Nat /\ n + 1 <= Len(p) /\ n + 1 \in 1..Len(p)
    BY <1>5
  <2>2. Len(Chunks(first)) + Len(p[n + 1]) <= Len(Chunks(p))
    BY <2>1, ChunksAt
  <2>3. p[n + 1] \in Section /\ Len(p[n + 1]) \in Nat
    BY <2>1 DEF Section
  <2> HIDE DEF first
  <2> QED BY <1>2, <1>3, <1>5, <2>2, <2>3
<1> QED BY <1>4, <1>5

\* Its header is not refused.
LEMMA SavedHeader ==
    ASSUME CInv, NEW p, SavedAs(p), ReadHeader, Same(reading, stored[reading.file])
    PROVE  reading'.at = "row"
<1>1. reading.at = "header" /\ reading.offset = 0
  BY DEF ReadHeader, CInv, ReadInv, Progress
<1>2. /\ Container(p) \in Seq(Cell) /\ Len(Container(p)) = 1 + Len(p) + Len(Chunks(p))
      /\ Container(p)[1] = Header(Len(p)) /\ Chunks(p) \in Seq(Cell)
  BY ContainerAt, ChunksType DEF SavedAs
<1>3. Len(p) \in 1..MaxSections /\ Len(p) \in Nat /\ stored[reading.file].cells = Container(p)
  BY DEF SavedAs
<1>4. ~AtEnd /\ NextCell = Header(Len(p))
  <2>1. Len(Chunks(p)) \in Nat
    BY <1>2
  <2>2. ~(0 >= 1 + Len(p) + Len(Chunks(p))) /\ 0 + 1 = 1
    BY <1>3, <2>1
  <2> QED BY <1>1, <1>2, <1>3, <2>2 DEF AtEnd, NextCell
<1>5. NextCell.kind = "header" /\ NextCell.number \in 1..MaxSections
  BY <1>3, <1>4, RowParts
<1>6. reading \in ReadType
  BY DEF CInv, ContainerTypes
<1> QED BY <1>4, <1>5, <1>6 DEF ReadHeader, ReadType

\* No row of its table is refused.
LEMMA SavedRow ==
    ASSUME CInv, NEW p, SavedAs(p), ReadRow, Same(reading, stored[reading.file])
    PROVE  reading'.at # "malformed"
<1> DEFINE n == Len(reading.rows)
<1> DEFINE total == reading.total + NextCell.number
<1>1. /\ reading.at = "row" /\ n < reading.count /\ reading.offset = 1 + n
      /\ reading.total = 1 + reading.count + Reserved(reading.rows)
      /\ reading.size <= reading.budget
  BY DEF ReadRow, CInv, ReadInv, Progress, Opened
<1>2. /\ reading \in ReadType /\ reading.rows \in Seq(Cell) /\ n \in Nat
      /\ reading.budget \in 0..MaxWord /\ reading.size \in Nat
  BY DEF CInv, ContainerTypes, ReadType
<1>3. /\ reading.count = Len(p) /\ reading.size = 1 + Len(p) + Len(Chunks(p))
      /\ \A i \in 1..n : i \in 1..Len(p) => reading.rows[i] = Row(Len(p[i]), p[i])
  BY <1>1, SavedRows
<1>4. /\ p \in Seq(Section) /\ Len(p) \in Nat /\ Len(p[1]) <= MaxMetadata
      /\ stored[reading.file].cells = Container(p)
  BY DEF SavedAs
<1>5. n + 1 \in 1..Len(p) /\ \A i \in 1..n : i \in 1..Len(p)
  BY <1>1, <1>2, <1>3, <1>4
<1>6. /\ Len(Container(p)) = 1 + Len(p) + Len(Chunks(p))
      /\ \A i \in 1..Len(p) : Container(p)[1 + i] = Row(Len(p[i]), p[i])
      /\ Chunks(p) \in Seq(Cell)
  BY <1>4, ContainerAt, ChunksType
<1>7. ~AtEnd /\ NextCell = Row(Len(p[n + 1]), p[n + 1])
  <2>1. Len(Chunks(p)) \in Nat
    BY <1>6
  <2>2. ~(1 + n >= 1 + Len(p) + Len(Chunks(p))) /\ (1 + n) + 1 = 1 + (n + 1)
    BY <1>2, <1>4, <1>5, <2>1
  <2> QED BY <1>1, <1>4, <1>5, <1>6, <2>2 DEF AtEnd, NextCell
<1>8. NextCell.number = Len(p[n + 1]) /\ NextCell \in Cell
  <2>1. p[n + 1] \in Seq(Datum) /\ Len(p[n + 1]) \in Nat
    BY <1>4, <1>5 DEF Section
  <2> QED BY <1>7, <2>1, RowParts, CellMade
<1> DEFINE rows == Append(reading.rows, NextCell)
<1>9. /\ rows \in Seq(Cell) /\ Len(rows) = n + 1 /\ rows[n + 1] = NextCell
      /\ \A i \in 1..n : rows[i] = reading.rows[i]
  BY <1>2, <1>8
<1>10. Reserved(rows) = Reserved(reading.rows) + NextCell.number
  BY <1>2, <1>8, ReservedStep
<1> HIDE DEF rows
<1>11. \A i \in 1..(n + 1) : rows[i].number = Len(p[i])
  <2>1. TAKE i \in 1..(n + 1)
  <2>2. CASE i = n + 1
    BY <1>8, <1>9, <2>2
  <2>3. CASE i # n + 1
    <3>1. i \in 1..n
      BY <1>2, <2>3
    <3> QED BY <1>3, <1>5, <1>9, <3>1, RowParts
  <2> QED BY <2>2, <2>3
<1>12. /\ Reserved(rows) \in Nat /\ Len(Chunks(p)) \in Nat /\ Reserved(rows) <= Len(Chunks(p))
       /\ n + 1 = Len(p) => Reserved(rows) = Len(Chunks(p))
  BY <1>4, <1>5, <1>9, <1>11, FirstRowsFit
<1>13. total = 1 + Len(p) + Reserved(rows)
  <2> DEFINE a == Reserved(reading.rows)
  <2> DEFINE b == NextCell.number
  <2>1. a \in Nat /\ b \in Nat
    BY <1>2, <1>8, ReservedType, CellRead
  <2>2. reading.total = 1 + Len(p) + a /\ Reserved(rows) = a + b
    BY <1>1, <1>3, <1>10
  <2> HIDE DEF a, b
  <2>3. 1 + Len(p) + a + b = 1 + Len(p) + (a + b)
    BY <1>4, <2>1
  <2> QED BY <2>2, <2>3 DEF b
<1>14. /\ total <= reading.size /\ (n + 1 = reading.count => total = reading.size)
       /\ total <= reading.budget /\ total <= MaxWord /\ total \in Nat
  <2> DEFINE a == Reserved(rows)
  <2> DEFINE c == Len(Chunks(p))
  <2>1. /\ a \in Nat /\ c \in Nat /\ a <= c /\ (n + 1 = Len(p) => a = c)
        /\ total = 1 + Len(p) + a /\ reading.size = 1 + Len(p) + c
    BY <1>3, <1>12, <1>13
  <2>2. reading.budget \in Nat /\ reading.budget <= MaxWord /\ MaxWord \in Nat
    BY <1>2, Given
  <2> DEFINE q == Len(p)
  <2>3. q \in Nat /\ reading.count = q /\ reading.size <= reading.budget /\ reading.size \in Nat
    BY <1>1, <1>2, <1>3, <1>4
  <2>4. /\ a \in Nat /\ c \in Nat /\ a <= c /\ (n + 1 = q => a = c)
        /\ total = 1 + q + a /\ reading.size = 1 + q + c
    BY <2>1
  <2> HIDE DEF a, c, q, total, n
  <2>5. total \in Nat /\ total <= reading.size /\ (n + 1 = reading.count => total = reading.size)
    BY <2>3, <2>4
  <2> QED BY <2>2, <2>3, <2>5
<1>15. reading.rows = <<>> => NextCell.number <= MaxMetadata
  BY <1>4, <1>8
<1>16. /\ ~(reading.rows = <<>> /\ NextCell.number > MaxMetadata)
       /\ ~(total > MaxWord) /\ ~(total > reading.budget) /\ ~(total > reading.size)
       /\ ~(n + 1 = reading.count /\ total # reading.size)
  <2>1. NextCell.number \in Nat /\ MaxMetadata \in Nat
    BY <1>8, CellRead, ContainerAssumption
  <2> QED BY <1>2, <1>14, <1>15, <2>1, Given
<1>17. reading'.at = IF n + 1 = reading.count THEN "section" ELSE "row"
  BY <1>2, <1>7, <1>16 DEF ReadRow, ReadType
<1> QED BY <1>17

\* Its chunks are all there.
LEMMA SavedChunk ==
    ASSUME CInv, NEW p, SavedAs(p), ReadChunk, Same(reading, stored[reading.file])
    PROVE  reading'.at = "section"
<1> DEFINE n == Len(reading.sections)
<1> DEFINE before == Len(Chunks(reading.sections))
<1> DEFINE m == Len(reading.part)
<1>1. reading.at = "section" /\ m < CurrentRow.number
  BY DEF ReadChunk
<1>2. reading.offset = 1 + reading.count + before + m
  BY <1>1 DEF CInv, ReadInv, Progress
<1>3. reading.count = Len(p)
  BY <1>1, SavedRows
<1>4. /\ n \in Nat /\ n + 1 <= Len(p) /\ reading.sections = SubSeq(p, 1, n)
      /\ CurrentRow = Row(Len(p[n + 1]), p[n + 1])
  BY <1>1, SavedSections
<1>5. p \in Seq(Section) /\ Len(p) \in Nat /\ stored[reading.file].cells = Container(p)
  BY DEF SavedAs
<1>6. before + Len(p[n + 1]) <= Len(Chunks(p))
  BY <1>4, <1>5, ChunksAt
<1>7. Len(Container(p)) = 1 + Len(p) + Len(Chunks(p)) /\ Chunks(p) \in Seq(Cell)
  BY <1>5, ContainerAt, ChunksType
<1>8. reading \in ReadType /\ reading.sections \in Seq(Section) /\ m \in Nat
  BY DEF CInv, ContainerTypes, ReadType
<1>9. before \in Nat /\ Len(Chunks(p)) \in Nat /\ Len(p[n + 1]) \in Nat
  <2>1. Chunks(reading.sections) \in Seq(Cell)
    BY <1>8, ChunksType
  <2>2. n + 1 \in 1..Len(p)
    BY <1>4, <1>5
  <2> QED BY <1>5, <1>7, <2>1, <2>2 DEF Section
<1>10. m < Len(p[n + 1])
  BY <1>1, <1>4, RowParts
<1> HIDE DEF n, before, m
<1>11. ~AtEnd
  <2>1. ~(1 + Len(p) + before + m >= 1 + Len(p) + Len(Chunks(p)))
    BY <1>5, <1>6, <1>8, <1>9, <1>10
  <2> QED BY <1>2, <1>3, <1>5, <1>7, <2>1 DEF AtEnd
<1> QED BY <1>1, <1>8, <1>11 DEF ReadChunk, ReadType

\* Its sections have the checksums of their rows.
LEMMA SavedSection ==
    ASSUME CInv, NEW p, SavedAs(p), CheckSection, Same(reading, stored[reading.file])
    PROVE  reading'.at # "malformed"
<1> DEFINE n == Len(reading.sections)
<1> DEFINE before == Len(Chunks(reading.sections))
<1> DEFINE s == p[n + 1]
<1>1. reading.at = "section" /\ Len(reading.part) = CurrentRow.number
  BY DEF CheckSection
<1>2. reading.count = Len(p)
  BY <1>1, SavedRows
<1>3. /\ n \in Nat /\ n + 1 <= Len(p) /\ reading.sections = SubSeq(p, 1, n)
      /\ CurrentRow = Row(Len(s), s)
  BY <1>1, SavedSections
<1>4. /\ p \in Seq(Section) /\ Len(p) \in Nat /\ s \in Section
      /\ stored[reading.file].cells = Container(p)
  <2>1. n + 1 \in 1..Len(p)
    BY <1>3 DEF SavedAs
  <2> QED BY <2>1 DEF SavedAs
<1>5. /\ before + Len(s) <= Len(Chunks(p))
      /\ \A k \in 1..Len(s) : Chunks(p)[before + k] = Chunk(s[k])
  BY <1>3, <1>4, ChunksAt
<1>6. \A k \in 1..Len(Chunks(p)) : Container(p)[1 + Len(p) + k] = Chunks(p)[k]
  BY <1>4, ContainerAt
<1>7. /\ reading \in ReadType /\ reading.sections \in Seq(Section) /\ reading.part \in Seq(Cell)
  BY DEF CInv, ContainerTypes, ReadType
<1>8. before \in Nat /\ Len(Chunks(p)) \in Nat /\ Len(s) \in Nat
  <2>1. Chunks(reading.sections) \in Seq(Cell) /\ Chunks(p) \in Seq(Cell)
    BY <1>4, <1>7, ChunksType
  <2> QED BY <1>4, <2>1 DEF Section
<1>9. /\ Len(reading.part) = Len(s)
      /\ \A k \in 1..Len(reading.part) : Container(p)[1 + Len(p) + before + k] = reading.part[k]
  BY <1>1, <1>2, <1>3, <1>4, RowParts DEF Same, Taken
<1>10. Body(s) \in Seq(Cell) /\ Len(Body(s)) = Len(s) /\ \A k \in 1..Len(s) : Body(s)[k] = Chunk(s[k])
  BY <1>4, BodyType
<1> HIDE DEF n, before, s
<1>11. ASSUME NEW k \in 1..Len(s) PROVE reading.part[k] = Body(s)[k]
  <2>1. /\ before + k \in 1..Len(Chunks(p))
        /\ 1 + Len(p) + (before + k) = 1 + Len(p) + before + k
    BY <1>4, <1>5, <1>8
  <2> QED BY <1>5, <1>6, <1>9, <1>10, <2>1
<1>12. reading.part = Body(s)
  BY <1>7, <1>9, <1>10, <1>11, SameElements
<1>13. CurrentRow.kind = "row" /\ CurrentRow.digest = s
  BY <1>3, RowParts
<1> QED BY <1>7, <1>12, <1>13 DEF CheckSection, ReadType

\* A cache the library has saved, and nobody else has touched, is not refused by a
\* loader with at least the max_bytes it was saved under.
THEOREM AcceptsWhatWasSaved == ContainerSpec => PublishedIsAccepted
<1>1. ASSUME CInv, [ContainerNext]_containerVars, reading.file # NoFile,
             reading'.at = "malformed", stored[reading.file].saved \in 1..reading.budget
      PROVE  FALSE
  <2>1. /\ reading.at \in Opened \cup {"measure"}
        /\ reading.at \in Opened => Same(reading, stored[reading.file])
        /\ \E p \in Payloads : SavedAs(p)
    BY <1>1, SavedFile
  <2>2. PICK p \in Payloads : SavedAs(p)
    BY <2>1
  <2>3. reading \in ReadType /\ reading.at # "malformed" /\ ~Idle
    BY <1>1, <2>1 DEF CInv, ContainerTypes, Opened, Idle
  <2>4. CASE UNCHANGED containerVars
    BY <1>1, <2>3, <2>4 DEF containerVars
  <2>5. CASE Saver
    BY <1>1, <2>3, <2>5 DEF Saver, WriteCell, PublishSave, AbandonSave, BeginSave, SaverOnly
  <2>6. CASE OtherPrograms
    <3>1. \A t \in 0..tick, g \in CacheFile : RestoreTime(g, t) => reading'.at = reading.at
      BY <2>3 DEF RestoreTime, ReadType
    <3> QED BY <1>1, <2>3, <2>6, <3>1
      DEF OtherPrograms, Tick, MovePath, Lengthen, Damage, CutShort, CopyOver, PutCells
  <2>7. CASE Measure
    <3>1. reading.at = "measure" /\ stored[reading.file] \in FileType
      BY <1>1, <2>7, OpenFile DEF Measure
    <3>2. Len(stored[reading.file].cells) <= reading.budget
      BY <2>2 DEF SavedAs
    <3>3. reading.budget \in Nat /\ Len(stored[reading.file].cells) \in Nat
      BY <2>3, <3>1, Given DEF ReadType, FileType
    <3>4. ~(Len(stored[reading.file].cells) > reading.budget)
      BY <3>2, <3>3
    <3> QED BY <1>1, <2>3, <2>7, <3>4 DEF Measure, ReadType
  <2>8. CASE ReadHeader \/ ReadRow \/ ReadChunk \/ CheckSection
    <3>1. reading.at \in Opened
      BY <2>8 DEF ReadHeader, ReadRow, ReadChunk, CheckSection, Opened
    <3> QED BY <1>1, <2>1, <2>2, <2>8, <3>1, SavedHeader, SavedRow, SavedChunk, SavedSection
  <2>9. CASE FinalCheck
    <3>1. reading.at \in Opened
      BY <2>9 DEF FinalCheck, Opened
    <3>2. /\ stored[reading.file].cells = reading.opened /\ stored[reading.file].mtime = reading.mtime
          /\ reading.size = Len(reading.opened)
      BY <1>1, <2>1, <3>1 DEF Same, CInv, ReadInv, Progress
    <3>3. Accepted.at = "accepted"
      BY AtRest DEF Accepted, Finished, NoRead, Resting
    <3> QED BY <1>1, <2>9, <3>2, <3>3 DEF FinalCheck
  <2>10. CASE ReadFails
    <3>1. Finished("failed").at = "failed"
      BY AtRest DEF Resting
    <3> QED BY <1>1, <2>10, <3>1 DEF ReadFails
  <2>11. CASE Examine \/ OpenCache \/ \E b \in Budgets : Ask(b)
    BY <2>1, <2>3, <2>11 DEF Examine, OpenCache, Ask, Opened
  <2> QED BY <1>1, <2>4, <2>5, <2>6, <2>7, <2>8, <2>9, <2>10, <2>11 DEF ContainerNext, Loader
<1>2. CInv /\ [ContainerNext]_containerVars =>
        [reading.file # NoFile /\ reading'.at = "malformed" =>
            stored[reading.file].saved \notin 1..reading.budget]_containerVars
  BY <1>1
<1> QED BY <1>2, ContainerInvariant, PTL DEF ContainerSpec, PublishedIsAccepted
=============================================================================
