---------------------------- MODULE CacheContainer ----------------------------
(***************************************************************************)
(* read_cache_sections and write_cache_sections of cache.rs: the file that *)
(* holds a cache is written piece by piece under a temporary name, moved   *)
(* over the cache path, and read piece by piece by a loader, while other   *)
(* programs overwrite, cut, extend, rename or remove it.                   *)
(*                                                                         *)
(* A file is a sequence of cells: a header with the number of sections, a  *)
(* row of the table for each section, and the chunks of the sections.      *)
(* Every cell counts as one unit of size.  A checksum is represented by    *)
(* the section it was computed from; lengths are machine words, so a       *)
(* damaged row can hold any of them.  A length beyond isize::MAX is never  *)
(* reached: no file is as long.                                            *)
(***************************************************************************)
EXTENDS Integers, SequencesExt

\* A cell of a file: a header, a row of the table or a chunk of a section, with the
\* number, the checksummed section or the data in it.
Header(n) == [kind |-> "header", number |-> n, digest |-> <<>>]
Row(length, section) == [kind |-> "row", number |-> length, digest |-> section]
Chunk(d) == [kind |-> "chunk", number |-> 0, digest |-> <<d>>]

CONSTANTS
    CacheFile,      \* files that exist or can be created
    NoFile,         \* a path that names none, a reader that has none open
    Directory,      \* a path that names a directory
    Datum,          \* contents of one chunk (4 MiB)
    Payloads,       \* what callers save: lists of sections
    Budgets,        \* values of max_bytes
    MaxSections,    \* MAX_SECTIONS
    MaxMetadata,    \* MAX_METADATA, the limit of the first section
    MaxWord,        \* u64::MAX
    Found,          \* what the cache path can hold at first: lists of cells
    Junk,           \* cells other programs can put into a file
    MaxTicks,       \* bound: ticks of the clock
    MaxEdits,       \* bound: changes by other programs
    MaxTrouble      \* bound: system calls that fail, signals, saves that stop

IsCell(c) ==
    \/ c.number \in Nat /\ c = Header(c.number)
    \/ c.number \in Nat /\ c.digest \in Seq(Datum) /\ c = Row(c.number, c.digest)
    \/ Len(c.digest) = 1 /\ c.digest[1] \in Datum /\ c = Chunk(c.digest[1])

ASSUME ContainerAssumption ==
    /\ NoFile \notin CacheFile /\ Directory \notin CacheFile /\ NoFile # Directory
    /\ Payloads \subseteq Seq(Seq(Datum))
    /\ Budgets \subseteq 1..MaxWord
    /\ {MaxSections, MaxMetadata, MaxWord} \subseteq Nat \ {0}
    /\ \A cells \in Found : cells \in Seq(ToSet(cells)) /\ \A c \in ToSet(cells) : IsCell(c)
    /\ \A c \in Junk : IsCell(c)
    /\ MaxTicks \in Nat /\ MaxEdits \in Nat /\ MaxTrouble \in Nat

VARIABLES
    stored,     \* every file: its cells and modification time; history: the max_bytes
                \* it was saved under, while no other program has touched it, else 0
    visible,    \* what the cache path names
    tick,       \* the clock that stamps changes
    edits,      \* changes by other programs so far
    trouble,    \* failures so far
    saving,     \* the writer: its file, the cells it writes and its max_bytes
    reading     \* the reader: where it stands and what it has read; history: what the
                \* file held when it was opened, and whether times tell changes apart

containerVars == <<stored, visible, tick, edits, trouble, saving, reading>>
storage == <<stored, visible, tick>>

-----------------------------------------------------------------------------
Body(section) == [k \in DOMAIN section |-> Chunk(section[k])]

\* The file write_cache_sections makes of a list of sections.
Container(sections) ==
    <<Header(Len(sections))>>
        \o [i \in DOMAIN sections |-> Row(Len(sections[i]), sections[i])]
        \o FlattenSeq([i \in DOMAIN sections |-> Body(sections[i])])

NoSave == [file |-> NoFile, cells |-> <<>>, budget |-> 0]
NoRead ==
    [at |-> "idle", file |-> NoFile, budget |-> 0, size |-> 0, mtime |-> 0, offset |-> 0,
     count |-> 0, total |-> 0, rows |-> <<>>, part |-> <<>>, sections |-> <<>>,
     opened |-> <<>>, trusted |-> TRUE]

Empty == [cells |-> <<>>, mtime |-> 0, saved |-> 0]

Idle == reading.at \in {"idle", "accepted", "malformed", "failed"}

ContainerInit ==
    /\ \/ visible = NoFile /\ stored = [f \in CacheFile |-> Empty]
       \/ \E f \in CacheFile, cells \in Found :
             /\ visible = f
             /\ stored = [[g \in CacheFile |-> Empty] EXCEPT ![f] = [Empty EXCEPT !.cells = cells]]
    /\ tick = 0 /\ edits = 0 /\ trouble = 0
    /\ saving = NoSave /\ reading = NoRead

-----------------------------------------------------------------------------
(* The writer *)

SaverOnly == UNCHANGED <<tick, edits, trouble, reading>>

\* Mutant of BeginSave: the limit of the first section is left to the reader.
BeginUnlimited(f, payload, budget) ==
    /\ saving = NoSave /\ f # visible /\ f # reading.file
    /\ Len(payload) \in 1..MaxSections /\ Len(Container(payload)) <= budget
    /\ saving' = [file |-> f, cells |-> Container(payload), budget |-> budget]
    /\ stored' = [stored EXCEPT ![f] = [Empty EXCEPT !.mtime = tick]]
    /\ SaverOnly /\ UNCHANGED visible

\* The limits are compared before the file is created; a temporary name is a new one.
BeginSave(f, payload, budget) ==
    /\ saving = NoSave /\ f # visible /\ f # reading.file
    /\ Len(payload) \in 1..MaxSections /\ Len(payload[1]) <= MaxMetadata
    /\ Len(Container(payload)) <= budget
    /\ saving' = [file |-> f, cells |-> Container(payload), budget |-> budget]
    /\ stored' = [stored EXCEPT ![f] = [Empty EXCEPT !.mtime = tick]]
    /\ SaverOnly /\ UNCHANGED visible

\* The next write_all: the header, a row, or a chunk.
WriteCell ==
    /\ saving # NoSave
    /\ LET done == stored[saving.file].cells
       IN  /\ Len(done) < Len(saving.cells)
           /\ stored' = [stored EXCEPT ![saving.file].mtime = tick,
                                       ![saving.file].cells =
                                            Append(done, saving.cells[Len(done) + 1])]
    /\ SaverOnly /\ UNCHANGED <<visible, saving>>

\* sync_all, and the replace in _save_locked; a file that is replaced is gone with
\* its last reader.
PublishSave ==
    /\ saving # NoSave /\ stored[saving.file].cells = saving.cells
    /\ visible' = saving.file /\ saving' = NoSave
    /\ stored' = [f \in CacheFile |->
                    CASE f = saving.file -> [stored[f] EXCEPT !.saved = saving.budget]
                      [] f = visible /\ f # reading.file -> Empty
                      [] OTHER -> stored[f]]
    /\ SaverOnly

\* A write fails, a signal arrives or the process dies: what was written may stay
\* under its temporary name, and is never moved to the cache path.
AbandonSave ==
    /\ saving # NoSave /\ trouble < MaxTrouble
    /\ trouble' = trouble + 1 /\ saving' = NoSave
    /\ UNCHANGED <<storage, edits, reading>>

-----------------------------------------------------------------------------
(* The reader *)

ReaderOnly == UNCHANGED <<storage, edits, trouble, saving>>

\* The file is closed with the call, and what was read is handed over or dropped.
Finished(outcome) == [NoRead EXCEPT !.at = outcome]
Accepted == [Finished("accepted") EXCEPT !.sections = reading.sections]

Ask(budget) ==
    /\ Idle
    /\ reading' = [NoRead EXCEPT !.at = "examine", !.budget = budget]
    /\ ReaderOnly

\* fs::metadata of the path.
Examine ==
    /\ reading.at = "examine"
    /\ reading' = CASE visible = NoFile -> Finished("failed")
                    [] visible = Directory -> Finished("malformed")
                    [] OTHER -> [reading EXCEPT !.at = "open"]
    /\ ReaderOnly

\* File::open, and the type of what was opened.
OpenCache ==
    /\ reading.at = "open"
    /\ reading' = CASE visible = NoFile -> Finished("failed")
                    [] visible = Directory -> Finished("malformed")
                    [] OTHER -> [reading EXCEPT !.at = "measure", !.file = visible]
    /\ ReaderOnly

\* The size and the time of the open file.
Measure ==
    /\ reading.at = "measure"
    /\ LET file == stored[reading.file]
       IN  reading' = IF Len(file.cells) > reading.budget THEN Finished("malformed")
                      ELSE [reading EXCEPT !.at = "header", !.size = Len(file.cells),
                                           !.mtime = file.mtime, !.opened = file.cells,
                                           !.trusted = file.mtime < tick]
    /\ ReaderOnly

AtEnd == reading.offset >= Len(stored[reading.file].cells)
NextCell == stored[reading.file].cells[reading.offset + 1]

\* Magic, version and the number of sections.
ReadHeader ==
    /\ reading.at = "header"
    /\ reading' =
         IF AtEnd THEN Finished("malformed")
         ELSE IF NextCell.kind = "header" /\ NextCell.number \in 1..MaxSections
              THEN [reading EXCEPT !.at = "row", !.offset = 1, !.count = NextCell.number,
                                   !.total = 1 + NextCell.number]
              ELSE Finished("malformed")
    /\ ReaderOnly

\* Mutant of ReadRow: the sum of the lengths wraps around.
RowWraps ==
    /\ reading.at = "row"
    /\ \/ AtEnd /\ reading' = Finished("malformed")
       \/ /\ ~AtEnd
          /\ LET total == (reading.total + NextCell.number) % (MaxWord + 1)
                 last == Len(reading.rows) + 1 = reading.count
                 refused == \/ reading.rows = <<>> /\ NextCell.number > MaxMetadata
                            \/ total > reading.budget
                            \/ total > reading.size
                            \/ last /\ total # reading.size
             IN  reading' =
                   IF refused THEN Finished("malformed")
                   ELSE [reading EXCEPT !.at = IF last THEN "section" ELSE "row",
                                        !.offset = @ + 1, !.total = total,
                                        !.rows = Append(@, NextCell)]
    /\ ReaderOnly

\* A row of the table: its length is bounded before the next row is read, and the
\* last row must end where the file did when it was opened.
ReadRow ==
    /\ reading.at = "row"
    /\ \/ AtEnd /\ reading' = Finished("malformed")
       \/ /\ ~AtEnd
          /\ LET total == reading.total + NextCell.number
                 last == Len(reading.rows) + 1 = reading.count
                 refused == \/ reading.rows = <<>> /\ NextCell.number > MaxMetadata
                            \/ total > MaxWord
                            \/ total > reading.budget
                            \/ total > reading.size
                            \/ last /\ total # reading.size
             IN  reading' =
                   IF refused THEN Finished("malformed")
                   ELSE [reading EXCEPT !.at = IF last THEN "section" ELSE "row",
                                        !.offset = @ + 1, !.total = total,
                                        !.rows = Append(@, NextCell)]
    /\ ReaderOnly

CurrentRow == reading.rows[Len(reading.sections) + 1]

\* A chunk of the section.
ReadChunk ==
    /\ reading.at = "section" /\ Len(reading.part) < CurrentRow.number
    /\ reading' = IF AtEnd THEN Finished("malformed")
                  ELSE [reading EXCEPT !.part = Append(@, NextCell), !.offset = @ + 1]
    /\ ReaderOnly

\* The section is complete: its checksum must be the one of its row.  What was read
\* as a row and is none has no section's checksum.
CheckSection ==
    /\ reading.at = "section" /\ Len(reading.part) = CurrentRow.number
    /\ reading' =
         IF CurrentRow.kind = "row" /\ reading.part = Body(CurrentRow.digest)
         THEN [reading EXCEPT !.sections = Append(@, CurrentRow.digest), !.part = <<>>,
                              !.at = IF Len(reading.sections) + 1 = reading.count
                                     THEN "final" ELSE "section"]
         ELSE Finished("malformed")
    /\ ReaderOnly

\* Mutant of FinalCheck: the checksums are thought to be enough.
FinalUnchecked ==
    /\ reading.at = "final"
    /\ reading' = Accepted
    /\ ReaderOnly

\* The open file must be as long and as old as it was.
FinalCheck ==
    /\ reading.at = "final"
    /\ LET file == stored[reading.file]
       IN  reading' = IF Len(file.cells) = reading.size /\ file.mtime = reading.mtime
                      THEN Accepted ELSE Finished("malformed")
    /\ ReaderOnly

\* A system call fails, or a signal is delivered between two chunks.
ReadFails ==
    /\ ~Idle /\ trouble < MaxTrouble
    /\ trouble' = trouble + 1 /\ reading' = Finished("failed")
    /\ UNCHANGED <<storage, edits, saving>>

-----------------------------------------------------------------------------
(* Other programs, and the clock *)

Tick ==
    /\ tick < MaxTicks /\ tick' = tick + 1
    /\ UNCHANGED <<stored, visible, edits, trouble, saving, reading>>

Edited ==
    /\ edits < MaxEdits /\ edits' = edits + 1
    /\ UNCHANGED <<tick, trouble, saving>>

\* New cells in place, under a new modification time.
PutCells(f, cells) ==
    /\ cells # stored[f].cells
    /\ stored' = [stored EXCEPT ![f] = [cells |-> cells, mtime |-> tick, saved |-> 0]]
    /\ Edited /\ UNCHANGED <<visible, reading>>

Damage(f, k, cell) == PutCells(f, [stored[f].cells EXCEPT ![k] = cell])
Lengthen(f, cell) == PutCells(f, Append(stored[f].cells, cell))
CutShort(f, k) == PutCells(f, SubSeq(stored[f].cells, 1, k))
CopyOver(f, payload) == PutCells(f, Container(payload))

\* utimensat: any modification time can be given back.
RestoreTime(f, t) ==
    /\ t # stored[f].mtime
    /\ stored' = [stored EXCEPT ![f] = [@ EXCEPT !.mtime = t, !.saved = 0]]
    /\ reading' = [reading EXCEPT !.trusted = @ /\ f # reading.file]
    /\ Edited /\ UNCHANGED visible

\* Another file, the rest of an abandoned save included, a directory or nothing at
\* the cache path.
MovePath(target) ==
    /\ target # visible /\ visible' = target
    /\ saving # NoSave => target # saving.file
    /\ Edited /\ UNCHANGED <<stored, reading>>

-----------------------------------------------------------------------------
Saver ==
    \/ WriteCell \/ PublishSave \/ AbandonSave
    \/ \E f \in CacheFile, p \in Payloads, b \in Budgets : BeginSave(f, p, b)

Loader ==
    \/ Examine \/ OpenCache \/ Measure \/ ReadHeader \/ ReadRow \/ ReadChunk \/ CheckSection
    \/ FinalCheck \/ ReadFails
    \/ \E b \in Budgets : Ask(b)

\* They change the file at the cache path, or the one that is being read.
OtherPrograms ==
    \/ Tick
    \/ \E target \in CacheFile \cup {NoFile, Directory} : MovePath(target)
    \/ \E f \in (CacheFile \cap {visible, reading.file}) \ {saving.file} :
          \/ \E cell \in Junk :
                Lengthen(f, cell) \/ \E k \in DOMAIN stored[f].cells : Damage(f, k, cell)
          \/ \E k \in 0..(Len(stored[f].cells) - 1) : CutShort(f, k)
          \/ \E p \in Payloads : CopyOver(f, p)
          \/ \E t \in 0..tick : RestoreTime(f, t)

ContainerNext == Saver \/ Loader \/ OtherPrograms

ContainerSpec == ContainerInit /\ [][ContainerNext]_containerVars

-----------------------------------------------------------------------------
(* Properties *)

\* What a loader accepts is what the file held when it was opened, all sections of
\* one save: not a cut file, not one with more at its end, not the table of one
\* cache with the sections of another that was copied over it meanwhile.  Without
\* a restored time, and with a clock that has moved on since the file's last change,
\* that is (the last comparison of read_cache_sections).
AcceptedWasThere ==
    [][reading.at = "final" /\ reading'.at = "accepted" /\ reading.trusted =>
          reading.opened = Container(reading'.sections)]_containerVars

\* A cache the library has saved, and no other program has touched, is not refused
\* as malformed by a loader with at least the max_bytes it was saved under: the
\* limits of the writer are those of the reader, so that no save leads to a scan
\* and a save at every start.
PublishedIsAccepted ==
    [][reading.file # NoFile /\ reading'.at = "malformed" =>
          stored[reading.file].saved \notin 1..reading.budget]_containerVars

WithRow(sum, row) == sum + row.number
Reserved(rows) == FoldLeft(WithRow, 0, rows)

\* The buffers a loader allocates for the sections fit into max_bytes together,
\* whatever lengths a damaged table names: their sum does not wrap around.
ReservedWithinBudget == reading.at = "section" => Reserved(reading.rows) <= reading.budget
=============================================================================
