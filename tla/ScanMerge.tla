------------------------------ MODULE ScanMerge ------------------------------
(***************************************************************************)
(* scan of _scan.py with its chunks: images are verified in a thread pool, *)
(* the labels of the valid ones are read and parsed by the native engine,  *)
(* the labels of the others are fingerprinted, and the packed arrays are   *)
(* merged source by source, with the Ultralytics verifier for labels the   *)
(* native engine leaves to it; then ScanResult packs everything again and  *)
(* to_ultralytics_labels unpacks it.  Dataset files change meanwhile.      *)
(*                                                                         *)
(* One read of a file is one step (SnapshotRead); a fingerprint is the     *)
(* contents it was computed from.  Abstracted: repair_jpeg = "reference",  *)
(* prefixes and messages, the working directory, duplicate paths.          *)
(***************************************************************************)
EXTENDS Labels

CONSTANTS
    Scans,          \* the scans to consider: records of
                    \*   dataset       which dataset is scanned
                    \*   sources       length of the path lists
                    \*   inFlight      max_in_flight
                    \*   single        single_cls
                    \*   snapshot      is a fingerprint asked for?
                    \*   maxFile       max_file_bytes, in tokens
                    \*   maxFallback   max_fallback_bytes, in tokens
                    \*   maxWrites     bound: changes of the dataset
                    \*   maxFaults     bound: failing system calls
    ImagesOf,       \* for every dataset: the contents an image can have
    TextsOf,        \* for every dataset: the texts a label file can have
    ShapeOf         \* the shape of every image that passes its check

ASSUME ScanAssumption ==
    /\ Scans \subseteq [dataset : DOMAIN ImagesOf \cap DOMAIN TextsOf, sources : Nat,
                        inFlight : Nat \ {0}, single : BOOLEAN, snapshot : BOOLEAN,
                        maxFile : Nat \ {0}, maxFallback : Nat \ {0},
                        maxWrites : Nat, maxFaults : Nat]
    /\ \A d \in DOMAIN TextsOf : TextsOf[d] \subseteq Seq(Seq(Token))
    /\ \A c \in DOMAIN ShapeOf : ShapeOf[c] # "none"

VARIABLES
    image, label,   \* the dataset: the contents of every image and label file
    writes, faults, \* changes of the dataset and failing system calls so far
    config,         \* the scan that is running, one of Scans
    pc,             \* where scan stands
    start,          \* first source of the current chunk
    todo,           \* sources still to be read in this phase
    shape,          \* what verifying an image gave: its shape, or none
    captured,       \* the labels of the chunk read so far
    retained,       \* bytes retained for the reference by this chunk's labels
    imageProof, labelProof, \* fingerprints; Nothing where there is none
    unavailable,    \* has some input not been captured?
    packed,         \* the chunk's labels, packed
    source, position, segmentIndex, \* the merge loop
    merged          \* the lists and counters the result is made of

dataset == <<image, label, writes>>
proofs == <<imageProof, labelProof, unavailable>>
loop == <<source, position, segmentIndex>>
vars == <<dataset, faults, config, pc, start, todo, shape, captured, retained, proofs, packed,
          loop, merged>>

-----------------------------------------------------------------------------
Source == 1..config.sources
Stop == IF start + config.inFlight > config.sources THEN config.sources
        ELSE start + config.inFlight - 1
Chunk == start..Stop

Nothing == [kind |-> "nothing"]
Seen(x) == [kind |-> "seen", of |-> x]
NoShape == "none"
ShapeFor(i) == IF image[i] \in DOMAIN ShapeOf THEN ShapeOf[image[i]] ELSE NoShape
ValidIn(chunk) == {i \in chunk : shape[i] # NoShape}

\* What a label file of the dataset can be.
Files == {TextFile(t) : t \in TextsOf[config.dataset]} \cup {Missing}

Plus(m, n) == m + n
Total(numbers) == FoldLeft(Plus, 0, numbers)

Size(text) == Total([l \in DOMAIN text |-> Len(text[l])])

Fault == faults < config.maxFaults /\ faults' = faults + 1
NoFault == UNCHANGED faults

\* A snapshot fails with any of its errors when the file changes under it or a
\* system call fails.
ReadTrouble == (writes > 0 /\ NoFault) \/ Fault

EmptyPack ==
    [offsets |-> <<0>>, labels |-> <<>>, points |-> <<>>, segmentOffsets |-> <<0>>,
     segmentObjects |-> <<>>, statuses |-> <<>>, duplicates |-> <<>>]

\* PackedLabels::extend for one record; indices count from 0, as in the arrays.
Extend(p, record) ==
    LET first == Len(p.labels)
        points == FlattenSeq(record.segments)
        ends == [k \in DOMAIN record.segments |->
                    Len(p.points) + Len(FlattenSeq(SubSeq(record.segments, 1, k)))]
    IN  [offsets |-> Append(p.offsets, first + Len(record.rows)),
         labels |-> p.labels \o record.rows,
         points |-> p.points \o points,
         segmentOffsets |-> p.segmentOffsets \o ends,
         segmentObjects |-> p.segmentObjects \o [k \in DOMAIN record.segments |-> first + k - 1],
         statuses |-> Append(p.statuses, record.status),
         duplicates |-> Append(p.duplicates, record.duplicates)]

\* values[a:b] of a Python sequence.
Slice(s, a, b) == SubSeq(s, a + 1, b)

Start == [sources |-> <<>>, shapes |-> <<>>, rows |-> <<>>, segments |-> <<>>,
          diagnostics |-> <<>>, fallbacks |-> 0,
          found |-> 0, missing |-> 0, empty |-> 0, corrupt |-> 0]

Unread == [record |-> Record(NoFile), file |-> Nothing, data |-> Nothing]
NoneRead == [i \in Source |-> Unread]

-----------------------------------------------------------------------------
Init ==
    /\ config \in Scans
    /\ image \in [Source -> ImagesOf[config.dataset]]
    /\ label \in [Source -> Files]
    /\ writes = 0 /\ faults = 0
    /\ pc = "images" /\ start = 1 /\ todo = Chunk
    /\ shape = [i \in Source |-> NoShape] /\ captured = NoneRead /\ retained = 0
    /\ imageProof = [i \in Source |-> Nothing] /\ labelProof = [i \in Source |-> Nothing]
    /\ unavailable = FALSE
    /\ packed = EmptyPack /\ source = 1 /\ position = 0 /\ segmentIndex = 0
    /\ merged = Start

\* scan raises: the chunk's work is lost.
Fail ==
    /\ pc' = "failed"
    /\ UNCHANGED <<start, todo, shape, captured, retained, proofs, packed, loop, merged>>

\* _verify_image, or _snapshots.verify_image: the bytes that are hashed are the
\* bytes that are verified.  An image that cannot be captured is verified anyway.
VerifyImage(i) ==
    /\ pc = "images" /\ i \in todo
    /\ \/ /\ \/ ~config.snapshot /\ NoFault /\ UNCHANGED <<imageProof, unavailable>>
             \/ /\ config.snapshot /\ NoFault
                /\ imageProof' = [imageProof EXCEPT ![i] = Seen(image[i])]
                /\ UNCHANGED unavailable
             \/ /\ config.snapshot /\ ReadTrouble
                /\ unavailable' = TRUE /\ UNCHANGED imageProof
          /\ shape' = [shape EXCEPT ![i] = ShapeFor(i)]
          /\ todo' = todo \ {i}
          /\ UNCHANGED <<pc, start, captured, retained, labelProof, packed, loop, merged>>
       \/ config.snapshot /\ ReadTrouble /\ Fail                    \* InputChangedError
    /\ UNCHANGED <<dataset, config>>

\* Only the labels of valid images are parsed.
BeginLabels ==
    /\ pc = "images" /\ todo = {}
    /\ pc' = IF config.snapshot THEN "capture" ELSE "parse"
    /\ todo' = ValidIn(Chunk) /\ captured' = NoneRead /\ retained' = 0
    /\ UNCHANGED <<dataset, faults, config, start, shape, proofs, packed, loop, merged>>

\* The chunk's labels cannot be captured: they are read and parsed without proofs.
ParseInstead ==
    /\ pc' = "parse" /\ unavailable' = TRUE
    /\ todo' = ValidIn(Chunk) /\ captured' = NoneRead /\ retained' = 0
    /\ UNCHANGED <<start, shape, imageProof, labelProof, packed, loop, merged>>

ParseOf(file) ==
    IF file.kind = "missing" THEN Record(NoFile) ELSE Parse(file.text, config.single)

\* The bytes a label makes snapshot_labels keep for the reference.
BytesKept(file) == IF ParseOf(file).status = Reference THEN Size(file.text) ELSE 0

\* Mutant of FitsBudget: every label is compared with the limit by itself.
FitsAlone(file) == Size(file.text) <= config.maxFile /\ BytesKept(file) <= config.maxFallback

FitsBudget(file) ==
    Size(file.text) <= config.maxFile /\ retained + BytesKept(file) <= config.maxFallback

\* snapshot_labels: one label is read, hashed and parsed; its bytes are kept only
\* for the reference, within the budget the chunk's labels share.
CaptureLabel(i) ==
    /\ pc = "capture" /\ i \in todo
    /\ \/ /\ FitsBudget(label[i])
          /\ captured' = [captured EXCEPT ![i] =
                 [record |-> ParseOf(label[i]), file |-> Seen(label[i]),
                  data |-> IF ParseOf(label[i]).status = Reference THEN Seen(label[i])
                           ELSE Nothing]]
          /\ retained' = retained + BytesKept(label[i])
          /\ todo' = todo \ {i} /\ NoFault
          /\ UNCHANGED <<pc, start, shape, proofs, packed, loop, merged>>
       \/ ~FitsBudget(label[i]) /\ ParseInstead /\ NoFault          \* SnapshotLimitError
       \/ ParseInstead /\ ReadTrouble                               \* OSError, the limit
       \/ Fail /\ ReadTrouble                                       \* InputChangedError
    /\ UNCHANGED <<dataset, config>>

CapturedAll ==
    /\ pc = "capture" /\ todo = {}
    /\ pc' = "invalid" /\ todo' = Chunk \ ValidIn(Chunk)
    /\ UNCHANGED <<dataset, faults, config, start, shape, captured, retained, proofs, packed,
                   loop, merged>>

\* The labels of invalid images are fingerprinted; one that cannot be leaves all
\* of them without a fingerprint.
FingerprintInvalid(i) ==
    /\ pc = "invalid" /\ i \in todo
    /\ LET small == Size(label[i].text) <= config.maxFile
           dropped == /\ captured' = [j \in Source |-> IF j \in ValidIn(Chunk) THEN captured[j]
                                                       ELSE Unread]
                      /\ unavailable' = TRUE /\ todo' = {}
       IN  \/ /\ small /\ NoFault
              /\ captured' = [captured EXCEPT ![i].file = Seen(label[i])]
              /\ todo' = todo \ {i} /\ UNCHANGED unavailable
              /\ UNCHANGED <<pc, start, shape, retained, imageProof, labelProof, packed, loop, merged>>
           \/ /\ (~small /\ NoFault) \/ ReadTrouble
              /\ dropped
              /\ UNCHANGED <<pc, start, shape, retained, imageProof, labelProof, packed, loop, merged>>
           \/ Fail /\ ReadTrouble
    /\ UNCHANGED <<dataset, config>>

\* parse_files: the label is read and parsed, nothing of it is kept.
ParseFile(i) ==
    /\ pc = "parse" /\ i \in todo
    /\ \E record \in {IF Size(label[i].text) > config.maxFile THEN Record(TooLarge) ELSE ParseOf(label[i]),
                      Record(Reference)} :
          /\ captured' = [captured EXCEPT ![i].record = record]
          /\ IF record = Record(Reference) /\ ParseOf(label[i]).status # Reference
             THEN Fault ELSE NoFault
    /\ todo' = todo \ {i}
    /\ UNCHANGED <<dataset, config, pc, start, shape, retained, proofs, packed, loop, merged>>

\* Mutant of LabelProof: the fingerprints of the valid sources, then the others.
LabelProofAppended(i) ==
    LET valid == InOrder(ValidIn(Chunk))
        both == valid \o InOrder(Chunk \ ValidIn(Chunk))
    IN  captured[both[i - start + 1]].file

\* indexed: the fingerprint of a source's own label.
LabelProof(i) == captured[i].file

\* The chunk's records, in the order of their sources, become arrays.
PackChunk ==
    /\ pc \in {"invalid", "parse"} /\ todo = {}
    /\ LET valid == InOrder(ValidIn(Chunk))
       IN  packed' = FoldLeft(Extend, EmptyPack, [k \in DOMAIN valid |-> captured[valid[k]].record])
    /\ labelProof' = [i \in Source |->
           IF i \in Chunk THEN IF pc = "invalid" THEN LabelProof(i) ELSE Nothing
           ELSE labelProof[i]]
    /\ pc' = "merge" /\ source' = start /\ position' = 0 /\ segmentIndex' = 0
    /\ UNCHANGED <<dataset, faults, config, start, todo, shape, captured, retained, imageProof,
                   unavailable, merged>>

-----------------------------------------------------------------------------
(* The merge *)

Diagnose(m, code) == [m EXCEPT !.diagnostics = Append(@, <<source, code>>)]

\* The annotations of the current source join the result.
Keep(m, rows, segments) ==
    [m EXCEPT !.sources = Append(@, source), !.shapes = Append(@, shape[source]),
              !.rows = Append(@, rows), !.segments = Append(@, segments)]

\* The segment index after the objects before end.
SegmentsBefore(end) ==
    segmentIndex + Cardinality({k \in (segmentIndex + 1)..Len(packed.segmentObjects) :
                                    packed.segmentObjects[k] < end})

Advance ==
    /\ source' = source + 1
    /\ UNCHANGED <<dataset, config, pc, start, todo, shape, captured, retained, proofs, packed>>

SkipInvalid ==
    /\ pc = "merge" /\ source <= Stop /\ shape[source] = NoShape
    /\ merged' = Diagnose([merged EXCEPT !.corrupt = @ + 1], "corrupt_image")
    /\ Advance /\ NoFault /\ UNCHANGED <<position, segmentIndex>>

\* The status, rows and polygons of the current source in the packed arrays.
Status == packed.statuses[position + 1]
Begin == packed.offsets[position + 1]
End == packed.offsets[position + 2]
NativeRows == Slice(packed.labels, Begin, End)
NativeSegments ==
    [k \in 1..(SegmentsBefore(End) - segmentIndex) |->
        Slice(packed.points, packed.segmentOffsets[segmentIndex + k],
              packed.segmentOffsets[segmentIndex + k + 1])]
ToMerge == pc = "merge" /\ source <= Stop /\ shape[source] # NoShape

MergeNative ==
    /\ ToMerge /\ Status \notin {Reference, TooLarge}
    /\ LET counted == [merged EXCEPT !.missing = @ + (IF Status = NoFile THEN 1 ELSE 0),
                                     !.found = @ + (IF Status = NoFile THEN 0 ELSE 1),
                                     !.empty = @ + (IF Status = Empty THEN 1 ELSE 0)]
           noted == IF packed.duplicates[position + 1] = 0 THEN counted
                    ELSE Diagnose(counted, "duplicate")
       IN  merged' = Keep(noted, NativeRows, NativeSegments)
    /\ position' = position + 1 /\ segmentIndex' = SegmentsBefore(End)
    /\ Advance /\ NoFault

\* Mutant of ReferenceInput: the path is opened again.
ReferenceInputReopened(i) == label[i]

\* The reference reads the bytes that were hashed; only an ordinary scan opens
\* the path again.
ReferenceInput(i) == IF captured[i].data = Nothing THEN label[i] ELSE captured[i].data.of

\* Mutant of Counted: a label the reference refuses is not counted.
CountedIfFound(m, v) ==
    [m EXCEPT !.missing = @ + v.missing, !.found = @ + 1 - v.missing,
              !.empty = @ + v.empty, !.fallbacks = @ + 1]

\* The counters of the reference join those of the scan; a label it refuses is
\* found and corrupt.
Counted(m, v) ==
    [m EXCEPT !.missing = @ + v.missing, !.found = @ + 1 - v.missing,
              !.empty = @ + v.empty, !.corrupt = @ + (IF v.ok THEN 0 ELSE 1),
              !.fallbacks = @ + 1]

MergeReference ==
    /\ ToMerge /\ Status = Reference
    /\ LET noted(v) == IF v.ok /\ v.duplicates = 0 THEN Counted(merged, v)
                       ELSE Diagnose(Counted(merged, v), "reference_label")
           verdict == Verify(ReferenceInput(source), config.single)
       IN  \/ /\ verdict.ok /\ NoFault
              /\ merged' = Keep(noted(verdict), verdict.rows, verdict.segments)
           \/ ~verdict.ok /\ NoFault /\ merged' = noted(verdict)
           \/ /\ captured[source].data = Nothing /\ label[source].kind = "file" /\ Fault
              /\ merged' = noted([verdict EXCEPT !.ok = FALSE, !.empty = 0])
    /\ position' = position + 1 /\ segmentIndex' = SegmentsBefore(End)
    /\ Advance

MergeTooLarge ==
    /\ ToMerge /\ Status = TooLarge
    /\ Fail /\ NoFault /\ UNCHANGED <<dataset, config>>

\* Mutant of NextChunk: the rest of a chunk that is not full is left out.
NextChunkFull ==
    /\ pc = "merge" /\ source > Stop
    /\ IF Stop + config.inFlight > config.sources THEN pc' = "done" ELSE pc' = "images"
    /\ start' = Stop + 1
    /\ todo' = (Stop + 1)..(Stop + config.inFlight)
    /\ UNCHANGED <<dataset, faults, config, shape, captured, retained, proofs, packed, loop, merged>>

NextChunk ==
    /\ pc = "merge" /\ source > Stop
    /\ IF Stop = config.sources
       THEN pc' = "done" /\ UNCHANGED <<start, todo>>
       ELSE /\ pc' = "images" /\ start' = Stop + 1
            /\ todo' = {i \in Source : Stop < i /\ i <= Stop + config.inFlight}
    /\ UNCHANGED <<dataset, faults, config, shape, captured, retained, proofs, packed, loop, merged>>

-----------------------------------------------------------------------------
(* Other programs *)

Change == /\ pc \notin {"done", "failed"} /\ writes' = writes + 1
          /\ UNCHANGED <<faults, config, pc, start, todo, shape, captured, retained, proofs,
                         packed, loop, merged>>

WriteImage(i, c) == c # image[i] /\ image' = [image EXCEPT ![i] = c] /\ Change /\ UNCHANGED label
WriteLabel(i, f) == f # label[i] /\ label' = [label EXCEPT ![i] = f] /\ Change /\ UNCHANGED image

Next ==
    \/ BeginLabels \/ CapturedAll \/ PackChunk
    \/ SkipInvalid \/ MergeNative \/ MergeReference \/ MergeTooLarge \/ NextChunk
    \/ \E i \in Source :
          \/ VerifyImage(i) \/ CaptureLabel(i) \/ FingerprintInvalid(i) \/ ParseFile(i)
          \/ /\ writes < config.maxWrites
             /\ \/ \E c \in ImagesOf[config.dataset] : WriteImage(i, c)
                \/ \E f \in Files : WriteLabel(i, f)

Spec == Init /\ [][Next]_vars

-----------------------------------------------------------------------------
(* The result *)

\* 0 and the running lengths of a sequence of sequences.
Offsets(seqs) == [k \in 1..(Len(seqs) + 1) |-> Len(FlattenSeq(SubSeq(seqs, 1, k - 1)))]

\* ScanResult.__init__.
Result ==
    LET offsets == Offsets(merged.rows)
        points == FlattenSeq(merged.segments)
    IN  [sources |-> merged.sources, shapes |-> merged.shapes,
         offsets |-> offsets, labels |-> FlattenSeq(merged.rows),
         points |-> FlattenSeq(points), segmentOffsets |-> Offsets(points),
         objects |-> FlattenSeq([k \in DOMAIN merged.segments |->
                         [j \in DOMAIN merged.segments[k] |-> offsets[k] + j - 1]])]

\* materialize_labels: the records of a result, unpacked.
Materialize(r) ==
    [k \in DOMAIN r.sources |->
        LET mine == InOrder({s \in DOMAIN r.objects :
                                r.offsets[k] <= r.objects[s] /\ r.objects[s] < r.offsets[k + 1]})
        IN  [source |-> r.sources[k], shape |-> r.shapes[k],
             rows |-> Slice(r.labels, r.offsets[k], r.offsets[k + 1]),
             segments |-> [s \in DOMAIN mine |->
                 Slice(r.points, r.segmentOffsets[mine[s]], r.segmentOffsets[mine[s] + 1])]]]

\* The conditions of _validate_arrays that depend on what was scanned.
ValidArrays(r) ==
    /\ \A k \in 2..Len(r.sources) : r.sources[k - 1] < r.sources[k]
    /\ r.offsets[Len(r.offsets)] = Len(r.labels)
    /\ \A k \in 2..Len(r.objects) : r.objects[k - 1] < r.objects[k]
    /\ \A k \in DOMAIN r.sources :
          Len(Materialize(r)[k].segments) \in {0, r.offsets[k + 1] - r.offsets[k]}
    /\ \A s \in DOMAIN r.objects : r.segmentOffsets[s] < r.segmentOffsets[s + 1]
    /\ \A l \in DOMAIN r.labels : \A k \in 1..5 : r.labels[l][k] # Infinite
    /\ Len(r.sources) = config.sources - merged.corrupt
    /\ merged.empty <= merged.found /\ merged.found + merged.missing <= config.sources
    /\ \A k \in 2..Len(merged.diagnostics) : merged.diagnostics[k - 1][1] < merged.diagnostics[k][1]

\* The sources that survive the pinned verifier, with what it makes of them.
ReferenceRecords(images, labels) ==
    LET verdict(i) == Verify(labels[i], config.single)
        kept == InOrder({i \in Source : images[i] \in DOMAIN ShapeOf /\ verdict(i).ok})
    IN  [k \in DOMAIN kept |->
            [source |-> kept[k], shape |-> ShapeOf[images[kept[k]]],
             rows |-> verdict(kept[k]).rows, segments |-> verdict(kept[k]).segments]]

-----------------------------------------------------------------------------
(* Properties *)

\* A result with provenance, the only kind that is ever saved.
Cacheable == pc = "done" /\ config.snapshot /\ ~unavailable

\* The annotations of a result that can be saved are what the pinned verifier
\* makes of exactly the bytes its fingerprints were computed from, source by
\* source, although files changed between the reads of the scan (scan,
\* snapshot_labels; "Never reopen a potentially changed path for fallback").
AnnotationsMatchProofs ==
    Cacheable =>
        /\ \A i \in Source : imageProof[i] # Nothing /\ labelProof[i] # Nothing
        /\ Materialize(Result) = ReferenceRecords([i \in Source |-> imageProof[i].of],
                                                  [i \in Source |-> labelProof[i].of])

\* A scan of files that stay the same and can be read returns what the pinned
\* verifier returns for them in path order, whatever the chunk size, with a
\* snapshot or without, when some labels or none are left to the reference.
ScanIsReference ==
    pc = "done" /\ writes = 0 /\ faults = 0 =>
        Materialize(Result) = ReferenceRecords(image, label)

\* A result that can be saved passes the validation of the encoder, so a save
\* ends with a SaveResult and never with a ValueError (_encode, _validate_arrays):
\* docs/CACHE.md says that a failure to write preserves a valid scan result.  It
\* fails for an infinite class under single_cls.
ValidResultIsEncodable == Cacheable => ValidArrays(Result)

\* That is the only such result: whatever else was scanned, while files changed or
\* labels went to the reference, the encoder accepts it (_encode, _validate_arrays).
RefusedOnlyForInfinite ==
    Cacheable /\ ~ValidArrays(Result) =>
        /\ config.single
        /\ \E i \in Source : \E l \in DOMAIN labelProof[i].of.text :
              Len(labelProof[i].of.text[l]) > 0 /\ labelProof[i].of.text[l][1] = "inf"

\* The label of source i has been parsed and is still what it was.
ParsedSteady(i) == pc = "merge" /\ i \in ValidIn(Chunk) /\ writes = 0 /\ faults = 0

\* What the native engine reads without asking for the reference is what the
\* reference reads: the same rows, polygons, order and duplicate count (the
\* conditional permutation of np.unique included), and an empty file is one.
NativeIsReference ==
    \A i \in Source :
        LET native == captured[i].record
            verdict == Verify(label[i], config.single)
        IN  ParsedSteady(i) /\ native.status \in {Valid, Empty} =>
                /\ verdict.ok
                /\ native.rows = verdict.rows /\ native.segments = verdict.segments
                /\ native.duplicates = verdict.duplicates
                /\ native.status = Empty <=> verdict.empty = 1

\* The reference is asked about a label it accepts only where the two number
\* readers differ: an infinite class, the sign of a zero in a polygon.
ReferenceOnlyWhenUnclear ==
    \A i \in Source :
        ParsedSteady(i) /\ captured[i].record.status = Reference
                /\ Verify(label[i], config.single).ok =>
            \E l \in DOMAIN label[i].text : \E k \in DOMAIN label[i].text[l] :
                label[i].text[l][k] \in {"inf", "-0"}

\* The label bytes a chunk keeps for the reference stay within
\* max_fallback_bytes, in whichever order the pool reads the labels.
FallbackWithinLimit ==
    Total([i \in Source |-> IF captured[i].data = Nothing THEN 0
                            ELSE Size(captured[i].data.of.text)]) <= config.maxFallback
=============================================================================
