----------------------------- MODULE ImageRepair -----------------------------
(***************************************************************************)
(* verify_image of _snapshots.py on one image path: the snapshot, the      *)
(* Pillow check of _scan.py, and the rewrite of a damaged JPEG that        *)
(* repair_jpeg="reference" asks for.  The path may be listed several       *)
(* times, so that several workers verify and repair it at once, and other  *)
(* programs change it meanwhile.                                           *)
(*                                                                         *)
(* A read of the snapshot engine is one step (SnapshotRead).  Pillow's own *)
(* reads by path, used when no snapshot can be had, are one step each.     *)
(* Encoding is deterministic.  A prefix of an encoded file is taken to     *)
(* miss more than its end marker, so Pillow cannot decode it.              *)
(***************************************************************************)
EXTENDS Integers

CONSTANTS
    Worker,         \* pool threads that verify the path, one per time it is listed
    Repair,         \* repair_jpeg: "reject" or "reference"
    Written,        \* what the path can hold at first and other programs write
    MaxChanges,     \* bound: changes by other programs
    MaxFaults       \* bound: failing system calls

\* Contents by what the program sees of them.  "swollen" is a damaged JPEG within
\* max_image_bytes whose repaired form is not, "huge" a damaged one beyond the limit.
Bases == {"intact", "damaged", "swollen", "huge", "broken", "empty", "part", "mixed"}

ASSUME RepairAssumption ==
    /\ Repair \in {"reject", "reference"}
    /\ Written \subseteq Bases
    /\ MaxChanges \in Nat /\ MaxFaults \in Nat

VARIABLES
    file,       \* what the path shows
    clock,      \* modifications so far, the source of times and identities
    changes,    \* those made by other programs
    faults,     \* system calls that have failed
    worker      \* every worker's call

vars == <<file, clock, changes, faults, worker>>

-----------------------------------------------------------------------------
\* A content, and how many times it was decoded and encoded again.
Raw(base) == [base |-> base, encoded |-> 0]
Encoded(b) == [b EXCEPT !.encoded = @ + 1]

Opens(b) == b.encoded > 0 \/ b.base \notin {"broken", "empty"}
EndMarked(b) == b.encoded > 0 \/ b.base = "intact"
\* Mutant of Decodes: a truncated image is decoded as far as it goes.
DecodesTruncated(b) == Opens(b)
Decodes(b) == Opens(b) /\ (b.encoded > 0 \/ b.base # "part")
TooLarge(b) == b.base = "huge" \/ (b.base = "swollen" /\ b.encoded > 0)

Holding(b, t, i) == [kind |-> "file", bytes |-> b, mtime |-> t, id |-> i]
Missing == [kind |-> "missing", bytes |-> Raw("empty"), mtime |-> 0, id |-> 0]

\* snapshot.rs Fingerprint: no identity.
Fingerprint(f) == [kind |-> f.kind, bytes |-> f.bytes, mtime |-> f.mtime]

\* The check of a copy or of what a path shows, for the part before a repair.
Verdict(b) ==
    IF ~Opens(b) THEN "corrupt_image"
    ELSE IF EndMarked(b) THEN "valid"
    ELSE IF Repair = "reject" THEN "repair_required"
    ELSE IF ~Decodes(b) THEN "corrupt_image"
    ELSE "repair"

Started == [pc |-> "start", data |-> Raw("empty"), proof |-> Fingerprint(Missing), handle |-> 0,
            captured |-> TRUE, began |-> 1, checked |-> 0, outcome |-> "none", repaired |-> FALSE]

Init ==
    /\ clock = 1 /\ changes = 0 /\ faults = 0
    /\ file \in {Holding(Raw(b), 1, 1) : b \in Written}
                \cup {Missing}
    /\ worker = [w \in Worker |-> Started]

Becomes(w, r) == worker' = [worker EXCEPT ![w] = r]
Ends(w, outcome) == Becomes(w, [worker[w] EXCEPT !.pc = "done", !.outcome = outcome])
Fault == faults < MaxFaults /\ faults' = faults + 1
Untouched == UNCHANGED <<file, clock, changes>>

\* The file changes while a read of it goes on: the read ends in InputChangedError,
\* or in another error if the file went away or grew beyond the limit, as it does if
\* a system call fails.
Disturbed(w) == clock # worker[w].began
Trouble(w) ==
    \/ Disturbed(w) /\ (file.kind = "missing" \/ TooLarge(file.bytes)) /\ UNCHANGED faults
    \/ Fault

-----------------------------------------------------------------------------
(* The snapshot *)

\* read_snapshot.  Beyond the limit, or when a system call fails, the image is
\* verified by its path and the result is not cacheable.
ReadSnapshot(w) ==
    /\ worker[w].pc = "start"
    /\ LET c == [worker[w] EXCEPT !.data = file.bytes, !.proof = Fingerprint(file)]
           uncaptured == Becomes(w, [worker[w] EXCEPT !.captured = FALSE, !.pc = "direct"])
       IN  \/ file.kind = "missing" /\ Becomes(w, [c EXCEPT !.pc = "absent"]) /\ UNCHANGED faults
           \/ /\ file.kind = "file" /\ ~TooLarge(file.bytes)
              /\ Becomes(w, [c EXCEPT !.pc = "check"]) /\ UNCHANGED faults
           \/ file.kind = "file" /\ TooLarge(file.bytes) /\ uncaptured /\ UNCHANGED faults
           \/ uncaptured /\ Trouble(w)
    /\ Untouched

\* InputChangedError, which nothing in the scan handles.
ReadDisturbed(w) ==
    /\ worker[w].pc \in {"start", "confirm", "precheck", "reread"} /\ Disturbed(w)
    /\ Ends(w, "changed")
    /\ Untouched /\ UNCHANGED faults

\* A missing image: open raises FileNotFoundError and the path is fingerprinted again.
OpenAbsent(w) ==
    /\ worker[w].pc = "absent"
    /\ \/ file.kind = "file" /\ Ends(w, "changed") /\ UNCHANGED faults
       \/ /\ file.kind = "missing" /\ UNCHANGED faults
          /\ Becomes(w, [worker[w] EXCEPT !.pc = "confirm", !.began = clock])
       \/ Ends(w, "error") /\ Fault
    /\ Untouched
ConfirmAbsent(w) ==
    /\ worker[w].pc = "confirm"
    /\ \/ /\ ~TooLarge(file.bytes) /\ UNCHANGED faults
          /\ Ends(w, IF Fingerprint(file) = worker[w].proof THEN "corrupt_image" ELSE "changed")
       \/ TooLarge(file.bytes) /\ Ends(w, "error") /\ UNCHANGED faults
       \/ Ends(w, "error") /\ Trouble(w)
    /\ Untouched

\* _check_image on the snapshot's bytes.
Check(w) ==
    /\ worker[w].pc = "check"
    /\ LET verdict == Verdict(worker[w].data)
       IN  IF verdict = "repair"
           THEN Becomes(w, [worker[w] EXCEPT !.pc = "precheck", !.began = clock])
           ELSE Ends(w, verdict)
    /\ Untouched /\ UNCHANGED faults

-----------------------------------------------------------------------------
(* Without a snapshot: _check_image opens the path for the check, for the tail   *)
(* and for the decoding.                                                         *)

DirectOpen(w) ==
    /\ worker[w].pc = "direct"
    /\ IF file.kind = "file" /\ Opens(file.bytes)
       THEN Becomes(w, [worker[w] EXCEPT !.pc = "tail"])
       ELSE Ends(w, "corrupt_image")
    /\ Untouched /\ UNCHANGED faults
DirectTail(w) ==
    /\ worker[w].pc = "tail"
    /\ IF file.kind = "missing" \/ file.bytes = Raw("empty") THEN Ends(w, "corrupt_image")
       ELSE IF EndMarked(file.bytes) THEN Ends(w, "valid")
       ELSE IF Repair = "reject" THEN Ends(w, "repair_required")
       ELSE Becomes(w, [worker[w] EXCEPT !.pc = "decode"])
    /\ Untouched /\ UNCHANGED faults
DirectDecode(w) ==
    /\ worker[w].pc = "decode"
    /\ IF file.kind = "file" /\ Decodes(file.bytes)
       THEN Becomes(w, [worker[w] EXCEPT !.pc = "open", !.data = file.bytes, !.checked = clock])
       ELSE Ends(w, "corrupt_image")
    /\ Untouched /\ UNCHANGED faults

\* Any of these reads fails.
DirectFails(w) ==
    /\ worker[w].pc \in {"direct", "tail", "decode"}
    /\ Ends(w, "corrupt_image") /\ Fault
    /\ Untouched

-----------------------------------------------------------------------------
(* The repair: save_repaired *)

\* Mutant of CheckBeforeRepair: the rewrite is not preceded by a comparison.
NoCheckBeforeRepair(w) ==
    /\ worker[w].pc = "precheck"
    /\ Becomes(w, [worker[w] EXCEPT !.pc = "open", !.checked = clock])
    /\ Untouched /\ UNCHANGED faults

\* The path must still be what was read.  The byte limit and a failing call end in
\* verify_image's last handler, which takes them for a corrupt image.
CheckBeforeRepair(w) ==
    /\ worker[w].pc = "precheck"
    /\ LET same == Fingerprint(file) = worker[w].proof
       IN  \/ /\ same /\ UNCHANGED faults
              /\ Becomes(w, [worker[w] EXCEPT !.pc = "open", !.checked = clock])
           \/ ~same /\ ~TooLarge(file.bytes) /\ Ends(w, "changed") /\ UNCHANGED faults
           \/ TooLarge(file.bytes) /\ Ends(w, "corrupt_image") /\ UNCHANGED faults
           \/ Ends(w, "corrupt_image") /\ Trouble(w)
    /\ Untouched

\* open(path, "wb") truncates the file, or creates it.
OpenForWrite(w) ==
    /\ worker[w].pc = "open"
    /\ \/ /\ clock' = clock + 1 /\ UNCHANGED <<changes, faults>>
          /\ file' = Holding(Raw("empty"), clock', IF file.kind = "file" THEN file.id ELSE clock')
          /\ Becomes(w, [worker[w] EXCEPT !.pc = "write", !.handle = file'.id])
       \/ Ends(w, "corrupt_image") /\ Fault /\ Untouched

\* What a file holds once the encoded image, or a first part of it, is written from
\* its beginning.
Overwritten(b, image, whole) ==
    IF b.encoded = 0 /\ b.base \in {"empty", "part"} THEN IF whole THEN image ELSE Raw("part")
    ELSE IF b = image THEN b
    ELSE Raw("mixed")

\* The write goes to the open file, which the path may no longer show.
Stores(w, whole) ==
    IF file.kind = "file" /\ file.id = worker[w].handle
    THEN /\ clock' = clock + 1 /\ UNCHANGED changes
         /\ file' = Holding(Overwritten(file.bytes, Encoded(worker[w].data), whole), clock', file.id)
    ELSE Untouched

WritePart(w) ==
    /\ worker[w].pc = "write"
    /\ Stores(w, FALSE)
    /\ \/ Becomes(w, [worker[w] EXCEPT !.pc = "writing"]) /\ UNCHANGED faults
       \/ Ends(w, "corrupt_image") /\ Fault

WriteAll(w) ==
    /\ worker[w].pc \in {"write", "writing"}
    /\ Stores(w, TRUE)
    /\ IF worker[w].captured
       THEN Becomes(w, [worker[w] EXCEPT !.pc = "reread", !.began = clock'])
       ELSE Becomes(w, [worker[w] EXCEPT !.pc = "done", !.outcome = "valid", !.repaired = TRUE])
    /\ UNCHANGED faults

\* Mutant of Reread: whatever the path shows becomes the proof.
RereadUnchecked(w) ==
    /\ worker[w].pc = "reread"
    /\ Becomes(w, [worker[w] EXCEPT !.pc = "done", !.outcome = "valid", !.repaired = TRUE,
                                    !.proof = Fingerprint(file)])
    /\ Untouched /\ UNCHANGED faults

\* The path must show the encoder's bytes; the limit of this read makes room for them.
Reread(w) ==
    /\ worker[w].pc = "reread"
    /\ LET image == Encoded(worker[w].data)
           same == file.kind = "file" /\ file.bytes = image
       IN  \/ /\ same /\ UNCHANGED faults
              /\ Becomes(w, [worker[w] EXCEPT !.pc = "done", !.outcome = "valid", !.repaired = TRUE,
                                              !.proof = Fingerprint(file)])
           \/ ~same /\ ~TooLarge(file.bytes) /\ Ends(w, "changed") /\ UNCHANGED faults
           \/ ~same /\ TooLarge(file.bytes) /\ UNCHANGED faults
              /\ Ends(w, IF TooLarge(image) THEN "changed" ELSE "corrupt_image")
           \/ Ends(w, "corrupt_image") /\ Trouble(w)
    /\ Untouched

-----------------------------------------------------------------------------
(* Other programs *)

Change ==
    /\ changes < MaxChanges /\ changes' = changes + 1 /\ clock' = clock + 1
    /\ \E b \in Written :
          \/ file' = Holding(Raw(b), clock', clock')            \* replaced or created
          \/ /\ file.kind = "file"                             \* rewritten in place
             /\ file' = Holding(Raw(b), clock', file.id)
    /\ UNCHANGED <<faults, worker>>
Unlink ==
    /\ changes < MaxChanges /\ changes' = changes + 1 /\ clock' = clock + 1
    /\ file.kind = "file" /\ file' = Missing
    /\ UNCHANGED <<faults, worker>>

Verify(w) ==
    \/ ReadSnapshot(w) \/ ReadDisturbed(w) \/ OpenAbsent(w) \/ ConfirmAbsent(w) \/ Check(w)
    \/ DirectOpen(w) \/ DirectTail(w) \/ DirectDecode(w) \/ DirectFails(w)
    \/ CheckBeforeRepair(w) \/ OpenForWrite(w) \/ WritePart(w) \/ WriteAll(w) \/ Reread(w)

Next == Change \/ Unlink \/ \E w \in Worker : Verify(w)

Spec == Init /\ [][Next]_vars

-----------------------------------------------------------------------------
(* Properties *)

Contents == [base : Bases, encoded : Nat]
Fingerprints == [kind : {"file", "missing"}, bytes : Contents, mtime : Nat]
Files == [kind : {"file", "missing"}, bytes : Contents, mtime : Nat, id : Nat]
PCs == {"start", "absent", "confirm", "check", "precheck", "direct", "tail", "decode",
        "open", "write", "writing", "reread", "done"}
Outcomes == {"none", "valid", "corrupt_image", "repair_required", "changed", "error"}
Calls == [pc : PCs, data : Contents, proof : Fingerprints, handle : Nat, captured : BOOLEAN,
          began : Nat, checked : Nat, outcome : Outcomes, repaired : BOOLEAN]

TypeOK ==
    /\ file \in Files /\ clock \in Nat /\ changes \in 0..MaxChanges /\ faults \in 0..MaxFaults
    /\ worker \in [Worker -> Calls]

AllDone == \A w \in Worker : worker[w].pc = "done"

\* Records a scan can save: all captured, none raised, every fingerprint current.
Publishable ==
    /\ AllDone /\ ~TooLarge(file.bytes)
    /\ \A w \in Worker : /\ worker[w].captured
                         /\ worker[w].outcome \notin {"changed", "error"}
                         /\ worker[w].proof = Fingerprint(file)

\* Unless a system call failed, a set of records that can be published says of every
\* listing of the image what the verifier says of the file that is there, and
\* "repaired" only of a file the encoder wrote: neither a listing verified while
\* another worker rewrote the file nor a file replaced during the rewrite gets in.
PublishableIsRight ==
    faults = 0 /\ Publishable =>
        \A w \in Worker :
            /\ worker[w].outcome = IF file.kind = "missing" THEN "corrupt_image"
                                   ELSE Verdict(file.bytes)
            /\ worker[w].repaired => file.bytes.encoded > 0

\* What a repair truncates is the content it has decoded, unless that was changed
\* after the repair's last look at the path: an image replaced while it was being
\* decoded is not overwritten.
OverwritesOnlyWhatItRead ==
    [][\A w \in Worker :
          worker[w].pc = "open" /\ worker'[w].pc = "write"
          => file.bytes = worker[w].data \/ clock # worker[w].checked]_vars

\* Workers that repair one image at once, each from its snapshot, leave it as it was
\* or repaired exactly once, and whole.
RepairsCompose ==
    AllDone /\ changes = 0 /\ faults = 0 /\ (\A w \in Worker : worker[w].captured) =>
        /\ file.kind = "file" => file.bytes.base \in Written /\ file.bytes.encoded <= 1
        /\ (\E w \in Worker : worker[w].repaired) => file.bytes.encoded = 1

\* "A detected change raises InputChangedError; it does not become a corrupt
\* annotation" (docs/CACHE.md): without failing system calls, what is recorded as
\* corrupt was captured as something the verifier finds corrupt.
ChangeIsNotCorrupt ==
    \A w \in Worker :
        faults = 0 /\ worker[w].captured /\ worker[w].outcome = "corrupt_image"
        => worker[w].proof.kind = "missing" \/ Verdict(worker[w].data) = "corrupt_image"
=============================================================================
