-------------------------- MODULE ImageRepairProofs --------------------------
(***************************************************************************)
(* Safety of ImageRepair for any number of workers, any contents and any   *)
(* number of changes and failures.  A fingerprint stands for its content   *)
(* because every change of the file takes a later time: either the path    *)
(* still shows what was fingerprinted or it shows something later.  And    *)
(* however many workers repair an image, they repair it once.              *)
(***************************************************************************)
EXTENDS ImageRepair, TLAPS

\* The path no longer shows what c fingerprinted, and never will again.
Stale(c) == c.proof.kind = "file" /\ (file.kind = "file" => file.mtime > c.proof.mtime)

\* The path shows what c fingerprinted, or something later.
Kept(c) ==
    /\ c.proof.mtime <= clock /\ c.checked <= clock
    /\ c.proof.kind = "file" /\ file.kind = "file" =>
          /\ file.mtime >= c.proof.mtime
          /\ file.mtime = c.proof.mtime => file.bytes = c.proof.bytes

\* What is known at each point of a call.
Phase(c) ==
    /\ c.pc \in {"start", "absent", "confirm", "check", "precheck", "reread"} => c.captured
    /\ c.pc \in {"direct", "tail", "decode"} => ~c.captured
    /\ c.pc \in {"absent", "confirm"} => c.proof.kind = "missing"
    /\ c.pc \in {"check", "precheck", "open"} /\ c.captured =>
          c.proof.kind = "file" /\ c.data = c.proof.bytes /\ ~TooLarge(c.data)
    /\ c.pc = "precheck" => c.proof.mtime <= c.began /\ c.began <= clock
    /\ c.pc = "open" /\ c.checked = clock => file.bytes = c.data
    /\ c.pc \in {"write", "writing", "reread"} /\ c.captured => Stale(c)
    /\ c.pc # "done" => ~c.repaired
    /\ c.pc = "done" => c.outcome # "none"

\* What the outcome o of a captured call says of the fingerprint.
Justified(c, o) ==
    /\ o \in {"valid", "repair_required"} =>
          c.proof.kind = "file" /\ Verdict(c.proof.bytes) = o
    /\ o = "corrupt_image" =>
          \/ c.proof.kind = "missing"
          \/ Verdict(c.proof.bytes) = "corrupt_image"
          \/ Stale(c)

Recorded(c) ==
    c.pc = "done" /\ c.captured /\ faults = 0 =>
        /\ Justified(c, c.outcome)
        /\ c.repaired => c.outcome = "valid" /\ c.proof.bytes.encoded > 0

Good(c) == Kept(c) /\ Phase(c) /\ Recorded(c)

IInv ==
    /\ TypeOK
    /\ file.mtime <= clock /\ (file.kind = "file" => file.mtime = clock)
    /\ \A w \in Worker : Good(worker[w])

-----------------------------------------------------------------------------
LEMMA InitIInv == Init => IInv
  <1> SUFFICES ASSUME Init PROVE IInv
    OBVIOUS
  <1> USE RepairAssumption
  <1>1. \A b \in Bases : Raw(b) \in Contents
    BY DEF Raw, Contents
  <1>2. Raw("empty") \in Contents
    BY <1>1 DEF Bases
  <1>3. file \in Files /\ file.mtime <= clock /\ (file.kind = "file" => file.mtime = clock)
    BY <1>1, <1>2 DEF Init, Holding, Files, Missing, Bases
  <1>4. Started \in Calls
    BY <1>2 DEF Started, Calls, Fingerprint, Missing, Fingerprints, PCs, Outcomes
  <1>5. TypeOK
    BY <1>3, <1>4 DEF Init, TypeOK
  <1>6. Good(Started)
    BY DEF Init, Good, Kept, Phase, Recorded, Stale, Started, Fingerprint, Missing
  <1> QED BY <1>3, <1>5, <1>6 DEF Init, IInv

-----------------------------------------------------------------------------
(* The parts of a step *)

\* Every change of the file takes a later time.
Moves ==
    /\ clock' \in Nat /\ file' \in Files /\ file'.mtime <= clock'
    /\ file'.kind = "file" => file'.mtime = clock'
    /\ \/ file' = file /\ clock' = clock
       \/ clock' > clock

Counts ==
    /\ changes' \in 0..MaxChanges /\ faults' \in 0..MaxFaults /\ (faults' = 0 => faults = 0)

\* Worker w goes from one good record to another.
Advances(w) ==
    /\ worker' = [worker EXCEPT ![w] = worker'[w]]
    /\ worker'[w] \in Calls

\* What a call knows stays true when others move the file.
LEMMA OthersGood ==
    ASSUME IInv, Moves, Counts, NEW q \in Worker, worker'[q] = worker[q]
    PROVE  Good(worker[q])'
  <1> DEFINE c == worker[q]
  <1>1. c \in Calls /\ file \in Files /\ clock \in Nat /\ file.mtime <= clock /\ Good(c)
    BY DEF IInv, TypeOK
  <1>2. /\ c.proof.mtime \in Nat /\ c.checked \in Nat /\ c.began \in Nat
        /\ file.mtime \in Nat /\ file'.mtime \in Nat /\ clock' \in Nat
    BY <1>1 DEF Calls, Fingerprints, Files, Moves
  <1>3. c' = c
    OBVIOUS
  <1> HIDE DEF c
  <1>4. Kept(c)'
    BY <1>1, <1>2, <1>3 DEF Good, Kept, Moves
  <1>5. Stale(c) => Stale(c)'
    BY <1>1, <1>2, <1>3 DEF Good, Kept, Stale, Moves
  <1>6. Phase(c)'
    BY <1>1, <1>2, <1>3, <1>5 DEF Good, Kept, Phase, Moves
  <1>7. Recorded(c)'
    BY <1>1, <1>3, <1>5 DEF Good, Recorded, Justified, Counts
  <1> QED BY <1>4, <1>6, <1>7 DEF Good, c

LEMMA WorkerStep ==
    ASSUME IInv, Moves, Counts, NEW w \in Worker, Advances(w), Good(worker[w])'
    PROVE  IInv'
  <1>1. TypeOK'
    BY DEF IInv, TypeOK, Moves, Counts, Advances
  <1>2. \A q \in Worker : q # w => worker'[q] = worker[q]
    BY DEF Advances, IInv, TypeOK
  <1>3. \A q \in Worker : Good(worker[q])'
    BY <1>2, OthersGood
  <1> QED BY <1>1, <1>3 DEF IInv, Moves

LEMMA EnvironmentStep == ASSUME IInv, Change \/ Unlink PROVE IInv'
  <1> USE RepairAssumption
  <1>1. /\ file \in Files /\ clock \in Nat /\ changes \in 0..MaxChanges
        /\ faults \in 0..MaxFaults /\ worker \in [Worker -> Calls]
    BY DEF IInv, TypeOK
  <1>2. \A b \in Bases : Raw(b) \in Contents
    BY DEF Raw, Contents
  <1>3. changes < MaxChanges /\ changes' = changes + 1 /\ clock' = clock + 1
        /\ UNCHANGED <<faults, worker>>
    BY DEF Change, Unlink
  <1>4. Counts
    BY <1>1, <1>3 DEF Counts
  <1>5. file' \in Files /\ (file'.kind = "file" => file'.mtime = clock') /\ file'.mtime <= clock'
    <2>1. CASE Change
      <3>1. PICK b \in Written, i \in {clock', file.id} : file' = Holding(Raw(b), clock', i)
        BY <2>1 DEF Change
      <3>2. Raw(b) \in Contents /\ clock' \in Nat /\ i \in Nat
        BY <1>1, <1>2, <1>3 DEF Files
      <3> QED BY <3>1, <3>2 DEF Holding, Files
    <2>2. CASE Unlink
      <3>1. file' = Missing /\ Raw("empty") \in Contents
        BY <2>2, <1>2 DEF Unlink, Bases
      <3> QED BY <1>1, <1>3, <3>1 DEF Missing, Files
    <2> QED BY <2>1, <2>2
  <1>6. Moves
    BY <1>1, <1>3, <1>5 DEF Moves
  <1>7. \A q \in Worker : Good(worker[q])'
    BY <1>3, <1>4, <1>6, OthersGood
  <1>8. TypeOK'
    BY <1>1, <1>3, <1>4, <1>5 DEF TypeOK, Counts
  <1> QED BY <1>5, <1>7, <1>8 DEF IInv

-----------------------------------------------------------------------------
(* Steps that leave the file alone *)

LEMMA Still ==
    ASSUME IInv, Untouched, UNCHANGED faults \/ Fault
    PROVE  Moves /\ Counts
  <1>1. /\ file \in Files /\ clock \in Nat /\ file.mtime <= clock
        /\ (file.kind = "file" => file.mtime = clock) /\ changes \in 0..MaxChanges /\ faults \in 0..MaxFaults
    BY DEF IInv, TypeOK
  <1>2. UNCHANGED <<file, clock, changes>>
    BY DEF Untouched
  <1>3. faults' \in 0..MaxFaults /\ (faults' = 0 => faults = 0)
    BY <1>1, RepairAssumption DEF Fault
  <1> QED BY <1>1, <1>2, <1>3 DEF Moves, Counts

\* A call ends with an outcome that its fingerprint justifies.
LEMMA EndingStep ==
    ASSUME IInv, NEW w \in Worker, NEW o \in Outcomes \ {"none"}, Ends(w, o),
           Untouched, UNCHANGED faults \/ Fault, worker[w].pc # "done",
           faults' = 0 /\ worker[w].captured => Justified(worker[w], o)
    PROVE  IInv'
  <1> DEFINE c == worker[w]  d == worker'[w]
  <1>1. c \in Calls /\ Good(c) /\ worker \in [Worker -> Calls]
    BY DEF IInv, TypeOK
  <1>2. worker' = [worker EXCEPT ![w] = d] /\ d = [c EXCEPT !.pc = "done", !.outcome = o]
    BY <1>1 DEF Ends, Becomes
  <1> HIDE DEF d
  <1>3. d \in Calls
    BY <1>1, <1>2 DEF Calls, PCs
  <1>4. /\ d.pc = "done" /\ d.outcome = o /\ d.proof = c.proof /\ d.data = c.data
        /\ d.captured = c.captured /\ d.repaired = c.repaired /\ d.checked = c.checked
    BY <1>1, <1>2 DEF Calls
  <1>5. UNCHANGED <<file, clock>>
    BY DEF Untouched
  <1>6. Advances(w)
    BY <1>2, <1>3 DEF Advances, d
  <1> HIDE DEF c
  <1>7. c = worker[w]
    BY DEF c
  <1>8. ~d.repaired
    BY <1>1, <1>4, <1>7 DEF Good, Phase
  <1>9. faults' = 0 /\ d.captured => Justified(worker[w], o)'
    <2> SUFFICES ASSUME faults' = 0, d.captured PROVE Justified(worker[w], o)'
      OBVIOUS
    <2>1. Justified(c, o)
      BY <1>4, <1>7
    <2>2. Stale(c) => Stale(worker[w])'
      BY <1>4, <1>5 DEF Stale, d
    <2>3. worker'[w].proof = c.proof
      BY <1>4 DEF d
    <2> QED BY <2>1, <2>2, <2>3 DEF Justified
  <1>10. Good(worker[w])'
    <2>1. Kept(worker[w])'
      BY <1>1, <1>4, <1>5 DEF Good, Kept, d
    <2>2. Phase(worker[w])'
      BY <1>4 DEF Phase, d
    <2>3. worker'[w] = d
      BY DEF d
    <2>4. Recorded(worker[w])'
      BY <1>4, <1>8, <1>9, <2>3 DEF Recorded
    <2> QED BY <2>1, <2>2, <2>4 DEF Good
  <1> QED BY <1>6, <1>10, Still, WorkerStep

\* What is used of a call before each step.
LEMMA Before ==
    ASSUME IInv, NEW w \in Worker
    PROVE  /\ worker[w] \in Calls /\ Good(worker[w]) /\ worker \in [Worker -> Calls]
           /\ file \in Files /\ clock \in Nat /\ file.mtime \in Nat /\ file.mtime <= clock
           /\ Fingerprint(file) \in Fingerprints /\ Fingerprint(file).kind = file.kind
           /\ Fingerprint(file).bytes = file.bytes /\ Fingerprint(file).mtime = file.mtime
  BY DEF IInv, TypeOK, Files, Fingerprint, Fingerprints

\* A call that is not at its end and goes on with the same fingerprint, the file
\* left alone.
LEMMA GoingOn ==
    ASSUME IInv, NEW w \in Worker, worker' = [worker EXCEPT ![w] = worker'[w]],
           worker'[w] \in Calls, Untouched, UNCHANGED faults \/ Fault,
           worker[w].pc # "done", worker'[w].pc # "done",
           worker'[w].repaired = worker[w].repaired, worker'[w].checked <= clock,
           \/ worker'[w].proof = worker[w].proof
           \/ worker'[w].proof = Fingerprint(file),
           Phase(worker[w])'
    PROVE  IInv'
  <1> DEFINE c == worker[w]  d == worker'[w]
  <1>1. c \in Calls /\ Good(c)
    BY Before
  <1>2. UNCHANGED <<file, clock>>
    BY DEF Untouched
  <1>3. Kept(worker[w])'
    BY <1>1, <1>2, Before DEF Good, Kept
  <1>4. Recorded(worker[w])'
    BY DEF Recorded
  <1>5. Good(worker[w])'
    BY <1>3, <1>4 DEF Good
  <1>6. Advances(w)
    BY DEF Advances
  <1> QED BY <1>5, <1>6, Still, WorkerStep

LEMMA ReadSnapshotStep ==
    ASSUME IInv, NEW w \in Worker, ReadSnapshot(w) PROVE IInv'
  <1> DEFINE c == worker[w]  d == worker'[w]
  <1>1. c \in Calls /\ Good(c) /\ worker \in [Worker -> Calls] /\ file \in Files
    BY Before
  <1>2. c.pc = "start" /\ c.captured /\ ~c.repaired /\ Untouched /\ (UNCHANGED faults \/ Fault)
    BY <1>1 DEF ReadSnapshot, Trouble, Good, Phase
  <1>3. clock \in Nat /\ c.checked <= clock /\ UNCHANGED <<file, clock>>
    BY <1>1, <1>2, Before DEF Good, Kept, Untouched
  <1>4. CASE \E pc \in {"absent", "check"} :
               /\ Becomes(w, [c EXCEPT !.data = file.bytes, !.proof = Fingerprint(file), !.pc = pc])
               /\ IF pc = "absent" THEN file.kind = "missing"
                  ELSE file.kind = "file" /\ ~TooLarge(file.bytes)
    <2>1. PICK pc \in {"absent", "check"} :
               /\ Becomes(w, [c EXCEPT !.data = file.bytes, !.proof = Fingerprint(file), !.pc = pc])
               /\ IF pc = "absent" THEN file.kind = "missing"
                  ELSE file.kind = "file" /\ ~TooLarge(file.bytes)
      BY <1>4
    <2>2. d = [c EXCEPT !.data = file.bytes, !.proof = Fingerprint(file), !.pc = pc]
          /\ worker' = [worker EXCEPT ![w] = d]
      BY <1>1, <2>1 DEF Becomes
    <2> HIDE DEF d
    <2>3. d \in Calls
      BY <1>1, <2>2, Before DEF Calls, PCs, Files
    <2>4. /\ d.pc = pc /\ d.data = file.bytes /\ d.proof = Fingerprint(file)
          /\ d.captured = c.captured /\ d.repaired = c.repaired /\ d.checked = c.checked
      BY <1>1, <2>2 DEF Calls
    <2>5. Phase(worker[w])'
      BY <1>2, <1>3, <2>1, <2>4, Before DEF Phase, d
    <2> QED BY <1>2, <1>3, <2>2, <2>3, <2>4, <2>5, GoingOn DEF d
  <1>5. CASE Becomes(w, [c EXCEPT !.captured = FALSE, !.pc = "direct"])
    <2>1. d = [c EXCEPT !.captured = FALSE, !.pc = "direct"] /\ worker' = [worker EXCEPT ![w] = d]
      BY <1>1, <1>5 DEF Becomes
    <2> HIDE DEF d
    <2>2. d \in Calls
      BY <1>1, <2>1 DEF Calls, PCs
    <2>3. /\ d.pc = "direct" /\ d.proof = c.proof /\ ~d.captured
          /\ d.repaired = c.repaired /\ d.checked = c.checked
      BY <1>1, <2>1 DEF Calls
    <2>4. Phase(worker[w])'
      BY <1>2, <1>3, <2>3 DEF Phase, d
    <2> QED BY <1>2, <1>3, <2>1, <2>2, <2>3, <2>4, GoingOn DEF d
  <1> QED BY <1>4, <1>5 DEF ReadSnapshot

\* A step that only moves pc.
LEMMA PlainStep ==
    ASSUME IInv, NEW w \in Worker, NEW pc \in PCs,
           \/ Becomes(w, [worker[w] EXCEPT !.pc = pc]) /\ pc # "precheck"
           \/ Becomes(w, [worker[w] EXCEPT !.pc = pc, !.began = clock]),
           Untouched, UNCHANGED faults,
           \/ worker[w].pc = "absent" /\ pc = "confirm"
           \/ worker[w].pc = "check" /\ pc = "precheck"
           \/ worker[w].pc \in {"direct", "tail"} /\ pc \in {"tail", "decode"}
    PROVE  IInv'
  <1> DEFINE c == worker[w]  d == worker'[w]
  <1>1. c \in Calls /\ Good(c) /\ worker \in [Worker -> Calls]
    BY Before
  <1>2. /\ (d = [c EXCEPT !.pc = pc] /\ pc # "precheck") \/ d = [c EXCEPT !.pc = pc, !.began = clock]
        /\ worker' = [worker EXCEPT ![w] = d]
    BY <1>1 DEF Becomes
  <1> HIDE DEF d
  <1>3. d \in Calls
    BY <1>1, <1>2, Before DEF Calls
  <1>4. /\ d.pc = pc /\ d.data = c.data /\ d.proof = c.proof
        /\ d.captured = c.captured /\ d.repaired = c.repaired /\ d.checked = c.checked
        /\ pc = "precheck" => d.began = clock
    BY <1>1, <1>2 DEF Calls
  <1>5. clock \in Nat /\ c.checked <= clock /\ c.pc # "done" /\ pc # "done"
        /\ c.proof.mtime <= clock /\ UNCHANGED clock
    BY <1>1, Before DEF Good, Kept, Untouched
  <1>6. Phase(worker[w])'
    BY <1>1, <1>4, <1>5 DEF Good, Phase, d
  <1> QED BY <1>2, <1>3, <1>4, <1>5, <1>6, GoingOn DEF d

LEMMA ReadStep ==
    ASSUME IInv, NEW w \in Worker,
           ReadDisturbed(w) \/ OpenAbsent(w) \/ ConfirmAbsent(w) \/ Check(w)
    PROVE  IInv'
  <1> DEFINE c == worker[w]
  <1>1. c \in Calls /\ Good(c)
    BY Before
  <1>2. CASE ReadDisturbed(w)
    <2>1. Justified(c, "changed")
      BY DEF Justified
    <2> QED BY <1>2, <2>1, EndingStep DEF ReadDisturbed, Outcomes
  <1>3. CASE OpenAbsent(w)
    <2>1. Justified(c, "changed") /\ Justified(c, "error")
      BY DEF Justified
    <2> QED BY <1>3, <2>1, EndingStep, PlainStep DEF OpenAbsent, Outcomes, PCs
  <1>4. CASE ConfirmAbsent(w)
    <2>1. c.proof.kind = "missing" /\ c.pc = "confirm"
      BY <1>1, <1>4 DEF ConfirmAbsent, Good, Phase
    <2>2. Justified(c, "changed") /\ Justified(c, "error") /\ Justified(c, "corrupt_image")
      BY <2>1 DEF Justified
    <2> QED BY <1>4, <2>1, <2>2, EndingStep DEF ConfirmAbsent, Trouble, Outcomes
  <1>5. CASE Check(w)
    <2>1. c.pc = "check" /\ c.data = c.proof.bytes /\ c.proof.kind = "file"
      BY <1>1, <1>5 DEF Check, Good, Phase
    <2>2. CASE Verdict(c.data) = "repair"
      BY <1>5, <2>1, <2>2, PlainStep DEF Check, PCs
    <2>3. CASE Verdict(c.data) # "repair"
      <3>1. PICK o \in {"corrupt_image", "valid", "repair_required"} : o = Verdict(c.data)
        BY <2>3 DEF Verdict
      <3>2. Ends(w, o) /\ Untouched /\ UNCHANGED faults
        BY <1>5, <2>3, <3>1 DEF Check
      <3>3. Justified(c, o)
        BY <2>1, <3>1 DEF Justified
      <3> QED BY <2>1, <3>2, <3>3, EndingStep DEF Outcomes
    <2> QED BY <2>2, <2>3
  <1> QED BY <1>2, <1>3, <1>4, <1>5

\* Without a snapshot nothing is recorded that could be saved.
LEMMA DirectStep ==
    ASSUME IInv, NEW w \in Worker,
           DirectOpen(w) \/ DirectTail(w) \/ DirectDecode(w) \/ DirectFails(w)
    PROVE  IInv'
  <1> DEFINE c == worker[w]  d == worker'[w]
  <1>1. c \in Calls /\ Good(c) /\ worker \in [Worker -> Calls]
    BY Before
  <1>2. c.pc \in {"direct", "tail", "decode"} /\ ~c.captured /\ Untouched
        /\ (UNCHANGED faults \/ Fault)
    BY <1>1 DEF DirectOpen, DirectTail, DirectDecode, DirectFails, Good, Phase
  <1>3. CASE \E o \in {"corrupt_image", "valid", "repair_required"} : Ends(w, o)
    BY <1>2, <1>3, EndingStep DEF Outcomes
  <1>4. CASE \E pc \in {"tail", "decode"} :
               Becomes(w, [c EXCEPT !.pc = pc]) /\ c.pc \in {"direct", "tail"} /\ UNCHANGED faults
    BY <1>2, <1>4, PlainStep DEF PCs
  <1>5. CASE Becomes(w, [c EXCEPT !.pc = "open", !.data = file.bytes, !.checked = clock])
    <2>1. d = [c EXCEPT !.pc = "open", !.data = file.bytes, !.checked = clock]
          /\ worker' = [worker EXCEPT ![w] = d]
      BY <1>1, <1>5 DEF Becomes
    <2> HIDE DEF d
    <2>2. d \in Calls
      BY <1>1, <2>1, Before DEF Calls, PCs, Files
    <2>3. /\ d.pc = "open" /\ d.data = file.bytes /\ d.proof = c.proof /\ ~d.captured
          /\ d.repaired = c.repaired /\ d.checked = clock
      BY <1>1, <1>2, <2>1 DEF Calls
    <2>4. ~d.repaired /\ clock \in Nat /\ UNCHANGED <<file, clock>>
      BY <1>1, <1>2, <2>3, Before DEF Good, Phase, Untouched
    <2>5. Phase(worker[w])'
      BY <2>3, <2>4 DEF Phase, d
    <2>6. /\ d.checked <= clock /\ c.pc # "done" /\ d.pc # "done"
          /\ d.repaired = c.repaired /\ d.proof = c.proof
      BY <1>2, <2>3, <2>4
    <2> QED BY <1>2, <2>1, <2>2, <2>5, <2>6, GoingOn DEF d
  <1> QED BY <1>3, <1>4, <1>5 DEF DirectOpen, DirectTail, DirectDecode, DirectFails

LEMMA CheckBeforeRepairStep ==
    ASSUME IInv, NEW w \in Worker, CheckBeforeRepair(w) PROVE IInv'
  <1> DEFINE c == worker[w]  d == worker'[w]
  <1>1. c \in Calls /\ Good(c) /\ worker \in [Worker -> Calls]
    BY Before
  <1>2. /\ c.pc = "precheck" /\ c.captured /\ c.proof.kind = "file"
        /\ c.data = c.proof.bytes /\ ~TooLarge(c.data)
        /\ Untouched /\ (UNCHANGED faults \/ Fault)
    BY <1>1 DEF CheckBeforeRepair, Trouble, Good, Phase
  <1>3. CASE Ends(w, "changed")
    <2>1. Justified(c, "changed")
      BY DEF Justified
    <2> QED BY <1>2, <1>3, <2>1, EndingStep DEF Outcomes
  <1>4. CASE TooLarge(file.bytes) /\ Ends(w, "corrupt_image")
    <2>1. Stale(c)
      <3>1. c.proof.mtime \in Nat /\ file.mtime \in Nat /\ file.bytes # c.proof.bytes
        BY <1>1, <1>2, <1>4, Before DEF Calls, Fingerprints
      <3> QED BY <1>1, <1>2, <3>1 DEF Good, Kept, Stale
    <2>2. Justified(c, "corrupt_image")
      BY <2>1 DEF Justified
    <2> QED BY <1>2, <1>4, <2>2, EndingStep DEF Outcomes
  <1>5. CASE Ends(w, "corrupt_image") /\ Trouble(w)
    <2>1. CASE Disturbed(w)
      <3>1. /\ c.proof.mtime \in Nat /\ c.began \in Nat /\ clock \in Nat
            /\ c.proof.mtime <= c.began /\ c.began <= clock
        BY <1>1, <1>2, Before DEF Calls, Fingerprints, Good, Phase
      <3>2. file.kind = "file" => file.mtime = clock
        BY DEF IInv
      <3>3. Stale(c)
        BY <1>2, <2>1, <3>1, <3>2 DEF Disturbed, Stale
      <3>4. Justified(c, "corrupt_image")
        BY <3>3 DEF Justified
      <3> QED BY <1>2, <1>5, <3>4, EndingStep DEF Outcomes
    <2>2. CASE Fault
      <3>1. faults' # 0
        BY <2>2 DEF Fault, IInv, TypeOK
      <3> QED BY <1>2, <1>5, <3>1, EndingStep DEF Outcomes
    <2> QED BY <1>5, <2>1, <2>2 DEF Trouble
  <1>6. CASE Fingerprint(file) = c.proof /\ Becomes(w, [c EXCEPT !.pc = "open", !.checked = clock])
    <2>1. d = [c EXCEPT !.pc = "open", !.checked = clock] /\ worker' = [worker EXCEPT ![w] = d]
      BY <1>1, <1>6 DEF Becomes
    <2> HIDE DEF d
    <2>2. d \in Calls
      BY <1>1, <2>1, Before DEF Calls, PCs
    <2>3. /\ d.pc = "open" /\ d.data = c.data /\ d.proof = c.proof /\ d.captured = c.captured
          /\ d.repaired = c.repaired /\ d.checked = clock
      BY <1>1, <2>1, Before DEF Calls
    <2>4. file.bytes = c.data /\ UNCHANGED <<file, clock>> /\ ~c.repaired /\ clock \in Nat
      BY <1>1, <1>2, <1>6, Before DEF Untouched, Good, Phase
    <2>5. Phase(worker[w])'
      BY <1>2, <2>3, <2>4 DEF Phase, d
    <2>6. /\ d.checked <= clock /\ c.pc # "done" /\ d.pc # "done"
          /\ d.repaired = c.repaired /\ d.proof = c.proof
      BY <1>2, <2>3, <2>4
    <2> QED BY <1>2, <2>1, <2>2, <2>5, <2>6, GoingOn DEF d
  <1> QED BY <1>3, <1>4, <1>5, <1>6 DEF CheckBeforeRepair

-----------------------------------------------------------------------------
(* Steps that move the file *)

\* A call whose write moves the file is left with a fingerprint of the past.
LEMMA Outdated ==
    ASSUME IInv, NEW w \in Worker, Moves, clock' > clock, worker[w].proof.kind = "file",
           worker'[w].proof = worker[w].proof
    PROVE  Stale(worker[w])'
  <1>1. /\ worker[w].proof.mtime \in Nat /\ worker[w].proof.mtime <= clock /\ clock \in Nat
        /\ clock' \in Nat
    BY Before DEF Calls, Fingerprints, Good, Kept, Moves
  <1> QED BY <1>1 DEF Moves, Stale

LEMMA OpenForWriteStep ==
    ASSUME IInv, NEW w \in Worker, OpenForWrite(w) PROVE IInv'
  <1> DEFINE c == worker[w]  d == worker'[w]
  <1>1. c \in Calls /\ Good(c) /\ worker \in [Worker -> Calls]
    BY Before
  <1>2. c.pc = "open" /\ (c.captured => c.proof.kind = "file") /\ ~c.repaired
    BY <1>1 DEF OpenForWrite, Good, Phase
  <1>3. CASE Ends(w, "corrupt_image") /\ Fault /\ Untouched
    <2>1. faults' # 0
      BY <1>3 DEF Fault, IInv, TypeOK
    <2> QED BY <1>2, <1>3, <2>1, EndingStep DEF Outcomes
  <1>4. CASE ~(Ends(w, "corrupt_image") /\ Fault /\ Untouched)
    <2>1. PICK i \in {file.id, clock'} : file' = Holding(Raw("empty"), clock', i)
      BY <1>4 DEF OpenForWrite
    <2>2. clock' = clock + 1 /\ UNCHANGED <<changes, faults>>
          /\ Becomes(w, [c EXCEPT !.pc = "write", !.handle = file'.id])
      BY <1>4 DEF OpenForWrite
    <2>3. clock' \in Nat /\ clock' > clock /\ i \in Nat
      BY <2>1, <2>2, Before DEF Files
    <2>4. file' \in Files /\ file'.mtime = clock' /\ file'.id \in Nat
      BY <2>1, <2>3 DEF Holding, Files, Contents, Raw, Bases
    <2>5. Moves /\ Counts
      BY <2>2, <2>3, <2>4 DEF Moves, Counts, IInv, TypeOK
    <2>6. d = [c EXCEPT !.pc = "write", !.handle = file'.id] /\ worker' = [worker EXCEPT ![w] = d]
      BY <1>1, <2>2 DEF Becomes
    <2> HIDE DEF d
    <2>7. d \in Calls
      BY <1>1, <2>4, <2>6 DEF Calls, PCs
    <2>8. /\ d.pc = "write" /\ d.data = c.data /\ d.proof = c.proof /\ d.captured = c.captured
          /\ d.repaired = c.repaired /\ d.checked = c.checked
      BY <1>1, <2>6 DEF Calls
    <2>9. c.captured => Stale(worker[w])'
      BY <1>2, <2>3, <2>5, <2>8, Outdated DEF d
    <2>10. Advances(w)
      BY <2>6, <2>7 DEF Advances, d
    <2>11. Phase(worker[w])'
      BY <1>2, <2>8, <2>9 DEF Phase, d
    <2>12. Recorded(worker[w])'
      BY <2>8 DEF Recorded, d
    <2>13. Kept(worker[w])'
      <3>1. /\ c.proof.mtime \in Nat /\ c.checked \in Nat /\ clock \in Nat
            /\ c.proof.mtime <= clock /\ c.checked <= clock
        BY <1>1, Before DEF Calls, Fingerprints, Good, Kept
      <3> QED BY <2>3, <2>4, <2>8, <3>1 DEF Kept, d
    <2> QED BY <2>5, <2>10, <2>11, <2>12, <2>13, WorkerStep DEF Good
  <1> QED BY <1>3, <1>4

LEMMA StoresMoves ==
    ASSUME IInv, NEW w \in Worker, NEW whole \in BOOLEAN, Stores(w, whole)
    PROVE  Moves /\ UNCHANGED changes
  <1> DEFINE new == Overwritten(file.bytes, Encoded(worker[w].data), whole)
  <1>1. /\ clock \in Nat /\ file \in Files /\ worker[w].data \in Contents /\ file.mtime <= clock
    BY Before DEF Calls
  <1>2. Encoded(worker[w].data) \in Contents
    BY <1>1 DEF Encoded, Contents
  <1>3. Raw("part") \in Contents /\ Raw("mixed") \in Contents
    BY DEF Raw, Contents, Bases
  <1>4. new \in Contents
    BY <1>1, <1>2, <1>3 DEF Overwritten, Files
  <1>5. CASE file.kind = "file" /\ file.id = worker[w].handle
    <2>1. clock' = clock + 1 /\ UNCHANGED changes /\ file' = Holding(new, clock', file.id)
      BY <1>5 DEF Stores
    <2> HIDE DEF new
    <2> QED BY <1>1, <1>4, <2>1 DEF Holding, Files, Moves
  <1>6. CASE ~(file.kind = "file" /\ file.id = worker[w].handle)
    BY <1>1, <1>6 DEF Stores, Untouched, Moves, IInv
  <1> QED BY <1>5, <1>6

\* A call whose file is being written keeps its fingerprint, which is a past one.
LEMMA WritingStep ==
    ASSUME IInv, NEW w \in Worker, Moves, Counts, Advances(w),
           worker[w].pc \in {"write", "writing"},
           worker'[w].proof = worker[w].proof, worker'[w].checked = worker[w].checked,
           worker'[w].captured = worker[w].captured,
           \/ worker'[w].pc \in {"writing", "reread"} /\ worker'[w].repaired = worker[w].repaired
           \/ worker'[w].pc = "done" /\ worker'[w].outcome = "corrupt_image" /\ faults' # 0
           \/ worker'[w].pc = "done" /\ worker'[w].outcome = "valid" /\ ~worker[w].captured,
           worker'[w].pc = "reread" => worker[w].captured
    PROVE  IInv'
  <1> DEFINE c == worker[w]  d == worker'[w]
  <1>1. c \in Calls /\ Good(c)
    BY Before
  <1>2. (c.captured => Stale(c)) /\ ~c.repaired
    BY <1>1 DEF Good, Phase
  <1>3. /\ c.proof.mtime \in Nat /\ c.checked \in Nat /\ clock \in Nat /\ clock' \in Nat
        /\ file.mtime \in Nat /\ file'.mtime \in Nat
    BY <1>1, Before DEF Calls, Fingerprints, Moves, Files
  <1>4. Kept(worker[w])'
    BY <1>1, <1>3 DEF Good, Kept, Moves
  <1>5. Stale(c) => Stale(worker[w])'
    BY <1>1, <1>3 DEF Good, Kept, Stale, Moves
  <1>6. Phase(worker[w])'
    BY <1>2, <1>5 DEF Phase
  <1>7. Recorded(worker[w])'
    BY DEF Recorded
  <1> QED BY <1>4, <1>6, <1>7, WorkerStep DEF Good

LEMMA WritePartStep ==
    ASSUME IInv, NEW w \in Worker, WritePart(w) PROVE IInv'
  <1> DEFINE c == worker[w]  d == worker'[w]
  <1>1. c \in Calls /\ worker \in [Worker -> Calls] /\ c.pc = "write"
    BY Before DEF WritePart
  <1>2. Moves /\ UNCHANGED changes
    BY StoresMoves DEF WritePart
  <1>3. CASE Becomes(w, [c EXCEPT !.pc = "writing"]) /\ UNCHANGED faults
    <2>1. d = [c EXCEPT !.pc = "writing"] /\ worker' = [worker EXCEPT ![w] = d]
      BY <1>1, <1>3 DEF Becomes
    <2> HIDE DEF d
    <2>2. d \in Calls
      BY <1>1, <2>1 DEF Calls, PCs
    <2>3. /\ d.pc = "writing" /\ d.proof = c.proof /\ d.checked = c.checked
          /\ d.captured = c.captured /\ d.repaired = c.repaired
      BY <1>1, <2>1 DEF Calls
    <2>4. Counts
      BY <1>2, <1>3 DEF Counts, IInv, TypeOK
    <2> QED BY <1>1, <1>2, <2>1, <2>2, <2>3, <2>4, WritingStep DEF Advances, d
  <1>4. CASE Ends(w, "corrupt_image") /\ Fault
    <2>1. d = [c EXCEPT !.pc = "done", !.outcome = "corrupt_image"] /\ worker' = [worker EXCEPT ![w] = d]
      BY <1>1, <1>4 DEF Ends, Becomes
    <2> HIDE DEF d
    <2>2. d \in Calls
      BY <1>1, <2>1 DEF Calls, PCs, Outcomes
    <2>3. /\ d.pc = "done" /\ d.proof = c.proof /\ d.checked = c.checked
          /\ d.captured = c.captured /\ d.outcome = "corrupt_image"
      BY <1>1, <2>1 DEF Calls
    <2>4. faults' # 0 /\ Counts
      BY <1>2, <1>4, RepairAssumption DEF Fault, Counts, IInv, TypeOK
    <2> QED BY <1>1, <1>2, <2>1, <2>2, <2>3, <2>4, WritingStep DEF Advances, d
  <1> QED BY <1>3, <1>4 DEF WritePart

LEMMA WriteAllStep ==
    ASSUME IInv, NEW w \in Worker, WriteAll(w) PROVE IInv'
  <1> DEFINE c == worker[w]  d == worker'[w]
  <1>1. c \in Calls /\ worker \in [Worker -> Calls] /\ c.pc \in {"write", "writing"}
    BY Before DEF WriteAll
  <1>2. Moves /\ UNCHANGED <<changes, faults>>
    BY StoresMoves DEF WriteAll
  <1>3. Counts /\ clock' \in Nat
    BY <1>2 DEF Counts, IInv, TypeOK, Moves
  <1>4. CASE c.captured
    <2>1. d = [c EXCEPT !.pc = "reread", !.began = clock'] /\ worker' = [worker EXCEPT ![w] = d]
      BY <1>1, <1>4 DEF WriteAll, Becomes
    <2> HIDE DEF d
    <2>2. d \in Calls
      BY <1>1, <1>3, <2>1 DEF Calls, PCs
    <2>3. /\ d.pc = "reread" /\ d.proof = c.proof /\ d.checked = c.checked
          /\ d.captured = c.captured /\ d.repaired = c.repaired
      BY <1>1, <1>3, <2>1 DEF Calls
    <2> QED BY <1>1, <1>2, <1>3, <1>4, <2>1, <2>2, <2>3, WritingStep DEF Advances, d
  <1>5. CASE ~c.captured
    <2>1. d = [c EXCEPT !.pc = "done", !.outcome = "valid", !.repaired = TRUE]
          /\ worker' = [worker EXCEPT ![w] = d]
      BY <1>1, <1>5 DEF WriteAll, Becomes
    <2> HIDE DEF d
    <2>2. d \in Calls
      BY <1>1, <2>1 DEF Calls, PCs, Outcomes
    <2>3. /\ d.pc = "done" /\ d.proof = c.proof /\ d.checked = c.checked
          /\ d.captured = c.captured /\ d.outcome = "valid"
      BY <1>1, <2>1 DEF Calls
    <2> QED BY <1>1, <1>2, <1>3, <1>5, <2>1, <2>2, <2>3, WritingStep DEF Advances, d
  <1> QED BY <1>4, <1>5

LEMMA RereadStep ==
    ASSUME IInv, NEW w \in Worker, Reread(w) PROVE IInv'
  <1> DEFINE c == worker[w]  d == worker'[w]  image == Encoded(c.data)
  <1>1. c \in Calls /\ Good(c) /\ worker \in [Worker -> Calls] /\ c.data \in Contents
    BY Before DEF Calls
  <1>2. c.pc = "reread" /\ Stale(c) /\ Untouched /\ (UNCHANGED faults \/ Fault)
    BY <1>1 DEF Reread, Trouble, Good, Phase
  <1>3. CASE Ends(w, "changed") \/ Ends(w, "corrupt_image")
    <2>1. Justified(c, "changed") /\ Justified(c, "corrupt_image")
      BY <1>2 DEF Justified
    <2> QED BY <1>2, <1>3, <2>1, EndingStep DEF Outcomes
  <1>4. CASE /\ file.kind = "file" /\ file.bytes = image
             /\ Becomes(w, [c EXCEPT !.pc = "done", !.outcome = "valid", !.repaired = TRUE,
                                     !.proof = Fingerprint(file)])
    <2>1. d = [c EXCEPT !.pc = "done", !.outcome = "valid", !.repaired = TRUE,
                        !.proof = Fingerprint(file)]
          /\ worker' = [worker EXCEPT ![w] = d]
      BY <1>1, <1>4 DEF Becomes
    <2> HIDE DEF d
    <2>2. d \in Calls
      BY <1>1, <2>1, Before DEF Calls, PCs, Outcomes
    <2>3. /\ d.pc = "done" /\ d.proof = Fingerprint(file) /\ d.checked = c.checked
          /\ d.outcome = "valid"
      BY <1>1, <2>1 DEF Calls
    <2>4. image.encoded > 0
      BY <1>1 DEF Encoded, Contents
    <2>5. Verdict(image) = "valid"
      BY <2>4 DEF Verdict, Opens, EndMarked
    <2>6. d.proof.kind = "file" /\ d.proof.bytes = image /\ d.proof.mtime = file.mtime
      BY <1>4, <2>3, Before
    <2> HIDE DEF image
    <2>7. Recorded(worker[w])'
      BY <2>3, <2>4, <2>5, <2>6 DEF Recorded, Justified, d
    <2>8. Phase(worker[w])'
      BY <2>3 DEF Phase, d
    <2>9. Kept(worker[w])'
      <3>1. UNCHANGED <<file, clock>> /\ c.checked <= clock
        BY <1>1, <1>2 DEF Untouched, Good, Kept
      <3> QED BY <1>4, <2>3, <2>6, <3>1, Before DEF Kept, d
    <2>10. Advances(w)
      BY <2>1, <2>2 DEF Advances, d
    <2> QED BY <1>2, <2>7, <2>8, <2>9, <2>10, Still, WorkerStep DEF Good
  <1> QED BY <1>3, <1>4 DEF Reread

-----------------------------------------------------------------------------
LEMMA StepIInv == IInv /\ [Next]_vars => IInv'
  <1> SUFFICES ASSUME IInv, [Next]_vars PROVE IInv'
    OBVIOUS
  <1>1. CASE UNCHANGED vars
    <2>1. UNCHANGED <<file, clock, changes, faults, worker>>
      BY <1>1 DEF vars
    <2>2. Moves /\ Counts
      BY <2>1, Still DEF Untouched
    <2>3. \A q \in Worker : Good(worker[q])'
      BY <2>1, <2>2, OthersGood
    <2>4. TypeOK'
      BY <2>1 DEF IInv, TypeOK
    <2> QED BY <2>2, <2>3, <2>4 DEF IInv, Moves
  <1>2. CASE Change \/ Unlink
    BY <1>2, EnvironmentStep
  <1>3. ASSUME NEW w \in Worker, Verify(w) PROVE IInv'
    BY <1>3, ReadSnapshotStep, ReadStep, DirectStep, CheckBeforeRepairStep, OpenForWriteStep,
       WritePartStep, WriteAllStep, RereadStep DEF Verify
  <1> QED BY <1>1, <1>2, <1>3 DEF Next

LEMMA Inductive == Spec => []IInv
  BY InitIInv, StepIInv, PTL DEF Spec

\* Every record, fingerprint and file keeps its type, for any workers, contents,
\* changes and failures (the calls of verify_image in the scan's pool).
THEOREM TypeCorrect == Spec => []TypeOK
  <1>1. IInv => TypeOK
    BY DEF IInv
  <1> QED BY <1>1, Inductive, PTL

\* However many workers verify and repair one image and whatever other programs do
\* to it, records that can be published agree with the file (verify_image and
\* save_repaired).
THEOREM PublishedIsRight == Spec => []PublishableIsRight
  <1>1. IInv => PublishableIsRight
    <2> SUFFICES ASSUME IInv, faults = 0, Publishable, NEW w \in Worker
                 PROVE  /\ worker[w].outcome = IF file.kind = "missing" THEN "corrupt_image"
                                               ELSE Verdict(file.bytes)
                        /\ worker[w].repaired => file.bytes.encoded > 0
      BY DEF PublishableIsRight
    <2> DEFINE c == worker[w]
    <2>1. /\ c.pc = "done" /\ c.captured /\ c.outcome \notin {"changed", "error"}
          /\ c.proof = Fingerprint(file)
      BY DEF Publishable, AllDone
    <2>2. /\ c.proof.kind = file.kind /\ c.proof.bytes = file.bytes
          /\ c.proof.mtime = file.mtime /\ file.mtime \in Nat
      BY <2>1, Before
    <2>3. c \in Calls /\ Good(c) /\ file \in Files
      BY Before
    <2>4. c.outcome \in {"valid", "repair_required", "corrupt_image"}
      BY <2>1, <2>3 DEF Calls, Outcomes, Good, Phase
    <2>5. Justified(c, c.outcome) /\ (c.repaired => c.outcome = "valid" /\ c.proof.bytes.encoded > 0)
      BY <2>1, <2>3 DEF Good, Recorded
    <2>6. ~Stale(c)
      BY <2>2 DEF Stale
    <2>7. file.kind \in {"file", "missing"}
      BY <2>3 DEF Files
    <2> QED BY <2>2, <2>4, <2>5, <2>6, <2>7 DEF Justified
  <1> QED BY <1>1, Inductive, PTL

\* A repair overwrites nothing but what it decoded, unless that changed after its
\* last look (the comparison at the start of save_repaired).
THEOREM RepairsWhatItRead == Spec => OverwritesOnlyWhatItRead
  <1>1. IInv /\ [Next]_vars =>
          [\A w \in Worker :
             worker[w].pc = "open" /\ worker'[w].pc = "write"
             => file.bytes = worker[w].data \/ clock # worker[w].checked]_vars
    BY DEF IInv, Good, Phase
  <1> QED BY <1>1, Inductive, PTL DEF Spec, OverwritesOnlyWhatItRead

-----------------------------------------------------------------------------
(* Workers alone with the image *)

Writing == {"write", "writing"}
Between == {Raw("empty"), Raw("part")}
Whole(b) == {Raw(b), Encoded(Raw(b))}

\* The path shows the first content or its one encoding, or somebody is writing.
Shows(b) ==
    /\ file.kind = "file"
    /\ \/ file.bytes \in Whole(b)
       \/ file.bytes \in Between /\ \E w \in Worker : worker[w].pc \in Writing

\* Whoever repairs has decoded the first content, and the path keeps its file.
Does(b, c) ==
    /\ c.pc = "check" => c.data \in Whole(b) \cup Between
    /\ c.pc \in {"precheck", "open", "reread"} \cup Writing => c.data = Raw(b) /\ Verdict(Raw(b)) = "repair"
    /\ c.pc \in Writing => c.handle = file.id
    /\ c.pc \in {"reread"} \cup Writing \/ c.repaired =>
          file.bytes \in {Encoded(Raw(b))} \cup Between /\ Verdict(Raw(b)) = "repair"

\* There never was a file.
Nowhere ==
    file.kind = "missing" /\ \A w \in Worker : worker[w].pc \in {"start", "absent", "confirm", "done"} /\ ~worker[w].repaired

Alone == changes = 0 /\ faults = 0 /\ \A w \in Worker : worker[w].captured
Composes == Alone => Nowhere \/ \E b \in Written : Shows(b) /\ \A w \in Worker : Does(b, worker[w])

LEMMA Encodings ==
    ASSUME NEW b
    PROVE  /\ Raw(b) = [base |-> b, encoded |-> 0] /\ Encoded(Raw(b)) = [base |-> b, encoded |-> 1]
           /\ Raw(b).encoded = 0 /\ Raw(b).base = b
           /\ Encoded(Raw(b)).encoded = 1 /\ Encoded(Raw(b)).base = b
           /\ Verdict(Encoded(Raw(b))) # "repair"
           /\ \A d \in Between : Verdict(d) # "repair" /\ d.encoded = 0 /\ d.base \in {"empty", "part"}
           /\ Verdict(Raw(b)) = "repair" => b \notin {"empty", "part"}
  <1>1. Raw(b) = [base |-> b, encoded |-> 0] /\ Encoded(Raw(b)) = [base |-> b, encoded |-> 1]
    BY DEF Raw, Encoded
  <1>2. Verdict(Encoded(Raw(b))) # "repair"
    BY <1>1 DEF Verdict, Opens, EndMarked
  <1>3. Verdict(Raw("empty")) # "repair" /\ Verdict(Raw("part")) # "repair"
    BY DEF Verdict, Opens, EndMarked, Decodes, Raw
  <1> QED BY <1>1, <1>2, <1>3 DEF Between, Raw

\* What a write leaves.
LEMMA WritesOver ==
    ASSUME NEW b, Verdict(Raw(b)) = "repair", NEW d \in {Encoded(Raw(b))} \cup Between
    PROVE  /\ Overwritten(d, Encoded(Raw(b)), TRUE) = Encoded(Raw(b))
           /\ Overwritten(d, Encoded(Raw(b)), FALSE) \in {Encoded(Raw(b)), Raw("part")}
  BY Encodings DEF Overwritten

LEMMA ComposesInit == Init => Composes
  <1> SUFFICES ASSUME Init PROVE Composes
    OBVIOUS
  <1>1. \A w \in Worker : worker[w].pc = "start" /\ ~worker[w].repaired
    BY DEF Init, Started
  <1>2. CASE file = Missing
    BY <1>1, <1>2 DEF Missing, Nowhere, Composes
  <1>3. CASE \E b \in Written : file = Holding(Raw(b), 1, 1)
    <2>1. PICK b \in Written : file = Holding(Raw(b), 1, 1)
      BY <1>3
    <2>2. Shows(b)
      BY <2>1 DEF Shows, Holding, Whole
    <2>3. \A w \in Worker : Does(b, worker[w])
      BY <1>1 DEF Does, Writing
    <2> QED BY <2>2, <2>3 DEF Composes
  <1> QED BY <1>2, <1>3 DEF Init

\* A step of one worker that leaves the file alone.
LEMMA LooksOnly ==
    ASSUME IInv, NEW b, Shows(b), \A q \in Worker : Does(b, worker[q]), NEW w \in Worker, NEW d,
           Becomes(w, d), UNCHANGED file, worker[w].pc \notin Writing, Does(b, d)'
    PROVE  Shows(b)' /\ \A q \in Worker : Does(b, worker[q])'
  <1>1. worker' = [worker EXCEPT ![w] = d] /\ worker = [q \in Worker |-> worker[q]]
    BY DEF Becomes, IInv, TypeOK
  <1>2. \A q \in Worker : worker'[q] = IF q = w THEN d ELSE worker[q]
    BY <1>1
  <1>3. Shows(b)'
    BY <1>2 DEF Shows
  <1>4. \A q \in Worker : Does(b, worker[q])'
    BY <1>2 DEF Does
  <1> QED BY <1>3, <1>4

\* A call that ends without having opened the file.
LEMMA EndsOnly ==
    ASSUME IInv, NEW b, Shows(b), \A q \in Worker : Does(b, worker[q]), NEW w \in Worker, NEW o,
           Ends(w, o), UNCHANGED file, worker[w].pc \notin Writing \cup {"done"}
    PROVE  Shows(b)' /\ \A q \in Worker : Does(b, worker[q])'
  <1>0. PICK d : d = [worker[w] EXCEPT !.pc = "done", !.outcome = o]
    OBVIOUS
  <1>1. worker[w] \in Calls /\ ~worker[w].repaired
    BY Before DEF Good, Phase
  <1>2. d.pc = "done" /\ ~d.repaired /\ Becomes(w, d)
    BY <1>0, <1>1 DEF Calls, Ends
  <1>3. Does(b, d)'
    BY <1>2 DEF Does, Writing
  <1> QED BY <1>2, <1>3, LooksOnly

\* A step that the worker takes before all were alone was taken alone.
LEMMA AloneBefore ==
    ASSUME IInv, NEW w \in Worker, Verify(w), Alone'
    PROVE  /\ Alone /\ ~Fault /\ UNCHANGED faults
           /\ ~DirectOpen(w) /\ ~DirectTail(w) /\ ~DirectDecode(w) /\ ~DirectFails(w)
           /\ ~Becomes(w, [worker[w] EXCEPT !.captured = FALSE, !.pc = "direct"])
  <1> DEFINE c == worker[w]
  <1>1. c \in Calls /\ Good(c) /\ worker \in [Worker -> Calls] /\ faults \in Nat /\ changes \in Nat
    BY RepairAssumption, Before DEF IInv, TypeOK
  <1>2. ~Fault
    BY <1>1 DEF Fault, Alone
  <1>3. UNCHANGED <<changes, faults>>
    BY <1>2 DEF Verify, ReadSnapshot, ReadDisturbed, OpenAbsent, ConfirmAbsent, Check, DirectOpen, DirectTail,
        DirectDecode, DirectFails, CheckBeforeRepair, OpenForWrite, WritePart, WriteAll, Reread, Untouched, Stores, Trouble
  <1>4. ~Becomes(w, [c EXCEPT !.captured = FALSE, !.pc = "direct"])
    <2>1. ~[c EXCEPT !.captured = FALSE, !.pc = "direct"].captured
      BY <1>1 DEF Calls
    <2> QED BY <1>1, <2>1 DEF Becomes, Alone
  <1>5. \A q \in Worker : q # w => worker'[q] = worker[q]
    BY <1>1 DEF Verify, ReadSnapshot, ReadDisturbed, OpenAbsent, ConfirmAbsent, Check, DirectOpen, DirectTail,
        DirectDecode, DirectFails, CheckBeforeRepair, OpenForWrite, WritePart, WriteAll, Reread, Ends, Becomes
  <1>6. c.captured
    <2> SUFFICES ASSUME ~c.captured PROVE FALSE
      OBVIOUS
    <2>1. worker'[w].captured
      BY DEF Alone
    <2>2. ASSUME NEW o, Ends(w, o) PROVE FALSE
      BY <1>1, <2>1, <2>2 DEF Ends, Becomes, Calls
    <2>3. c.pc \notin {"start", "absent", "confirm", "check", "precheck", "reread"}
      BY <1>1 DEF Good, Phase
    <2>4. CASE DirectOpen(w) \/ DirectTail(w) \/ DirectDecode(w) \/ DirectFails(w)
      BY <1>1, <2>1, <2>2, <2>4 DEF DirectOpen, DirectTail, DirectDecode, DirectFails, Becomes, Calls
    <2>5. CASE OpenForWrite(w) \/ WritePart(w) \/ WriteAll(w)
      BY <1>1, <2>1, <2>2, <2>5 DEF OpenForWrite, WritePart, WriteAll, Becomes, Calls
    <2> QED BY <2>3, <2>4, <2>5 DEF Verify, ReadSnapshot, ReadDisturbed, OpenAbsent, ConfirmAbsent, Check,
            CheckBeforeRepair, Reread
  <1>7. Alone
    BY <1>3, <1>5, <1>6 DEF Alone
  <1>8. c.pc \notin {"direct", "tail", "decode"}
    BY <1>1, <1>6 DEF Good, Phase
  <1> QED BY <1>2, <1>3, <1>4, <1>7, <1>8 DEF DirectOpen, DirectTail, DirectDecode, DirectFails

LEMMA NowhereStays ==
    ASSUME IInv, Nowhere, NEW w \in Worker, Verify(w), Alone'
    PROVE  Nowhere'
  <1> DEFINE c == worker[w]
  <1>1. c \in Calls /\ worker \in [Worker -> Calls]
    BY Before
  <1>2. file.kind = "missing" /\ c.pc \in {"start", "absent", "confirm", "done"} /\ ~c.repaired
    BY DEF Nowhere
  <1>3. ASSUME NEW o, Ends(w, o)
        PROVE  worker' = [worker EXCEPT ![w] = worker'[w]] /\ worker'[w].pc = "done" /\ ~worker'[w].repaired
    BY <1>1, <1>2, <1>3 DEF Ends, Becomes, Calls
  <1>4. ReadSnapshot(w) \/ ReadDisturbed(w) \/ OpenAbsent(w) \/ ConfirmAbsent(w)
    BY <1>2 DEF Verify, Check, DirectOpen, DirectTail, DirectDecode, DirectFails, CheckBeforeRepair, OpenForWrite,
       WritePart, WriteAll, Reread
  <1>5. UNCHANGED file
    BY <1>4 DEF ReadSnapshot, ReadDisturbed, OpenAbsent, ConfirmAbsent, Untouched
  <1>6. /\ worker' = [worker EXCEPT ![w] = worker'[w]]
        /\ worker'[w].pc \in {"start", "absent", "confirm", "done"} /\ ~worker'[w].repaired
    <2>1. CASE ReadSnapshot(w)
      <3>1. Becomes(w, [c EXCEPT !.data = file.bytes, !.proof = Fingerprint(file), !.pc = "absent"])
        BY <1>2, <2>1, AloneBefore DEF ReadSnapshot
      <3> QED BY <1>1, <1>2, <3>1 DEF Becomes, Calls
    <2>2. CASE ReadDisturbed(w)
      BY <1>3, <2>2 DEF ReadDisturbed
    <2>3. CASE OpenAbsent(w)
      <3>1. (\E o : Ends(w, o)) \/ Becomes(w, [c EXCEPT !.pc = "confirm", !.began = clock])
        BY <2>3 DEF OpenAbsent
      <3> QED BY <1>1, <1>2, <1>3, <3>1 DEF Becomes, Calls
    <2>4. CASE ConfirmAbsent(w)
      BY <1>3, <2>4 DEF ConfirmAbsent
    <2> QED BY <1>4, <2>1, <2>2, <2>3, <2>4
  <1>7. \A q \in Worker : worker'[q] = IF q = w THEN worker'[w] ELSE worker[q]
    BY <1>1, <1>6
  <1> QED BY <1>5, <1>6, <1>7 DEF Nowhere

\* The steps of one worker, the first content of the path being b.
LEMMA RepairStays ==
    ASSUME IInv, NEW b, Shows(b), \A q \in Worker : Does(b, worker[q]), NEW w \in Worker, Verify(w), Alone'
    PROVE  Shows(b)' /\ \A q \in Worker : Does(b, worker[q])'
  <1>0. PICK c : c = worker[w]
    OBVIOUS
  <1>1. /\ c \in Calls /\ Phase(c) /\ Does(b, c) /\ worker \in [Worker -> Calls] /\ file \in Files
        /\ file.kind = "file" /\ c.captured
    BY <1>0, Before, AloneBefore DEF Good, Shows, Alone
  <1>2. CASE ReadSnapshot(w)
    <2>1. PICK d : d = [c EXCEPT !.data = file.bytes, !.proof = Fingerprint(file), !.pc = "check"]
      OBVIOUS
    <2>2. Becomes(w, d) /\ UNCHANGED file /\ c.pc = "start"
      BY <1>0, <1>1, <1>2, <2>1, AloneBefore DEF ReadSnapshot, Untouched
    <2>3. d.pc = "check" /\ d.data = file.bytes /\ ~d.repaired
      BY <1>1, <2>1, <2>2 DEF Calls, Phase
    <2>4. Does(b, d)'
      BY <2>2, <2>3 DEF Does, Writing, Shows
    <2> QED BY <1>0, <2>2, <2>4, LooksOnly DEF Writing
  <1>3. CASE ReadDisturbed(w)
    BY <1>3, EndsOnly DEF ReadDisturbed, Untouched, Writing
  <1>4. CASE OpenAbsent(w)
    BY <1>1, <1>4, EndsOnly, AloneBefore DEF OpenAbsent, Untouched, Writing
  <1>5. CASE ConfirmAbsent(w)
    BY <1>5, EndsOnly DEF ConfirmAbsent, Untouched, Writing
  <1>6. CASE Check(w)
    <2>1. c.pc = "check" /\ UNCHANGED file
      BY <1>0, <1>6 DEF Check, Untouched
    <2>2. CASE \E o : Ends(w, o)
      BY <1>0, <2>1, <2>2, EndsOnly DEF Writing
    <2>3. CASE Verdict(c.data) = "repair" /\ Becomes(w, [c EXCEPT !.pc = "precheck", !.began = clock])
      <3>1. PICK d : d = [c EXCEPT !.pc = "precheck", !.began = clock]
        OBVIOUS
      <3>2. d.pc = "precheck" /\ d.data = c.data /\ ~d.repaired
        BY <1>1, <2>1, <3>1 DEF Calls, Phase
      <3>3. c.data = Raw(b)
        BY <1>1, <2>1, <2>3, Encodings DEF Does, Whole
      <3>4. Does(b, d)'
        BY <2>3, <3>2, <3>3 DEF Does, Writing
      <3> QED BY <1>0, <2>1, <2>3, <3>1, <3>4, LooksOnly DEF Writing
    <2> QED BY <1>0, <1>6, <2>2, <2>3 DEF Check
  <1>7. CASE CheckBeforeRepair(w)
    <2>1. c.pc = "precheck" /\ UNCHANGED file
      BY <1>0, <1>7 DEF CheckBeforeRepair, Untouched
    <2>2. CASE \E o : Ends(w, o)
      BY <1>0, <2>1, <2>2, EndsOnly DEF Writing
    <2>3. CASE Becomes(w, [c EXCEPT !.pc = "open", !.checked = clock])
      <3>1. PICK d : d = [c EXCEPT !.pc = "open", !.checked = clock]
        OBVIOUS
      <3>2. d.pc = "open" /\ d.data = c.data /\ ~d.repaired
        BY <1>1, <2>1, <3>1 DEF Calls, Phase
      <3>3. Does(b, d)'
        BY <1>1, <2>1, <3>2 DEF Does, Writing
      <3> QED BY <1>0, <2>1, <2>3, <3>1, <3>3, LooksOnly DEF Writing
    <2> QED BY <1>0, <1>7, <2>2, <2>3 DEF CheckBeforeRepair
  <1>8. ASSUME NEW d, Becomes(w, d), d.pc \in Writing, d.data = Raw(b), Verdict(Raw(b)) = "repair",
               d.handle = file.id, file'.kind = "file", file'.id = file.id,
               file'.bytes \in {Encoded(Raw(b))} \cup Between
        PROVE  Shows(b)' /\ \A q \in Worker : Does(b, worker[q])'
    <2>1. \A q \in Worker : worker'[q] = IF q = w THEN d ELSE worker[q]
      BY <1>1, <1>8 DEF Becomes
    <2>2. \A q \in Worker : Does(b, worker[q])'
      BY <1>8, <2>1 DEF Does, Writing
    <2>3. Shows(b)'
      BY <1>8, <2>1 DEF Shows, Whole
    <2> QED BY <2>2, <2>3
  <1>9. CASE OpenForWrite(w)
    <2>1. /\ c.pc = "open" /\ file' = Holding(Raw("empty"), clock', file.id)
          /\ Becomes(w, [c EXCEPT !.pc = "write", !.handle = file'.id])
      BY <1>0, <1>1, <1>9, AloneBefore DEF OpenForWrite
    <2>2. PICK d : d = [c EXCEPT !.pc = "write", !.handle = file'.id]
      OBVIOUS
    <2>3. file'.kind = "file" /\ file'.id = file.id /\ file'.bytes = Raw("empty")
      BY <2>1 DEF Holding
    <2>4. d.pc = "write" /\ d.data = c.data /\ d.handle = file.id
      BY <1>1, <2>2, <2>3 DEF Calls
    <2> QED BY <1>1, <1>8, <2>1, <2>2, <2>3, <2>4 DEF Does, Writing, Between
  <1>10. ASSUME c.pc \in Writing, NEW whole \in BOOLEAN, Stores(w, whole)
         PROVE  /\ file'.kind = "file" /\ file'.id = file.id
                /\ file'.bytes \in {Encoded(Raw(b))} \cup Between
                /\ whole => file'.bytes = Encoded(Raw(b))
    <2>1. /\ c.data = Raw(b) /\ Verdict(Raw(b)) = "repair" /\ c.handle = file.id
          /\ file.bytes \in {Encoded(Raw(b))} \cup Between
      BY <1>1, <1>10 DEF Does
    <2>2. file' = Holding(Overwritten(file.bytes, Encoded(Raw(b)), whole), clock', file.id)
      BY <1>0, <1>1, <1>10, <2>1 DEF Stores
    <2>3. file'.kind = "file" /\ file'.id = file.id
          /\ file'.bytes = Overwritten(file.bytes, Encoded(Raw(b)), whole)
      BY <2>2 DEF Holding
    <2> QED BY <2>1, <2>3, WritesOver DEF Between
  <1>11. CASE WritePart(w)
    <2>1. c.pc = "write" /\ Stores(w, FALSE) /\ Becomes(w, [c EXCEPT !.pc = "writing"])
      BY <1>0, <1>11, AloneBefore DEF WritePart
    <2>2. PICK d : d = [c EXCEPT !.pc = "writing"]
      OBVIOUS
    <2>3. d.pc = "writing" /\ d.data = c.data /\ d.handle = c.handle
      BY <1>1, <2>2 DEF Calls
    <2> QED BY <1>1, <1>8, <1>10, <2>1, <2>2, <2>3 DEF Does, Writing
  <1>12. CASE WriteAll(w)
    <2>1. c.pc \in Writing /\ Stores(w, TRUE) /\ Becomes(w, [c EXCEPT !.pc = "reread", !.began = clock'])
      BY <1>0, <1>1, <1>12 DEF WriteAll, Writing
    <2>2. PICK d : d = [c EXCEPT !.pc = "reread", !.began = clock']
      OBVIOUS
    <2>3. d.pc = "reread" /\ d.data = c.data
      BY <1>1, <2>2 DEF Calls
    <2>4. file'.kind = "file" /\ file'.id = file.id /\ file'.bytes = Encoded(Raw(b))
      BY <1>10, <2>1
    <2>5. \A q \in Worker : worker'[q] = IF q = w THEN d ELSE worker[q]
      BY <1>1, <2>1, <2>2 DEF Becomes
    <2>6. \A q \in Worker : Does(b, worker[q])'
      BY <1>1, <2>1, <2>3, <2>4, <2>5 DEF Does, Writing
    <2>7. Shows(b)'
      BY <2>4 DEF Shows, Whole
    <2> QED BY <2>6, <2>7
  <1>13. CASE Reread(w)
    <2>1. c.pc = "reread" /\ UNCHANGED file
      BY <1>0, <1>13 DEF Reread, Untouched
    <2>2. CASE \E o : Ends(w, o)
      BY <1>0, <2>1, <2>2, EndsOnly DEF Writing
    <2>3. CASE Becomes(w, [c EXCEPT !.pc = "done", !.outcome = "valid", !.repaired = TRUE, !.proof = Fingerprint(file)])
      <3>1. PICK d : d = [c EXCEPT !.pc = "done", !.outcome = "valid", !.repaired = TRUE, !.proof = Fingerprint(file)]
        OBVIOUS
      <3>2. d.pc = "done"
        BY <1>1, <3>1 DEF Calls
      <3>3. Does(b, d)'
        BY <1>1, <2>1, <3>2 DEF Does, Writing
      <3> QED BY <1>0, <2>1, <2>3, <3>1, <3>3, LooksOnly DEF Writing
    <2> QED BY <1>0, <1>13, <2>2, <2>3 DEF Reread
  <1> QED BY <1>2, <1>3, <1>4, <1>5, <1>6, <1>7, <1>9, <1>11, <1>12, <1>13, AloneBefore DEF Verify

LEMMA ComposesStep == IInv /\ Composes /\ [Next]_vars => Composes'
  <1> SUFFICES ASSUME IInv, Composes, [Next]_vars PROVE Composes'
    OBVIOUS
  <1>1. CASE UNCHANGED vars
    BY <1>1 DEF vars, Composes, Alone, Nowhere, Shows, Does
  <1>2. CASE Change \/ Unlink
    <2>1. changes \in Nat /\ changes' = changes + 1
      BY <1>2, RepairAssumption DEF Change, Unlink, IInv, TypeOK
    <2> QED BY <2>1 DEF Composes, Alone
  <1>3. ASSUME NEW w \in Worker, Verify(w) PROVE Composes'
    <2> SUFFICES ASSUME Alone' PROVE Nowhere' \/ \E b \in Written : Shows(b)' /\ \A q \in Worker : Does(b, worker[q])'
      BY DEF Composes
    <2>1. Alone
      BY <1>3, AloneBefore
    <2>2. CASE Nowhere
      BY <1>3, <2>2, NowhereStays
    <2>3. CASE \E b \in Written : Shows(b) /\ \A q \in Worker : Does(b, worker[q])
      <3>1. PICK b \in Written : Shows(b) /\ \A q \in Worker : Does(b, worker[q])
        BY <2>3
      <3>2. Shows(b)' /\ \A q \in Worker : Does(b, worker[q])'
        BY <1>3, <3>1, RepairStays
      <3> QED BY <3>2
    <2> QED BY <2>1, <2>2, <2>3 DEF Composes
  <1> QED BY <1>1, <1>2, <1>3 DEF Next

\* However many workers repair one image at once, each from its snapshot, they leave
\* it as it was or encoded once, and whole (the two comparisons of save_repaired, and
\* an encoder that writes the same bytes every time).
THEOREM RepairsAreOne == Spec => []RepairsCompose
  <1>1. Composes => RepairsCompose
    <2> SUFFICES ASSUME Composes, AllDone, Alone
                 PROVE  /\ file.kind = "file" => file.bytes.base \in Written /\ file.bytes.encoded <= 1
                        /\ (\E w \in Worker : worker[w].repaired) => file.bytes.encoded = 1
      BY DEF RepairsCompose, Alone
    <2>1. CASE Nowhere
      BY <2>1 DEF Nowhere
    <2>2. ASSUME NEW b \in Written, Shows(b), \A w \in Worker : Does(b, worker[w])
          PROVE  /\ file.bytes.base \in Written /\ file.bytes.encoded <= 1
                 /\ (\E w \in Worker : worker[w].repaired) => file.bytes.encoded = 1
      <3>1. file.bytes \in Whole(b)
        BY <2>2 DEF Shows, Writing, AllDone
      <3>2. ASSUME NEW w \in Worker, worker[w].repaired
            PROVE  file.bytes = Encoded(Raw(b))
        <4>1. file.bytes \in {Encoded(Raw(b))} \cup Between
          BY <2>2, <3>2 DEF Does
        <4>2. Verdict(Raw(b)) = "repair"
          BY <2>2, <3>2 DEF Does
        <4> QED BY <3>1, <4>1, <4>2, Encodings DEF Whole
      <3> QED BY <3>1, <3>2, Encodings DEF Whole
    <2> QED BY <2>1, <2>2 DEF Composes
  <1> QED BY <1>1, Inductive, ComposesInit, ComposesStep, PTL DEF Spec
=============================================================================
