------------------------- MODULE VersionComparison -------------------------
(***************************************************************************)
(* The full comparison of two wheels of the library (bench/ and            *)
(* docs/validation/): a launcher starts the comparison, which runs fresh   *)
(* workers of both versions by turns, rebuilding their caches, then        *)
(* reading caches that separate primers have built; a watcher waits until  *)
(* both have ended and audits what they left; a sealer archives what was   *)
(* accepted and reads it back.  Second invocations, interrupts, deaths,    *)
(* failing workers, changed inputs, damaged caches and edited outputs.     *)
(*                                                                         *)
(* A digest of a file is its contents.  A version's identity stands for    *)
(* its wheel, its sources and the file that names them.  Statistics, times *)
(* other than one number that can be edited, machine facts, command lines  *)
(* and the rejection tests of the auditor are left out.                    *)
(***************************************************************************)
EXTENDS Integers, Sequences, FiniteSets

CONSTANTS
    Rounds,         \* measured pairs of each mode
    MaxMishaps      \* bound: untimely invocations, interrupts, deaths, failing workers,
                    \* changed inputs, damaged caches, edited outputs

ASSUME ComparisonAssumption == Rounds \in Nat \ {0} /\ MaxMishaps \in Nat

Versions == {"baseline", "candidate"}

Turns == {"launch", "watch", "seal"} \X {1, 2}
Comparer == <<"compare", 1>>
Party == Turns \cup {Comparer}
Role(c) == c[1]

-----------------------------------------------------------------------------
(* The plan: the pairs of a mode alternate, and primers precede the hits *)

PairsOf(mode) ==
    [k \in 1..(2 * Rounds) |->
        [mode |-> mode, prime |-> FALSE,
         version |-> IF k % 4 \in {0, 1} THEN "baseline" ELSE "candidate"]]
Priming == [k \in 1..2 |-> [mode |-> "hit", prime |-> TRUE,
                            version |-> IF k = 1 THEN "baseline" ELSE "candidate"]]
WholePlan == PairsOf("miss") \o Priming \o PairsOf("hit")

TrialCount == 4 * Rounds + 2
Slot == 1..TrialCount
PrimerOf(v) == 2 * Rounds + (IF v = "baseline" THEN 1 ELSE 2)

-----------------------------------------------------------------------------
(* State *)

Images == <<"corpus", "images and labels">>
Wrapper == <<"script", "comparison">>
Stage == <<"script", "audit">>
Installed(v) == <<"installed", v>>
IdentityOf(v) == <<"identity", v>>
Input == {Images, Wrapper, Stage} \cup {Installed(v) : v \in Versions} \cup {IdentityOf(v) : v \in Versions}

VARIABLES
    inputs,         \* "frozen" or "changed"
    caches,         \* the cache in each version's directory
    trials,         \* the worker of every trial
    outputs,        \* and the file it leaves
    launching,      \* the launcher's receipt
    logged,         \* who has created the launcher's log
    comparison,     \* the report of the comparison
    qualification,  \* the watcher's receipt
    bundle,         \* the archive
    sealing,        \* the sealer's receipt
    at, turn,       \* where every program is, and its current trial
    held,           \* what it has in memory
    mishaps

disk == <<inputs, caches, trials, outputs>>
papers == <<launching, logged, comparison, qualification, bundle, sealing>>
comparisonVars == <<disk, papers, at, turn, held, mishaps>>

Missing == [is |-> "missing"]
NoParty == <<"nobody", 1>>

\* A cache: the slot whose worker built it (not in its bytes), the library whose
\* profile it names, the corpus it was built from, and whether it was damaged since.
NoCache == [by |-> 0, lib |-> "absent", corpus |-> "absent", whole |-> FALSE]
BytesOf(x) == [x EXCEPT !.by = 0]

Unborn == [pc |-> "none", loaded |-> "absent", sees |-> "absent", used |-> NoCache,
            hit |-> FALSE, out |-> "none", code |-> 0]
Running(k) == trials[k].pc \notin {"none", "ended"}

ComparisonInit ==
    /\ inputs = [f \in Input |-> "frozen"] /\ caches = [v \in Versions |-> NoCache]
    /\ trials = [k \in Slot |-> Unborn] /\ outputs = [k \in Slot |-> Missing]
    /\ launching = Missing /\ logged = NoParty /\ comparison = Missing
    /\ qualification = Missing /\ bundle = Missing /\ sealing = Missing
    /\ at = [c \in Party |-> "idle"] /\ turn = [c \in Party |-> 1]
    /\ held = [c \in Party |-> Missing] /\ mishaps = 0

-----------------------------------------------------------------------------
(* What a step does *)

Is(c, role, step) == Role(c) = role /\ at[c] = step
Goes(c, step) == at' = [at EXCEPT ![c] = step]
Holds(c, x) == held' = [held EXCEPT ![c] = x]

\* A step of a program that changes nothing but the named paper, and its own place.
KeepsTurn == UNCHANGED <<disk, turn, mishaps>>
Mishap == mishaps < MaxMishaps /\ mishaps' = mishaps + 1

NoPaper == UNCHANGED papers
OnlyLaunching == UNCHANGED <<logged, comparison, qualification, bundle, sealing>>
OnlyComparison == UNCHANGED <<launching, logged, qualification, bundle, sealing>>
OnlyQualification == UNCHANGED <<launching, logged, comparison, bundle, sealing>>

\* A program begins.  A second time, or before what it needs, it is a mishap.
Timely(c) ==
    CASE Role(c) = "launch" -> TRUE
      [] Role(c) = "watch"  -> at[Comparer] # "idle"
      [] Role(c) = "seal"   -> qualification # Missing /\ qualification.passed
Begins(c) ==
    /\ c \in Turns /\ at[c] = "idle" /\ (c[2] = 2 => at[<<c[1], 1>>] # "idle")
    /\ IF c[2] = 1 /\ Timely(c) THEN UNCHANGED mishaps ELSE Mishap
    /\ Goes(c, "check")
    /\ NoPaper /\ UNCHANGED <<disk, turn, held>>

-----------------------------------------------------------------------------
(* The launcher *)

Receipt(c) == [is |-> "launch", by |-> c, complete |-> FALSE, code |-> "none", report |-> Missing]

\* There is no report and no receipt yet, and the wrapper is the tested one.
LaunchChecks(c) ==
    /\ Is(c, "launch", "check")
    /\ IF comparison = Missing /\ launching = Missing /\ inputs[Wrapper] = "frozen"
       THEN Goes(c, "announce") ELSE Goes(c, "over")
    /\ NoPaper /\ KeepsTurn /\ UNCHANGED held

\* The receipt is written over whatever is there by now.
Announces(c) ==
    /\ Is(c, "launch", "announce") /\ Goes(c, "open")
    /\ launching' = Receipt(c)
    /\ OnlyLaunching /\ KeepsTurn /\ UNCHANGED held

\* The log is created exclusively, and the comparison started.
OpensLog(c) ==
    /\ Is(c, "launch", "open")
    /\ IF logged = NoParty
       THEN /\ logged' = c
            /\ at' = [at EXCEPT ![c] = "wait", ![Comparer] = "prepare"]
       ELSE Goes(c, "over") /\ UNCHANGED logged
    /\ UNCHANGED <<launching, comparison, qualification, bundle, sealing>> /\ KeepsTurn /\ UNCHANGED held

Returns(c) ==
    /\ Is(c, "launch", "wait") /\ at[Comparer] \in {"done", "over", "dead"}
    /\ launching' = [Receipt(c) EXCEPT !.code = at[Comparer]]
    /\ Goes(c, IF at[Comparer] = "done" THEN "confirm" ELSE "over")
    /\ OnlyLaunching /\ KeepsTurn /\ UNCHANGED held

\* Parity: the output of the first measured worker is that of all.
Expected(r) == r.records[1].value.out

\* The report, complete and of the original reference's output, is bound to the receipt.
WholeReport(r) == r # Missing /\ r.complete /\ Len(r.records) = TrialCount
Confirms(c) ==
    /\ Is(c, "launch", "confirm")
    /\ IF WholeReport(comparison) /\ Expected(comparison) = "reference"
       THEN /\ Goes(c, "done")
            /\ launching' = [Receipt(c) EXCEPT !.code = "done", !.complete = TRUE, !.report = comparison]
       ELSE Goes(c, "over") /\ UNCHANGED launching
    /\ OnlyLaunching /\ KeepsTurn /\ UNCHANGED held

-----------------------------------------------------------------------------
(* The comparison *)

\* Both versions' identities and the wrapper's digest are anchored in a new report.
Prepares ==
    /\ at[Comparer] = "prepare"
    /\ IF comparison = Missing
       THEN /\ Goes(Comparer, "launch")
            /\ comparison' = [is |-> "report", complete |-> FALSE, failed |-> FALSE,
                              script |-> inputs[Wrapper], records |-> <<>>,
                              named |-> [v \in Versions |-> inputs[IdentityOf(v)]]]
       ELSE Goes(Comparer, "over") /\ UNCHANGED comparison
    /\ OnlyComparison /\ KeepsTurn /\ UNCHANGED held

LaunchesTrial ==
    /\ at[Comparer] = "launch" /\ turn[Comparer] \in Slot /\ Goes(Comparer, "wait")
    /\ trials' = [trials EXCEPT ![turn[Comparer]].pc = "born"]
    /\ NoPaper /\ UNCHANGED <<inputs, caches, outputs, turn, held, mishaps>>

\* The worker has ended well: its output is read.
CollectsTrial ==
    /\ at[Comparer] = "wait" /\ trials[turn[Comparer]].pc = "ended"
    /\ IF trials[turn[Comparer]].code = 0 /\ outputs[turn[Comparer]] # Missing
       THEN Goes(Comparer, "record") /\ Holds(Comparer, outputs[turn[Comparer]])
       ELSE Goes(Comparer, "failing") /\ UNCHANGED held
    /\ NoPaper /\ KeepsTurn

\* A value of the planned worker, with the anchored identity and wrapper, and the same
\* output as the others.
AsAnchored(x, k, r) ==
    LET s == WholePlan[k] IN
    /\ x.spec = s /\ x.script = r.script /\ x.identity = r.named[s.version]
    /\ ~s.prime /\ k > 1 => x.out = Expected(r)

Entry(k, x) == [spec |-> WholePlan[k], value |-> x, digest |-> outputs[k]]

\* The primed caches have the same annotations and provenance.
PrimersAgree(r) ==
    r.records[2 * Rounds + 1].value.cache.corpus = r.records[2 * Rounds + 2].value.cache.corpus

\* It is recorded with the digest its file has by now, and the report saved.
RecordsTrial ==
    LET k == turn[Comparer]
        x == held[Comparer]
        r == [comparison EXCEPT !.records = Append(@, Entry(k, x))]
    IN  /\ at[Comparer] = "record"
        /\ IF AsAnchored(x, k, comparison)
           THEN /\ comparison' = r /\ turn' = [turn EXCEPT ![Comparer] = k + 1]
                /\ Goes(Comparer, IF k = 2 * Rounds + 2 => PrimersAgree(r) THEN "launch" ELSE "failing")
           ELSE Goes(Comparer, "failing") /\ UNCHANGED <<comparison, turn>>
        /\ OnlyComparison /\ UNCHANGED <<disk, held, mishaps>>

Completes ==
    /\ at[Comparer] = "launch" /\ turn[Comparer] = TrialCount + 1 /\ Goes(Comparer, "done")
    /\ comparison' = [comparison EXCEPT !.complete = TRUE]
    /\ OnlyComparison /\ KeepsTurn /\ UNCHANGED held

SavesFailure ==
    /\ at[Comparer] = "failing" /\ Goes(Comparer, "over")
    /\ comparison' = [comparison EXCEPT !.failed = TRUE]
    /\ OnlyComparison /\ KeepsTurn /\ UNCHANGED held

-----------------------------------------------------------------------------
(* A worker *)

Version(k) == WholePlan[k].version
Turned(k, w) == trials' = [trials EXCEPT ![k] = w]
Quits(k) == Turned(k, [trials[k] EXCEPT !.pc = "ended", !.code = 1])

\* A step of the worker of slot k: every program stands still.
Proceeds(k, step) ==
    trials[k].pc = step /\ NoPaper /\ UNCHANGED <<inputs, at, turn, held, mishaps>>

\* The library is imported, then compared with what names it.
Loads(k) ==
    /\ Proceeds(k, "born")
    /\ Turned(k, [trials[k] EXCEPT !.loaded = inputs[Installed(Version(k))], !.pc = "describe"])
    /\ UNCHANGED <<caches, outputs>>

\* descriptor, and the profile that is compiled into what was imported.
Describes(k) ==
    LET named == inputs[IdentityOf(Version(k))] IN
    /\ Proceeds(k, "describe")
    /\ IF inputs[Installed(Version(k))] = named /\ trials[k].loaded = named
       THEN Turned(k, [trials[k] EXCEPT !.sees = named, !.pc = "clear"])
       ELSE Quits(k)
    /\ UNCHANGED <<caches, outputs>>

\* Mutant of Clears: a primer keeps the cache that a measured worker has built.
ClearsMisses(k) == WholePlan[k].mode = "miss"

Clears(k) == WholePlan[k].prime \/ WholePlan[k].mode = "miss"

\* The corpus has its fingerprint; the version's cache is removed.
ClearsCache(k) ==
    /\ Proceeds(k, "clear")
    /\ IF inputs[Images] = "frozen"
       THEN /\ Turned(k, [trials[k] EXCEPT !.pc = "construct"])
            /\ caches' = [caches EXCEPT ![Version(k)] = IF Clears(k) THEN NoCache ELSE @]
       ELSE Quits(k) /\ UNCHANGED caches
    /\ UNCHANGED outputs

\* A cache of the version's directory that the imported library accepts.
Serves(x, lib) == x.whole /\ x.lib = lib /\ x.corpus = inputs[Images]

\* Labels that a changed library makes of the corpus may differ.
OutOf(x) == IF x.lib = "frozen" /\ x.corpus = "frozen" THEN {"reference"} ELSE {"reference", "other"}

\* The dataset is constructed, from the cache or by a scan that saves one.
ConstructsDataset(k) ==
    LET w == trials[k]
        old == caches[Version(k)]
        new == IF Serves(old, w.loaded) THEN old
               ELSE [by |-> k, lib |-> w.loaded, corpus |-> inputs[Images], whole |-> TRUE]
    IN  /\ Proceeds(k, "construct")
        /\ caches' = [caches EXCEPT ![Version(k)] = new]
        /\ \E out \in OutOf(new) :
              Turned(k, [w EXCEPT !.used = new, !.hit = Serves(old, w.loaded), !.out = out, !.pc = "confirm"])
        /\ UNCHANGED outputs

\* The corpus is still that of its fingerprint, and the cache was hit or missed as planned.
AsPlanned(k) == WholePlan[k].prime \/ (trials[k].hit <=> WholePlan[k].mode = "hit")
ConfirmsTrial(k) ==
    /\ Proceeds(k, "confirm")
    /\ IF inputs[Images] = "frozen" /\ AsPlanned(k)
       THEN Turned(k, [trials[k] EXCEPT !.pc = "inspect"]) ELSE Quits(k)
    /\ UNCHANGED <<caches, outputs>>

Left(k) == [is |-> "output", spec |-> WholePlan[k], identity |-> trials[k].sees,
            script |-> inputs[Wrapper], cache |-> BytesOf(caches[Version(k)]), out |-> trials[k].out,
            edited |-> FALSE]

\* One whole cache of its own profile, and still the same library: the output is written.
Inspects(k) ==
    LET v == Version(k) IN
    /\ Proceeds(k, "inspect")
    /\ IF /\ caches[v].whole /\ caches[v].lib = trials[k].loaded
          /\ inputs[Installed(v)] = trials[k].sees /\ inputs[IdentityOf(v)] = trials[k].sees
       THEN /\ Turned(k, [trials[k] EXCEPT !.pc = "ended"])
            /\ outputs' = [outputs EXCEPT ![k] = Left(k)]
       ELSE Quits(k) /\ UNCHANGED outputs
    /\ UNCHANGED caches

-----------------------------------------------------------------------------
(* The watcher and its auditor *)

\* The receipt is reserved exclusively, before the failure handler.
WatchReserves(c) ==
    /\ Is(c, "watch", "check")
    /\ IF qualification = Missing
       THEN /\ Goes(c, "look")
            /\ qualification' = [is |-> "qualification", by |-> c, complete |-> FALSE, passed |-> FALSE,
                                 report |-> Missing, launch |-> Missing, script |-> "unread",
                                 stage |-> "unread", caches |-> <<>>, outputs |-> <<>>]
       ELSE Goes(c, "over") /\ UNCHANGED qualification
    /\ OnlyQualification /\ KeepsTurn /\ UNCHANGED held

Finished == {"done", "over", "dead"}
Live(c) == c \in Party /\ at[c] # "idle" /\ at[c] \notin Finished

\* Launcher and comparison are the processes it was told of; the audit's scripts are hashed.
Looks(c) ==
    /\ Is(c, "watch", "look")
    /\ IF Live(logged) /\ Live(Comparer)
       THEN Goes(c, "await") /\ Holds(c, [stage |-> inputs[Stage], caches |-> <<>>, outputs |-> <<>>])
       ELSE Goes(c, "failing") /\ UNCHANGED held
    /\ NoPaper /\ KeepsTurn

Awaits(c) ==
    /\ Is(c, "watch", "await") /\ ~Live(logged) /\ ~Live(Comparer)
    /\ Goes(c, "read")
    /\ NoPaper /\ KeepsTurn /\ UNCHANGED held

\* Mutant of Terminated: that both processes have ended is enough.
TerminatedByExit == launching # Missing /\ comparison # Missing

\* Both receipts are complete, and the report is the one the launcher has confirmed.
Terminated ==
    /\ launching # Missing /\ launching.complete
    /\ WholeReport(comparison) /\ launching.report = comparison

ReadsReceipts(c) ==
    /\ Is(c, "watch", "read")
    /\ IF Terminated /\ inputs[Stage] = held[c].stage
       THEN /\ Goes(c, "caches")
            /\ qualification' = [qualification EXCEPT !.report = comparison, !.launch = launching]
       ELSE Goes(c, "failing") /\ UNCHANGED qualification
    /\ OnlyQualification /\ KeepsTurn /\ UNCHANGED held

\* The anchors are what the report names; both retained caches are whole and alike.
AuditsCaches(c) ==
    /\ Is(c, "watch", "caches")
    /\ IF /\ inputs[Wrapper] = comparison.script
          /\ \A v \in Versions : inputs[IdentityOf(v)] = comparison.named[v] /\ caches[v].whole
          /\ caches["baseline"].corpus = caches["candidate"].corpus
       THEN Goes(c, "rows") /\ Holds(c, [held[c] EXCEPT !.caches = caches])
       ELSE Goes(c, "failing") /\ UNCHANGED held
    /\ NoPaper /\ KeepsTurn

\* A record in its place, its file as it was when it was read and when it was hashed,
\* of the anchored identity, and the cache it left the one that is retained.
Consistent(row, x, k, kept) ==
    LET s == WholePlan[k] IN
    /\ row.spec = s /\ x = row.digest /\ x = row.value /\ x.spec = s
    /\ x.identity = comparison.named[s.version] /\ x.script = comparison.script
    /\ x.cache = BytesOf(kept[s.version])
    /\ ~s.prime => x.out = "reference"

AuditsRow(c) ==
    LET k == turn[c] IN
    /\ Is(c, "watch", "rows") /\ k \in Slot
    /\ IF Consistent(comparison.records[k], outputs[k], k, held[c].caches)
       THEN Goes(c, "digest") ELSE Goes(c, "failing")
    /\ NoPaper /\ KeepsTurn /\ UNCHANGED held

\* The digest the auditor reports is taken once more.
Digests(c) ==
    /\ Is(c, "watch", "digest") /\ Goes(c, "rows")
    /\ Holds(c, [held[c] EXCEPT !.outputs = Append(@, outputs[turn[c]])])
    /\ turn' = [turn EXCEPT ![c] = @ + 1]
    /\ NoPaper /\ UNCHANGED <<disk, mishaps>>

\* The audit is of the report that was read, by the scripts that were staged; the
\* digests of its anchors are taken at its end.
Concludes(c) ==
    /\ Is(c, "watch", "rows") /\ turn[c] = TrialCount + 1
    /\ IF comparison = qualification.report /\ inputs[Stage] = held[c].stage
       THEN /\ Goes(c, "done")
            /\ qualification' = [qualification EXCEPT !.complete = TRUE, !.passed = TRUE, !.stage = inputs[Stage],
                                                      !.script = inputs[Wrapper], !.caches = held[c].caches,
                                                      !.outputs = held[c].outputs]
       ELSE Goes(c, "failing") /\ UNCHANGED qualification
    /\ OnlyQualification /\ KeepsTurn /\ UNCHANGED held

WatchFails(c) ==
    /\ Is(c, "watch", "failing") /\ Goes(c, "over")
    /\ qualification' = [qualification EXCEPT !.complete = TRUE, !.passed = FALSE]
    /\ OnlyQualification /\ KeepsTurn /\ UNCHANGED held

-----------------------------------------------------------------------------
(* The sealer *)

Contents == [is |-> "archive", report |-> comparison, outputs |-> outputs, caches |-> caches]

SameCaches(x, y) == \A v \in Versions : BytesOf(x[v]) = BytesOf(y[v])

\* Every file has the digest the audit, the receipts and the report name.
Gathers(c) ==
    /\ Is(c, "seal", "check")
    /\ IF /\ bundle = Missing /\ sealing = Missing
          /\ qualification # Missing /\ qualification.passed
          /\ Terminated /\ launching = qualification.launch /\ comparison = qualification.report
          /\ \A k \in Slot : outputs[k] = qualification.outputs[k]
          /\ SameCaches(caches, qualification.caches)
          /\ inputs[Stage] = qualification.stage /\ inputs[Wrapper] = qualification.script
          /\ \A v \in Versions : inputs[IdentityOf(v)] = comparison.named[v]
       THEN Goes(c, "pack") /\ Holds(c, Contents)
       ELSE Goes(c, "over") /\ UNCHANGED held
    /\ NoPaper /\ KeepsTurn

\* The archive is created exclusively, of what the files are now.
Packs(c) ==
    /\ Is(c, "seal", "pack")
    /\ IF bundle = Missing
       THEN Goes(c, "readback") /\ bundle' = Contents
       ELSE Goes(c, "over") /\ UNCHANGED bundle
    /\ UNCHANGED <<launching, logged, comparison, qualification, sealing>> /\ KeepsTurn /\ UNCHANGED held

\* Every member is read back and compared with the manifest.
ReadsBack(c) ==
    /\ Is(c, "seal", "readback")
    /\ IF /\ bundle.report = held[c].report /\ bundle.outputs = held[c].outputs
          /\ SameCaches(bundle.caches, held[c].caches) /\ sealing = Missing
       THEN Goes(c, "done") /\ sealing' = [is |-> "sealed", by |-> c]
       ELSE Goes(c, "over") /\ UNCHANGED sealing
    /\ UNCHANGED <<launching, logged, comparison, qualification, bundle>> /\ KeepsTurn /\ UNCHANGED held

-----------------------------------------------------------------------------
(* What happens to them *)

\* subprocess.run kills the child it waits for when it is interrupted; the child's own
\* child goes on.  The comparison and the watcher have failure handlers.
Interrupts(c) ==
    /\ Live(c) /\ at[c] \notin {"check", "failing"} /\ Mishap
    /\ \/ /\ Role(c) = "launch"
          /\ at' = [at EXCEPT ![c] = "over",
                              ![Comparer] = IF at[c] = "wait" /\ Live(Comparer) THEN "dead" ELSE @]
          /\ UNCHANGED trials
       \/ /\ Role(c) = "compare" /\ at[c] # "prepare" /\ Goes(c, "failing")
          /\ trials' = [k \in Slot |->
                IF k = turn[c] /\ at[c] = "wait" /\ Running(k)
                THEN [trials[k] EXCEPT !.pc = "ended", !.code = 1] ELSE trials[k]]
       \/ Role(c) = "watch" /\ Goes(c, "failing") /\ UNCHANGED trials
       \/ Role(c) = "seal" /\ Goes(c, "over") /\ UNCHANGED trials
    /\ NoPaper /\ UNCHANGED <<inputs, caches, outputs, turn, held>>

Killed(c) ==
    /\ Live(c) /\ Mishap /\ Goes(c, "dead")
    /\ NoPaper /\ UNCHANGED <<disk, turn, held>>

TrialFails(k) ==
    /\ Running(k) /\ Mishap /\ Quits(k)
    /\ NoPaper /\ UNCHANGED <<inputs, caches, outputs, at, turn, held>>

\* An input is changed, or a version installed again with its identity.
ChangesInput ==
    /\ Mishap
    /\ \E fs \in {{f} : f \in Input} \cup {{Installed(v), IdentityOf(v)} : v \in Versions} :
          /\ \A f \in fs : inputs[f] = "frozen"
          /\ inputs' = [f \in Input |-> IF f \in fs THEN "changed" ELSE inputs[f]]
    /\ NoPaper /\ UNCHANGED <<caches, trials, outputs, at, turn, held>>

DamagesCache(v) ==
    /\ caches[v].whole /\ Mishap
    /\ caches' = [caches EXCEPT ![v].whole = FALSE]
    /\ NoPaper /\ UNCHANGED <<inputs, trials, outputs, at, turn, held>>

EditsOutput(k) ==
    /\ outputs[k] # Missing /\ ~outputs[k].edited /\ Mishap
    /\ outputs' = [outputs EXCEPT ![k].edited = TRUE]
    /\ NoPaper /\ UNCHANGED <<inputs, caches, trials, at, turn, held>>

-----------------------------------------------------------------------------
(* Specification *)

LaunchSteps(c) == LaunchChecks(c) \/ Announces(c) \/ OpensLog(c) \/ Returns(c) \/ Confirms(c)
Compares == Prepares \/ LaunchesTrial \/ CollectsTrial \/ RecordsTrial \/ Completes \/ SavesFailure
Watches(c) ==
    \/ WatchReserves(c) \/ Looks(c) \/ Awaits(c) \/ ReadsReceipts(c) \/ AuditsCaches(c)
    \/ AuditsRow(c) \/ Digests(c) \/ Concludes(c) \/ WatchFails(c)
Seals(c) == Gathers(c) \/ Packs(c) \/ ReadsBack(c)
Measures(k) ==
    \/ Loads(k) \/ Describes(k) \/ ClearsCache(k) \/ ConstructsDataset(k)
    \/ ConfirmsTrial(k) \/ Inspects(k)

ComparisonNext ==
    \/ Compares
    \/ \E c \in Turns : Begins(c) \/ LaunchSteps(c) \/ Watches(c) \/ Seals(c)
    \/ \E c \in Party : Interrupts(c) \/ Killed(c)
    \/ \E k \in Slot : Measures(k) \/ TrialFails(k) \/ EditsOutput(k)
    \/ ChangesInput \/ \E v \in Versions : DamagesCache(v)

ComparisonSpec == ComparisonInit /\ [][ComparisonNext]_comparisonVars

-----------------------------------------------------------------------------
(* Properties *)

\* The auditor reads the retained caches and results only when no measured process
\* is left (qualify-snapshot-after-startup-v2.py, "Never ... reads full-size caches
\* before the measured processes have terminated"), although the watcher knows two
\* processes and a worker survives the death of both.
AuditedAlone ==
    \A c \in Turns : Role(c) = "watch" /\ at[c] \in {"caches", "rows", "digest"} =>
        ~Live(Comparer) /\ \A k \in Slot : ~Running(k)

\* A sealed archive holds a comparison of the versions it names: every worker of the
\* plan ended well with the library of its version, on the corpus; a rebuild built its
\* own cache, a hit read the one that the separate primer of its version had built
\* (bench/cache_startup.py, "Timed hit workers never prime their own cache"), and that
\* one is in the archive, whole.
SealedIsMeasured ==
    sealing # Missing =>
        LET r == bundle.report IN
        /\ WholeReport(r)
        /\ \A k \in Slot :
              LET w == trials[k]  v == Version(k) IN
              /\ r.records[k].spec = WholePlan[k] /\ w.pc = "ended" /\ w.code = 0
              /\ w.loaded = r.named[v] /\ w.used.lib = r.named[v] /\ w.used.corpus = "frozen"
              /\ w.used.by = IF WholePlan[k].mode = "miss" THEN k ELSE PrimerOf(v)
              /\ r.records[k].value.out = w.out
        /\ \A v \in Versions : bundle.caches[v].by = PrimerOf(v) /\ bundle.caches[v].whole
=============================================================================
