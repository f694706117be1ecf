--------------------------- MODULE WorkerCampaigns ---------------------------
(***************************************************************************)
(* The worker experiments of bench/ and docs/validation/: controllers that *)
(* run a plan of trials, each in a fresh process with a watchdog, and      *)
(* auditors that read what they left.  They are one chain of evidence: the *)
(* series compares worker counts, the audit accepts it, the pilot tries    *)
(* whole startups, the full campaign rests on both, the final audit on     *)
(* all.  Second invocations, interrupts, deaths, slow, stopped and failing *)
(* workers, changes of what the trials must not see changing.              *)
(*                                                                         *)
(* A digest of a trial's report is that report; of a program's, what tells *)
(* apart the reports that are read: whose it is, its outcome and its size. *)
(* Times, statistics, telemetry values and command lines are left out.     *)
(***************************************************************************)
EXTENDS Integers, Sequences, FiniteSets, SequencesExt

CONSTANTS
    Settings,       \* worker counts of the series, in order
    Two,            \* the two of the full campaign, in order
    Pairs,          \* its alternating pairs
    Cases,          \* the pilot's cases: <<workers, mode>>
    MaxTrouble      \* bound: accidental invocations, interrupts, deaths, failing or
                    \* stopped workers, changes of an input or of a trial's report

ASSUME CampaignAssumption ==
    /\ Settings \in Seq(Nat) \ {<<>>} /\ IsInjective(Settings)
    /\ Len(Two) = 2 /\ Two \in Seq(Nat) /\ IsInjective(Two) /\ Pairs \in Nat
    /\ Cases \in Seq(Nat \X {"miss", "hit"})
    /\ MaxTrouble \in Nat

Controllers == {"series", "pilot", "full"}
Auditors == {"audit", "final"}
Program == Controllers \cup Auditors
Subject == [audit |-> "series", final |-> "full"]

RestsOn == [audit |-> "series", pilot |-> "audit", full |-> "pilot", final |-> "full"]

\* Every program may be invoked twice.
Process == Program \X {1, 2}
Runs(c) == c[1]

-----------------------------------------------------------------------------
(* Plans *)

Planned(block, position, workers, mode) ==
    [block |-> block, position |-> position, workers |-> workers, mode |-> mode]
Row(block, order) == [i \in DOMAIN order |-> Planned(block, i, order[i], "hit")]

\* The positions of s in lexicographic order: itertools.permutations.
Before(a, b) == \E i \in DOMAIN a : a[i] < b[i] /\ \A j \in 1..(i - 1) : a[j] = b[j]
Orders(s) ==
    LET orders == {o \in [DOMAIN s -> DOMAIN s] : IsInjective(o)}
        sorted == SetToSortSeq(orders, Before)
    IN  [n \in DOMAIN sorted |-> [i \in DOMAIN s |-> s[sorted[n][i]]]]

\* Sorting gives a sequence: a choice among permutations of the constants, which TLC
\* evaluates and the prover cannot.
ASSUME OrdersAreSequences == Orders(Settings) \in Seq(Seq(Nat))

\* Unmeasured primers (block 0), then every order of the settings.
SeriesPlan ==
    LET orders == Orders(Settings)
    IN  Row(0, Settings) \o FlattenSeq([b \in DOMAIN orders |-> Row(b, orders[b])])

\* Two primers, then alternating pairs.
FullPlan ==
    Row(0, Two) \o FlattenSeq([b \in 1..Pairs |-> Row(b, IF b % 2 = 1 THEN Two ELSE Reverse(Two))])

PilotPlan == [i \in DOMAIN Cases |-> Planned(0, i, Cases[i][1], Cases[i][2])]

PlanOf == [series |-> SeriesPlan, pilot |-> PilotPlan, full |-> FullPlan]

Trial == UNION {{<<p, k>> : k \in DOMAIN PlanOf[p]} : p \in Controllers}
SpecOf(t) == PlanOf[t[1]][t[2]]

-----------------------------------------------------------------------------
(* State *)

\* What the trials use: the sources they run and the controllers' own (the series is
\* one program), the corpus, the installed library and the file
\* that identifies it, the frozen cache, a private cache for each pilot case and
\* for each setting of the campaign.
Harness(p) == <<"harness", p>>
Script(p) == IF p = "series" THEN Harness(p) ELSE <<"script", p>>
Library == <<"library", "installed">>
Identity == <<"library", "identity">>
Original == <<"cache", "original">>
Corpus == <<"corpus", "images and labels">>
CacheOf(t) ==
    CASE t[1] = "series" -> Original
      [] t[1] = "pilot"  -> <<"cache", "pilot", t[2]>>
      [] t[1] = "full"   -> <<"cache", "full", SpecOf(t).workers>>
File == {Library, Identity, Corpus, Original} \cup {Harness(p) : p \in Controllers}
            \cup {Script(p) : p \in Controllers} \cup {CacheOf(t) : t \in Trial}

VARIABLES
    file,           \* "frozen", "changed" or "absent"
    worker,         \* the process of every trial
    raw,            \* its report
    report,         \* the report of every program
    state,          \* the report each invocation has in memory
    pc, index,      \* where each invocation is, and its current trial
    disturbed,      \* invocations that were interrupted or killed
    trouble

vars == <<file, worker, raw, report, state, pc, index, disturbed, trouble>>

\* A report; an auditor's records are its rows.  "frozen" and "binding" are also
\* what the controller compares its trials with.
Nothing == [is |-> "missing"]
Fresh(c) == [is |-> "report", by |-> c, complete |-> FALSE, passed |-> FALSE, records |-> <<>>,
             script |-> "none", frozen |-> "none", binding |-> "none",
             phase |-> Nothing, pilot |-> Nothing]
Passed(r) == r # Nothing /\ r.passed
Digest(r) ==
    IF r = Nothing THEN Nothing
    ELSE [by |-> r.by, complete |-> r.complete, passed |-> r.passed, size |-> Len(r.records)]

NoWorker == [pc |-> "none", by |-> <<"nobody", 1>>, code |-> 0, signal |-> "none", stopped |-> FALSE,
             script |-> "absent", loaded |-> "absent", sees |-> "absent", used |-> "absent",
             corpus |-> "absent"]
Alive(t) == worker[t].pc \notin {"none", "ended"}

\* A trial's report: reserved, failed or passed.
Reserved == [is |-> "reserved"]
Failed == [is |-> "failed"]
Measured(t) == [is |-> "passed", workers |-> SpecOf(t).workers, mode |-> SpecOf(t).mode,
                script |-> worker[t].script, library |-> worker[t].sees, elapsed |-> "measured"]

NewRecord(s) == [spec |-> s, timedOut |-> FALSE, code |-> 1, raw |-> Nothing,
                 validated |-> FALSE, elapsed |-> "none"]

Init ==
    /\ file = [f \in File |->
          IF f = Harness("full") \/ \E t \in Trial :
                 f = CacheOf(t) /\ (t[1] = "full" \/ SpecOf(t).mode = "miss")
          THEN "absent" ELSE "frozen"]
    /\ worker = [t \in Trial |-> NoWorker] /\ raw = [t \in Trial |-> Nothing]
    /\ report = [p \in Program |-> Nothing] /\ state = [c \in Process |-> Fresh(c)]
    /\ pc = [c \in Process |-> "idle"] /\ index = [c \in Process |-> 1]
    /\ disturbed = {} /\ trouble = 0
-----------------------------------------------------------------------------
(* What a step does *)

At(c, place) == pc[c] = place
Goto(c, place) == pc' = [pc EXCEPT ![c] = place]
TrialOf(c) == <<Runs(c), index[c]>>
Record(c) == state[c].records[index[c]]

NoTrouble == UNCHANGED <<disturbed, trouble>>
Trouble == trouble < MaxTrouble /\ trouble' = trouble + 1

\* save: the report in memory replaces the file.
Save(c, r) ==
    /\ state' = [state EXCEPT ![c] = r]
    /\ report' = [report EXCEPT ![Runs(c)] = r]
Remember(c, r) == state' = [state EXCEPT ![c] = r] /\ UNCHANGED report
NoSave == UNCHANGED <<state, report>>

WithRecord(c, rec) == [state[c] EXCEPT !.records[index[c]] = rec]

\* An assertion that does not hold raises.
Raise(c) == Goto(c, "failing")

\* An invocation begins.  One of a program that was invoked before, or before what
\* it rests on has passed, is an accident.
Invoke(c) ==
    /\ At(c, "idle") /\ (c[2] = 2 => pc[<<c[1], 1>>] # "idle")
    /\ IF c[2] = 1 /\ (c[1] = "series" \/ Passed(report[RestsOn[c[1]]]))
       THEN UNCHANGED trouble ELSE Trouble
    /\ Goto(c, "reserve")
    /\ NoSave /\ UNCHANGED <<file, worker, raw, index, disturbed>>

Idle(c) == UNCHANGED <<file, worker, raw, index>> /\ NoTrouble

\* The report of an invocation that begins names its script.
Begun(c) ==
    IF Runs(c) \in Controllers THEN [Fresh(c) EXCEPT !.script = file[Script(Runs(c))]] ELSE Fresh(c)

\* Mutant of Reserve: the report is not opened exclusively, and an existing one
\* is met only by the assertion in main.
ReserveInMain(c) ==
    /\ At(c, "reserve") /\ Runs(c) # "pilot"
    /\ IF report[Runs(c)] = Nothing
       THEN Goto(c, "prepare") /\ Save(c, Begun(c))
       ELSE Raise(c) /\ NoSave
    /\ Idle(c)

\* The report is created exclusively, before the failure handler: if it exists,
\* the invocation ends and changes nothing.
Reserve(c) ==
    /\ At(c, "reserve") /\ Runs(c) # "pilot"
    /\ IF report[Runs(c)] = Nothing
       THEN Goto(c, "prepare") /\ Save(c, Begun(c))
       ELSE Goto(c, "over") /\ NoSave
    /\ Idle(c)

\* The pilot asserts inside its handler that there is no report, and creates
\* none until it has read the plan.
PilotBegins(c) ==
    /\ At(c, "reserve") /\ Runs(c) = "pilot"
    /\ IF report["pilot"] = Nothing THEN Goto(c, "prepare") ELSE Raise(c)
    /\ NoSave /\ Idle(c)

\* The failure handler: the report in memory is saved as complete and failed.
Fail(c) ==
    /\ At(c, "failing") /\ Runs(c) \in Controllers /\ Goto(c, "over")
    /\ Save(c, [state[c] EXCEPT !.complete = TRUE, !.passed = FALSE])
    /\ Idle(c)

\* An auditor writes nothing but its verdict.
AuditFails(c) ==
    /\ At(c, "failing") /\ Runs(c) \in Auditors /\ Goto(c, "over")
    /\ Save(c, [Fresh(c) EXCEPT !.complete = TRUE])
    /\ Idle(c)

-----------------------------------------------------------------------------
(* Preparation *)

\* The script is hashed once more, for the comparison before every trial.
SeriesPrepares(c) ==
    /\ At(c, "prepare") /\ Runs(c) = "series"
    /\ Goto(c, "trial") /\ Remember(c, [state[c] EXCEPT !.frozen = file[Harness("series")]])
    /\ Idle(c)

\* The phase audit must have passed.
PilotPrepares(c) ==
    /\ At(c, "prepare") /\ Runs(c) = "pilot"
    /\ IF Passed(report["audit"])
       THEN /\ Goto(c, "trial")
            /\ Save(c, [state[c] EXCEPT !.phase = Digest(report["audit"]), !.frozen = "frozen"])
       ELSE Raise(c) /\ NoSave
    /\ Idle(c)

\* Mutant of AcceptedPilot: the qualification's own verdict is not read.
PilotOfAnyOutcome(r) ==
    r # Nothing /\ \A k \in DOMAIN r.records : raw[<<"pilot", k>>] = r.records[k].raw

\* A pilot is accepted when it is complete and passed, all its cases are
\* validated, and every raw report is still what was recorded.
AcceptedPilot(r) ==
    /\ Passed(r) /\ r.complete /\ Len(r.records) = Len(PilotPlan)
    /\ \A k \in DOMAIN r.records :
          r.records[k].validated /\ r.records[k].code = 0 /\ raw[<<"pilot", k>>] = r.records[k].raw

FullReads(c) ==
    /\ At(c, "prepare") /\ Runs(c) = "full"
    /\ IF Passed(report["audit"]) /\ AcceptedPilot(report["pilot"])
       THEN Goto(c, "copy") ELSE Raise(c)
    /\ NoSave /\ Idle(c)

FullCopies == {Harness("full")} \cup {CacheOf(t) : t \in {u \in Trial : u[1] = "full"}}

\* The sources and the cache are copied and compared; only then are the digests of
\* the reports read before taken.
FullPrepares(c) ==
    /\ At(c, "copy")
    /\ IF file[Harness("pilot")] = "frozen" /\ file[Original] = "frozen"
          /\ \A f \in FullCopies : file[f] = "absent"
       THEN /\ Goto(c, "trial")
            /\ file' = [f \in File |-> IF f \in FullCopies THEN "frozen" ELSE file[f]]
            /\ Save(c, [state[c] EXCEPT !.phase = Digest(report["audit"]), !.pilot = Digest(report["pilot"]),
                                         !.frozen = "frozen"])
       ELSE Raise(c) /\ NoSave /\ UNCHANGED file
    /\ UNCHANGED <<worker, raw, index>> /\ NoTrouble

-----------------------------------------------------------------------------
(* Trials *)

\* The sources must not have changed; the next trial is recorded before it starts.
Announce(c) ==
    /\ At(c, "trial") /\ index[c] \in DOMAIN PlanOf[Runs(c)]
    /\ IF file[Harness(Runs(c))] = state[c].frozen /\ (Runs(c) = "pilot" => raw[TrialOf(c)] = Nothing)
       THEN /\ Goto(c, "launch")
            /\ Save(c, [state[c] EXCEPT !.records = Append(@, NewRecord(SpecOf(TrialOf(c))))])
       ELSE Raise(c) /\ NoSave
    /\ Idle(c)

\* The log is created exclusively and the worker started in its own session.
Launch(c) ==
    /\ At(c, "launch")
    /\ IF worker[TrialOf(c)].pc = "none"
       THEN Goto(c, "wait") /\ worker' = [worker EXCEPT ![TrialOf(c)].pc = "born", ![TrialOf(c)].by = c]
       ELSE Raise(c) /\ UNCHANGED worker
    /\ NoSave /\ UNCHANGED <<file, raw, index>> /\ NoTrouble

\* wait returns: at first, after SIGTERM or after SIGKILL.
Collected(c) ==
    /\ pc[c] \in {"wait", "term", "kill"} /\ worker[TrialOf(c)].pc = "ended"
    /\ Goto(c, "collect") /\ NoSave /\ Idle(c)

Signal(c, s) == worker' = [worker EXCEPT ![TrialOf(c)].signal = s]

TimesOut(c) ==
    /\ At(c, "wait") /\ Alive(TrialOf(c))
    /\ Goto(c, "term") /\ Signal(c, "term")
    /\ Remember(c, WithRecord(c, [Record(c) EXCEPT !.timedOut = TRUE]))
    /\ UNCHANGED <<file, raw, index>> /\ NoTrouble

\* Mutant of Escalate: the second wait has no timeout, it only returns.
WaitsForever(c) == At(c, "term") /\ Collected(c)

Escalate(c) ==
    /\ At(c, "term") /\ Alive(TrialOf(c))
    /\ Goto(c, "kill") /\ Signal(c, "kill")
    /\ NoSave /\ UNCHANGED <<file, raw, index>> /\ NoTrouble

\* Not even SIGKILL has ended it in time: TimeoutExpired leaves the loop.
GivesUp(c) ==
    /\ At(c, "kill") /\ Alive(TrialOf(c))
    /\ Raise(c) /\ NoSave /\ Idle(c)

\* The exit status and the digests are recorded and saved.  The series needs the
\* raw report, the others take its digest if it exists.
Collect(c) ==
    /\ At(c, "collect")
    /\ IF Runs(c) = "series" /\ raw[TrialOf(c)] = Nothing
       THEN Raise(c) /\ NoSave
       ELSE /\ Goto(c, "validate")
            /\ Save(c, WithRecord(c, [Record(c) EXCEPT
                   !.code = worker[TrialOf(c)].code, !.raw = raw[TrialOf(c)]]))
    /\ Idle(c)

\* Mutant of Trusted: a late answer is an answer.
TrustedLate(c, r) == Record(c).code = 0 /\ r.is = "passed"

\* What is asserted of an exit and of the raw report, read again.
Trusted(c, r) == Record(c).code = 0 /\ ~Record(c).timedOut /\ r.is = "passed"

\* The first trial binds the library of all the others.
Bound(c, r) == IF state[c].binding = "none" THEN r.library ELSE state[c].binding
SeriesAccepts(c, r) ==
    r.workers = Record(c).spec.workers /\ r.library = Bound(c, r) /\ r.script = state[c].frozen
PilotAccepts(c, r) == r.workers = Record(c).spec.workers /\ r.mode = Record(c).spec.mode
FullAccepts(c, r) == PilotAccepts(c, r) /\ r.library = Bound(c, r)

Accepts(c, r) ==
    CASE Runs(c) = "series" -> SeriesAccepts(c, r)
      [] Runs(c) = "pilot"  -> PilotAccepts(c, r)
      [] Runs(c) = "full"   -> FullAccepts(c, r)

Validate(c) ==
    /\ At(c, "validate")
    /\ LET r == raw[TrialOf(c)] IN
       IF Trusted(c, r) /\ Accepts(c, r)
       THEN /\ Goto(c, "trial") /\ index' = [index EXCEPT ![c] = @ + 1]
            /\ Save(c, [WithRecord(c, [Record(c) EXCEPT !.validated = TRUE, !.elapsed = r.elapsed])
                        EXCEPT !.binding = Bound(c, r)])
       ELSE Raise(c) /\ NoSave /\ UNCHANGED index
    /\ UNCHANGED <<file, worker, raw>> /\ NoTrouble

\* The startup programs check the original cache once more.
Finish(c) ==
    /\ At(c, "trial") /\ Runs(c) \in Controllers /\ index[c] = Len(PlanOf[Runs(c)]) + 1
    /\ IF Runs(c) # "series" => file[Original] = "frozen"
       THEN Goto(c, "over") /\ Save(c, [state[c] EXCEPT !.complete = TRUE, !.passed = TRUE])
       ELSE Raise(c) /\ NoSave
    /\ Idle(c)

-----------------------------------------------------------------------------
(* The worker of a trial *)

Become(t, w) == worker' = [worker EXCEPT ![t] = w]
Exit(t, status, left) ==
    Become(t, [worker[t] EXCEPT !.pc = "ended", !.code = status]) /\ raw' = [raw EXCEPT ![t] = left]

\* A step of the worker; its controller and every other program stand still.
Works(t, place) ==
    /\ worker[t].pc = place /\ ~worker[t].stopped
    /\ UNCHANGED <<report, state, pc, index>> /\ NoTrouble

\* The script is hashed and the report created exclusively.
Opens(t) ==
    /\ Works(t, "born")
    /\ IF raw[t] = Nothing
       THEN /\ raw' = [raw EXCEPT ![t] = Reserved]
            /\ Become(t, [worker[t] EXCEPT !.script = file[Harness(t[1])],
                   !.pc = IF t[1] = "series" THEN "import" ELSE "check"])
       ELSE Exit(t, 1, raw[t])
    /\ UNCHANGED file

\* The series imports the library before it checks it, the startup trial after.
Imports(t) ==
    /\ Works(t, "import")
    /\ Become(t, [worker[t] EXCEPT !.loaded = file[Library],
                                   !.pc = IF t[1] = "series" THEN "check" ELSE "read"])
    /\ UNCHANGED <<file, raw>>

CacheIsReady(t) == file[CacheOf(t)] = IF SpecOf(t).mode = "hit" THEN "frozen" ELSE "absent"

\* The installed library is the identified one, the cache the expected one, or none.
Checks(t) ==
    /\ Works(t, "check")
    /\ IF file[Library] = file[Identity] /\ CacheIsReady(t)
       THEN /\ Become(t, [worker[t] EXCEPT !.sees = file[Library],
                                           !.pc = IF t[1] = "series" THEN "verify" ELSE "import"])
            /\ UNCHANGED raw
       ELSE Exit(t, 1, Failed)
    /\ UNCHANGED file

\* The trial of the series reads the cache again and verifies every input against it.
Verifies(t) ==
    /\ Works(t, "verify")
    /\ IF file[Corpus] = "frozen"
       THEN /\ Become(t, [worker[t] EXCEPT !.used = file[CacheOf(t)], !.corpus = "frozen", !.pc = "final"])
            /\ UNCHANGED raw
       ELSE Exit(t, 1, Failed)
    /\ UNCHANGED file

\* The startup trial takes the corpus's fingerprint; a rebuild must find no cache.
Fingerprints(t) ==
    /\ Works(t, "read")
    /\ IF file[Corpus] = "frozen" /\ (SpecOf(t).mode = "miss" => file[CacheOf(t)] = "absent")
       THEN Become(t, [worker[t] EXCEPT !.pc = "start"]) /\ UNCHANGED raw
       ELSE Exit(t, 1, Failed)
    /\ UNCHANGED file

\* The dataset is constructed, from the cache or from the corpus with a new cache.
Starts(t) ==
    /\ Works(t, "start")
    /\ file' = [file EXCEPT ![CacheOf(t)] = IF SpecOf(t).mode = "miss" THEN file[Corpus] ELSE @]
    /\ Become(t, [worker[t] EXCEPT !.used = file'[CacheOf(t)], !.corpus = file[Corpus], !.pc = "final"])
    /\ UNCHANGED raw

\* Mutant of SeriesUnchanged: nothing is checked after the trial.
UncheckedAfter(t) == TRUE

SeriesUnchanged(t) == file[CacheOf(t)] = "frozen" /\ file[Library] = worker[t].sees
StartupUnchanged(t) ==
    /\ SpecOf(t).mode = "hit" => file[CacheOf(t)] = "frozen"
    /\ file[Library] = worker[t].sees /\ file[Identity] = worker[t].sees
    /\ file[Harness(t[1])] = worker[t].script /\ file[Corpus] = "frozen"

Unchanged(t) == IF t[1] = "series" THEN SeriesUnchanged(t) ELSE StartupUnchanged(t)

\* What was checked before is checked again, and the report replaced.
Ends(t) ==
    /\ Works(t, "final")
    /\ IF Unchanged(t) THEN Exit(t, 0, Measured(t)) ELSE Exit(t, 1, Failed)
    /\ UNCHANGED file

\* A stopped process does not see SIGTERM; nothing withstands SIGKILL.
Dies(t) ==
    /\ Alive(t)
    /\ worker[t].signal = "kill" \/ (worker[t].signal = "term" /\ ~worker[t].stopped)
    /\ Exit(t, -1, raw[t])
    /\ UNCHANGED <<file, report, state, pc, index>> /\ NoTrouble

-----------------------------------------------------------------------------
(* The auditors *)

SubjectOf(c) == report[Subject[Runs(c)]]

\* The summary of the series: its outcome, its size, its script, the library and
\* the cache as they are now.
AuditReads(c) ==
    /\ At(c, "prepare") /\ Runs(c) = "audit"
    /\ LET r == report["series"] IN
       IF /\ Passed(r) /\ r.complete /\ Len(r.records) = Len(SeriesPlan)
          /\ r.script = file[Script("series")]
          /\ file[Library] = file[Identity] /\ file[Original] = "frozen"
       THEN Goto(c, "hash") ELSE Raise(c)
    /\ NoSave /\ Idle(c)

\* Mutant of Anchored: the digests of the reports are enough.
AnchoredByDigest(r) == r.phase = Digest(report["audit"]) /\ r.pilot = Digest(report["pilot"])

Anchored(r) ==
    /\ r.phase = Digest(report["audit"]) /\ Passed(report["audit"])
    /\ r.pilot = Digest(report["pilot"]) /\ Passed(report["pilot"])

\* The final audit: also the reports it rests on, by digest and by outcome, and
\* the caches that were kept.
FinalReads(c) ==
    /\ At(c, "prepare") /\ Runs(c) = "final"
    /\ LET r == report["full"] IN
       IF /\ Passed(r) /\ r.complete /\ Len(r.records) = Len(FullPlan)
          /\ r.script = file[Script("full")] /\ file[Harness("full")] = "frozen"
          /\ Anchored(r) /\ file[Library] = file[Identity] /\ file[Original] = "frozen"
          /\ \A t \in Trial : t[1] = "full" => file[CacheOf(t)] = "frozen"
       THEN Goto(c, "hash") ELSE Raise(c)
    /\ NoSave /\ Idle(c)

Recorded(rec, s) == rec.spec = s /\ rec.validated /\ rec.code = 0 /\ ~rec.timedOut

\* Mutant of SameBytes: the raw report is read without its digest.
AnyBytes(r, rec) == TRUE
SameBytes(r, rec) == r = rec.raw

\* A record in its place, and the digest of its raw report.
Hashes(c) ==
    LET p == Subject[Runs(c)]  k == index[c] IN
    /\ At(c, "hash") /\ k \in DOMAIN PlanOf[p]
    /\ IF /\ k \in DOMAIN SubjectOf(c).records /\ Recorded(SubjectOf(c).records[k], PlanOf[p][k])
          /\ SameBytes(raw[<<p, k>>], SubjectOf(c).records[k])
       THEN Goto(c, "row") ELSE Raise(c)
    /\ NoSave /\ Idle(c)

\* The raw report, read again, against the record and the binding.
AuditConsistent(r, rec) ==
    LET series == report["series"] IN
    /\ r.is = "passed" /\ r.workers = rec.spec.workers /\ r.elapsed = rec.elapsed
    /\ r.script = series.script /\ r.library = series.binding /\ r.library = file[Identity]

FinalConsistent(r, rec) ==
    /\ r.is = "passed" /\ r.workers = rec.spec.workers /\ r.mode = "hit" /\ r.elapsed = rec.elapsed
    /\ r.script = file[Harness("full")]
    /\ r.library = report["full"].binding /\ r.library = file[Identity]

Rows(c) ==
    LET k == index[c]  r == raw[<<Subject[Runs(c)], k>>]  rec == SubjectOf(c).records[k] IN
    /\ At(c, "row")
    /\ IF (IF Runs(c) = "audit" THEN AuditConsistent(r, rec) ELSE FinalConsistent(r, rec))
       THEN /\ Goto(c, "hash") /\ index' = [index EXCEPT ![c] = @ + 1]
            /\ Remember(c, [state[c] EXCEPT !.records = Append(@, [spec |-> rec.spec, elapsed |-> r.elapsed])])
       ELSE Raise(c) /\ NoSave /\ UNCHANGED index
    /\ UNCHANGED <<file, worker, raw>> /\ NoTrouble

Accept(c) ==
    /\ At(c, "hash") /\ index[c] = Len(PlanOf[Subject[Runs(c)]]) + 1
    /\ Goto(c, "over") /\ Save(c, [state[c] EXCEPT !.complete = TRUE, !.passed = TRUE])
    /\ Idle(c)

-----------------------------------------------------------------------------
(* What happens to them *)

Elsewhere == UNCHANGED <<report, state, index>>

InHandler == {"prepare", "copy", "trial", "launch", "wait", "term", "kill", "collect",
              "validate", "hash", "row"}

\* Ctrl-C reaches the controller alone: the worker has a session of its own.
Interrupt(c) ==
    /\ pc[c] \in InHandler /\ Trouble
    /\ Raise(c) /\ disturbed' = disturbed \cup {c}
    /\ Elsewhere /\ UNCHANGED <<file, worker, raw>>

Kill(c) ==
    /\ pc[c] \in InHandler \cup {"failing"} /\ Trouble
    /\ Goto(c, "dead") /\ disturbed' = disturbed \cup {c}
    /\ Elsewhere /\ UNCHANGED <<file, worker, raw>>

\* The observer of the full campaign fails or does not stop.
ObserverFails(c) ==
    /\ At(c, "collect") /\ Runs(c) = "full" /\ Trouble
    /\ Raise(c)
    /\ Elsewhere /\ UNCHANGED <<file, worker, raw, disturbed>>

\* A worker raises, or crashes and leaves its report as it is; or it is stopped.
WorkerFails(t) ==
    /\ Alive(t) /\ Trouble
    /\ \/ Exit(t, 1, IF worker[t].pc = "born" THEN raw[t] ELSE Failed)
       \/ Exit(t, -1, raw[t])
    /\ Elsewhere /\ UNCHANGED <<file, pc, disturbed>>

Stop(t) ==
    /\ Alive(t) /\ ~worker[t].stopped /\ Trouble
    /\ Become(t, [worker[t] EXCEPT !.stopped = TRUE])
    /\ Elsewhere /\ UNCHANGED <<file, raw, pc, disturbed>>

\* A file is rewritten, or the library is installed again with its identity.
ChangeFile ==
    /\ Trouble
    /\ \E fs \in {{f} : f \in File \ {Identity}} \cup {{Library, Identity}} :
          /\ \A f \in fs : file[f] = "frozen"
          /\ file' = [f \in File |-> IF f \in fs THEN "changed" ELSE file[f]]
    /\ UNCHANGED <<worker, raw, report, state, pc, index, disturbed>>

\* The report of a trial is damaged after the worker wrote it.
ChangeRaw ==
    /\ Trouble
    /\ \E t \in Trial : raw[t].is = "passed" /\ raw' = [raw EXCEPT ![t].elapsed = "edited"]
    /\ UNCHANGED <<file, worker, report, state, pc, index, disturbed>>

-----------------------------------------------------------------------------
(* Specification *)

Controls(c) ==
    \/ SeriesPrepares(c) \/ PilotPrepares(c) \/ FullReads(c) \/ FullPrepares(c)
    \/ Announce(c) \/ Launch(c) \/ Collected(c) \/ TimesOut(c) \/ Escalate(c) \/ GivesUp(c)
    \/ Collect(c) \/ Validate(c) \/ Finish(c)
Audits(c) == AuditReads(c) \/ FinalReads(c) \/ Hashes(c) \/ Rows(c) \/ Accept(c)
Progress(c) ==
    /\ pc[c] \notin {"idle", "over", "dead"}
    /\ Reserve(c) \/ PilotBegins(c) \/ Controls(c) \/ Audits(c) \/ Fail(c) \/ AuditFails(c)

Works0(t) == Opens(t) \/ Imports(t) \/ Checks(t) \/ Verifies(t) \/ Fingerprints(t) \/ Starts(t) \/ Ends(t)

Next ==
    \/ \E c \in Process : Invoke(c) \/ Progress(c) \/ Interrupt(c) \/ Kill(c) \/ ObserverFails(c)
    \/ \E t \in Trial : Works0(t) \/ Dies(t) \/ WorkerFails(t) \/ Stop(t)
    \/ ChangeFile \/ ChangeRaw

\* The controllers go on, their timeouts included, and the kernel delivers signals.
\* Nothing is assumed of a worker: it may hang.  No invocation has infinitely many
\* steps, so it is enough that some of those that can go on do.
Fairness == WF_vars(\E c \in Process : Progress(c)) /\ WF_vars(\E t \in Trial : Dies(t))

Spec == Init /\ [][Next]_vars /\ Fairness

-----------------------------------------------------------------------------
(* Properties *)

\* A validated trial has exited by itself with status zero before its deadline, and
\* left the report that was recorded; a report that passed is of its whole plan, in
\* order, every trial validated and none run twice (docs/VALIDATION_WORKERS.md, "Any
\* child failure or timeout stops the series. No failed process is retried").
ExitedWell(w) == w.pc = "ended" /\ w.code = 0 /\ w.signal = "none"
PassedIsWholePlan ==
    \A p \in Controllers : report[p] # Nothing =>
        LET r == report[p] IN
        /\ \A k \in DOMAIN r.records : r.records[k].validated =>
              /\ ExitedWell(worker[<<p, k>>]) /\ worker[<<p, k>>].by = r.by
              /\ r.records[k].raw.is = "passed"
        /\ r.passed =>
              /\ [k \in DOMAIN r.records |-> r.records[k].spec] = PlanOf[p]
              /\ \A k \in DOMAIN r.records : r.records[k].validated

\* Every measured trial of a passed report executed the library, read the cache
\* and had the corpus that it names, and all of them the same library: a change, or a new installation,
\* between the moments at which they are read and checked is found
\* (docs/VALIDATION_WORKERS.md, "the same installed native binary").  A primer of the
\* series may have imported another library than it hashed.
Trusts(p, k) == PlanOf[p][k].block > 0 \/ p # "series"
MeasuredUsedTheNamed ==
    \A p \in Controllers : Passed(report[p]) =>
        \A k \in DOMAIN report[p].records : Trusts(p, k) =>
            LET w == worker[<<p, k>>]  r == report[p].records[k].raw IN
            w.loaded = r.library /\ w.used = "frozen" /\ w.corpus = "frozen" /\ (p # "pilot" => w.loaded = report[p].binding)

\* No two trials run at the same time, whoever launched them: no controller begins
\* before the evidence it rests on is complete, none launches a second worker beside
\* one it has lost.
OneWorkerAtATime == Cardinality({t \in Trial : Alive(t)}) <= 1

\* Once an invocation has created the report of a program, no other changes it
\* (run-startup-worker-tuning-full-m2-v1.py, "an accidental second invocation cannot
\* replace an earlier completed or failed campaign"): the series, the full campaign
\* and both audits.
Owned(p) == report[p] # Nothing => report'[p] # Nothing /\ report'[p].by = report[p].by
EarlierReportKept == [][\A p \in Program \ {"pilot"} : Owned(p)]_vars

\* The same of the pilot, which asserts that there is no report.
PilotReportKept == [][Owned("pilot")]_vars

\* An accepted audit summarises what the campaign collected: every row is the value
\* in the bytes whose digest was recorded, although the controller and the auditor
\* both hash a file first and read it later.
SummaryIsCollected ==
    \A a \in Auditors : Passed(report[a]) =>
        LET r == report[Subject[a]] IN
        /\ Len(report[a].records) = Len(PlanOf[Subject[a]])
        /\ \A k \in DOMAIN report[a].records : report[a].records[k].elapsed = r.records[k].raw.elapsed

\* The evidence of an accepted final audit: the pilot that its campaign names passed,
\* on its whole plan, and so did the phase audit, although the pilot's report can be
\* replaced between the moment it is read and the moment its digest is taken.
FinalRestsOnPassed ==
    Passed(report["final"]) =>
        LET r == report["full"] IN
        /\ Passed(r.phase) /\ r.phase.size = Len(SeriesPlan)
        /\ Passed(r.pilot) /\ r.pilot.size = Len(PilotPlan)

\* Every invocation ends in the end, and unless it was interrupted or killed it leaves no worker
\* behind: a worker that hangs, or is stopped and does not see SIGTERM, is killed.
Settled(c) ==
    \/ pc[c] \in {"idle", "dead"}
    \/ pc[c] = "over" /\ (c \in disturbed \/ \A t \in Trial : worker[t].by = c => ~Alive(t))
CampaignEnds == <>[](\A c \in Process : Settled(c))
=============================================================================
