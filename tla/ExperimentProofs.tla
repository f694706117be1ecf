--------------------------- MODULE ExperimentProofs ---------------------------
(***************************************************************************)
(* Proofs about the experiments with the library.                          *)
(*                                                                         *)
(* The worker experiments (WorkerCampaigns), for any plans and any number  *)
(* of accidents: what a passed report says, that a reserved report has one *)
(* writer, that an accepted final audit rests on evidence that passed, and *)
(* that one worker is alive at most.                                       *)
(*                                                                         *)
(* The comparison of two wheels (VersionComparison), for any number of     *)
(* rounds and of mishaps: that the audit has the machine to itself, and    *)
(* what a sealed archive says.                                             *)
(***************************************************************************)
EXTENDS WorkerCampaigns, VersionComparison, FiniteSetTheorems, SequenceTheorems, TLAPS

-----------------------------------------------------------------------------
(* Plans *)

\* What SequenceFacts says of joined sequences; it has no fold to say anything of here.
Blocks == INSTANCE SequenceFacts WITH op <- Row, base <- 0

Plan == [block : Nat, position : Nat, workers : Nat, mode : {"miss", "hit"}]
HitPlan == [block : Nat, position : Nat, workers : Nat, mode : {"hit"}]

\* One trial for every setting.
LEMMA RowType ==
    ASSUME NEW b \in Nat, NEW order \in Seq(Nat)
    PROVE  /\ Row(b, order) \in Seq(HitPlan) /\ Len(Row(b, order)) = Len(order)
           /\ \A i \in 1..Len(order) : Row(b, order)[i].block = b
<1>1. \A i \in DOMAIN order : Planned(b, i, order[i], "hit") \in HitPlan
  BY DEF Planned, HitPlan
<1>2. \A i \in DOMAIN order : Planned(b, i, order[i], "hit").block = b
  BY DEF Planned
<1> QED BY <1>1, <1>2 DEF Row

\* The blocks of a plan, one after another.
LEMMA BlocksType ==
    ASSUME NEW n \in Nat, NEW rows \in [1..n -> Seq(HitPlan)]
    PROVE  FlattenSeq(rows) \in Seq(HitPlan)
<1>1. rows \in Seq(Seq(HitPlan))
  OBVIOUS
<1>2. Blocks!FlattenSeq(rows) \in Seq(HitPlan)
  BY <1>1, Blocks!FlattenType
<1> QED BY <1>2 DEF Blocks!FlattenSeq, FlattenSeq

\* The plan of the series: it reads a cache, and begins with a trial that is not
\* measured.
LEMMA SeriesPlanType ==
    /\ SeriesPlan \in Seq(HitPlan)
    /\ SeriesPlan[1].block = 0
<1> DEFINE orders == Orders(Settings)
<1> DEFINE rows == [b \in DOMAIN orders |-> Row(b, orders[b])]
<1>1. orders \in Seq(Seq(Nat)) /\ DOMAIN orders = 1..Len(orders) /\ Len(orders) \in Nat
  BY OrdersAreSequences
<1>2. \A b \in DOMAIN orders : Row(b, orders[b]) \in Seq(HitPlan)
  BY <1>1, RowType
<1>3. FlattenSeq(rows) \in Seq(HitPlan)
  BY <1>1, <1>2, BlocksType
<1>4. /\ Row(0, Settings) \in Seq(HitPlan) /\ Len(Row(0, Settings)) = Len(Settings)
      /\ \A i \in 1..Len(Settings) : Row(0, Settings)[i].block = 0
  BY RowType, CampaignAssumption
<1>5. SeriesPlan = Row(0, Settings) \o FlattenSeq(rows)
  BY DEF SeriesPlan
<1>6. Len(Settings) \in Nat /\ Len(Settings) # 0
  BY CampaignAssumption
<1> HIDE DEF rows
<1>7. SeriesPlan \in Seq(HitPlan)
  BY <1>3, <1>4, <1>5
<1>8. SeriesPlan[1].block = 0
  <2>1. 1 \in 1..Len(Settings)
    BY <1>6
  <2>2. SeriesPlan[1] = Row(0, Settings)[1]
    BY <1>3, <1>4, <1>5, <2>1
  <2> QED BY <1>4, <2>1, <2>2
<1> QED BY <1>7, <1>8

\* The plan of the full campaign.
LEMMA FullPlanType == FullPlan \in Seq(HitPlan)
<1> DEFINE order(b) == IF b % 2 = 1 THEN Two ELSE Reverse(Two)
<1> DEFINE rows == [b \in 1..Pairs |-> Row(b, order(b))]
<1>1. Two \in Seq(Nat) /\ Len(Two) = 2 /\ Pairs \in Nat
  BY CampaignAssumption
<1>2. Reverse(Two) \in Seq(Nat)
  BY <1>1 DEF Reverse
<1>3. \A b \in 1..Pairs : order(b) \in Seq(Nat) /\ b \in Nat
  BY <1>1, <1>2
<1> HIDE DEF order
<1>4. \A b \in 1..Pairs : Row(b, order(b)) \in Seq(HitPlan)
  BY <1>3, RowType
<1>5. FlattenSeq(rows) \in Seq(HitPlan)
  BY <1>1, <1>4, BlocksType
<1>6. Row(0, Two) \in Seq(HitPlan)
  BY <1>1, RowType
<1>7. FullPlan = Row(0, Two) \o FlattenSeq(rows)
  BY DEF FullPlan, order
<1> HIDE DEF rows
<1> QED BY <1>5, <1>6, <1>7

\* Every plan is a sequence of trials; the series and the full campaign only read a
\* cache.
LEMMA PlansAreSequences ==
    \A p \in Controllers :
        PlanOf[p] \in Seq([block : Nat, position : Nat, workers : Nat, mode : {"miss", "hit"}])
<1>1. HitPlan \subseteq Plan
  BY DEF HitPlan, Plan
<1>2. SeriesPlan \in Seq(Plan) /\ FullPlan \in Seq(Plan)
  BY <1>1, SeriesPlanType, FullPlanType, SeqMonotonic
<1>3. PilotPlan \in Seq(Plan)
  <2>1. Cases \in Seq(Nat \X {"miss", "hit"})
    BY CampaignAssumption
  <2>2. ASSUME NEW i \in DOMAIN Cases PROVE Planned(0, i, Cases[i][1], Cases[i][2]) \in Plan
    <3>1. i \in Nat /\ Cases[i] \in Nat \X {"miss", "hit"}
      BY <2>1
    <3>2. Cases[i][1] \in Nat /\ Cases[i][2] \in {"miss", "hit"}
      BY <3>1
    <3> QED BY <3>1, <3>2 DEF Planned, Plan
  <2> QED BY <2>1, <2>2 DEF PilotPlan
<1> QED BY <1>2, <1>3 DEF PlanOf, Controllers, Plan

-----------------------------------------------------------------------------
(* Types *)

Owning == InHandler \cup {"failing"}
Places == {"idle", "reserve", "over", "dead"} \cup Owning
Before1 == {"idle", "reserve", "prepare", "copy"}
Launched == {"wait", "term", "kill", "collect", "validate"}
Trying == {"launch"} \cup Launched

FileState == {"frozen", "changed", "absent"}
Statuses == {0, 1, -1}
PassedRaw ==
    [is : {"passed"}, workers : {SpecOf(t).workers : t \in Trial}, mode : {SpecOf(t).mode : t \in Trial},
     script : FileState, library : FileState, elapsed : {"measured", "edited"}]
RawType == {Nothing, Reserved, Failed} \cup PassedRaw
RecordType ==
    [spec : {SpecOf(t) : t \in Trial}, timedOut : BOOLEAN, code : Statuses, raw : RawType,
     validated : BOOLEAN, elapsed : {"none", "measured", "edited"}]
WorkerType ==
    [pc : {"none", "born", "import", "check", "verify", "read", "start", "final", "ended"},
     by : Process \cup {<<"nobody", 1>>}, code : Statuses, signal : {"none", "term", "kill"},
     stopped : BOOLEAN, script : FileState, loaded : FileState, sees : FileState,
     used : FileState, corpus : FileState]

\* A report; its records, digests and bindings are of any kind.
IsReport(r) ==
    r \in [is : {"report"}, by : Process, complete : BOOLEAN, passed : BOOLEAN,
           records : {r.records}, script : {r.script}, frozen : {r.frozen},
           binding : {r.binding}, phase : {r.phase}, pilot : {r.pilot}]

Types ==
    /\ file \in [File -> FileState] /\ worker \in [Trial -> WorkerType] /\ raw \in [Trial -> RawType]
    /\ pc \in [Process -> Places] /\ index \in [Process -> Nat \ {0}]
    /\ state = [c \in Process |-> state[c]] /\ report = [p \in Program |-> report[p]]

-----------------------------------------------------------------------------
(* The inductive invariant *)

\* A report r of the controller c, with the workers w: its validated trials exited
\* well, and it passed only as a whole.
Good(c, r, w) ==
    /\ r.records \in Seq(RecordType)
    /\ \A k \in DOMAIN r.records : r.records[k].validated =>
          /\ <<Runs(c), k>> \in Trial
          /\ ExitedWell(w[<<Runs(c), k>>]) /\ w[<<Runs(c), k>>].by = c
          /\ r.records[k].raw.is = "passed"
    /\ r.passed =>
          /\ [k \in DOMAIN r.records |-> r.records[k].spec] = PlanOf[Runs(c)]
          /\ \A k \in DOMAIN r.records : r.records[k].validated

\* What an invocation has in memory.
Memory(c, r, w) == IsReport(r) /\ r.by = c /\ (Runs(c) \in Controllers => Good(c, r, w))

\* Where it is in its plan.
Position(c, place, i, r) ==
    /\ place \in Trying \cup {"trial", "copy"} => Runs(c) \in Controllers
    /\ place \in {"hash", "row"} => Runs(c) \in Auditors
    /\ Runs(c) \in Controllers =>
          /\ place \in Before1 => r.records = <<>> /\ i = 1
          /\ place = "trial" => Len(r.records) = i - 1
          /\ place \in Trying => Len(r.records) = i /\ i \in DOMAIN PlanOf[Runs(c)]
          /\ place \in Trying \cup {"trial"} => \A k \in DOMAIN r.records :
                /\ k < i <=> r.records[k].validated
                /\ k \in DOMAIN PlanOf[Runs(c)] /\ r.records[k].spec = PlanOf[Runs(c)][k]
          /\ place # "over" => ~r.passed

\* What it knows of the worker it has launched, t being the trial and x its report.
Waiting(c, place, rec, w, x) ==
    /\ w.by = c /\ w.pc # "none" /\ (w.signal # "none" => rec.timedOut)
    /\ place \in {"term", "kill"} => rec.timedOut
    /\ place \in {"collect", "validate"} => w.pc = "ended"
    /\ place = "validate" => rec.code = w.code /\ (x.is = "passed" => rec.raw.is = "passed")

\* A reserved report belongs to the invocation that goes on.
Reserves(c, place, rep) ==
    place \in Owning /\ Runs(c) # "pilot" => rep # Nothing /\ rep.by = c

Filed(p, rep, w) ==
    rep # Nothing =>
        /\ IsReport(rep) /\ Runs(rep.by) = p
        /\ p \in Controllers => Good(rep.by, rep, w)

CampaignInv ==
    /\ Types
    /\ \A t \in Trial : worker[t].pc = "none" => worker[t].signal = "none"
    /\ \A c \in Process :
          /\ Memory(c, state[c], worker) /\ Position(c, pc[c], index[c], state[c])
          /\ pc[c] \in Launched => Waiting(c, pc[c], Record(c), worker[TrialOf(c)], raw[TrialOf(c)])
          /\ Reserves(c, pc[c], report[Runs(c)])
    /\ \A p \in Program : Filed(p, report[p], worker)

-----------------------------------------------------------------------------
(* Reports *)

LEMMA ReportUpdates ==
    ASSUME NEW r, IsReport(r), NEW v, NEW b \in BOOLEAN, NEW i
    PROVE  /\ LET q == [r EXCEPT !.records[i] = v]
              IN  IsReport(q) /\ q.by = r.by /\ q.passed = r.passed /\ q.records = [r.records EXCEPT ![i] = v]
           /\ LET q == [r EXCEPT !.records = v]
              IN  IsReport(q) /\ q.by = r.by /\ q.passed = r.passed /\ q.records = v
           /\ LET q == [r EXCEPT !.complete = TRUE, !.passed = b]
              IN  IsReport(q) /\ q.by = r.by /\ q.passed = b /\ q.records = r.records
           /\ LET q == [r EXCEPT !.complete = TRUE]
              IN  IsReport(q) /\ q.by = r.by /\ q.passed = r.passed /\ q.records = r.records
           /\ LET q == [r EXCEPT !.frozen = v]
              IN  IsReport(q) /\ q.by = r.by /\ q.passed = r.passed /\ q.records = r.records
           /\ LET q == [r EXCEPT !.script = v]
              IN  IsReport(q) /\ q.by = r.by /\ q.passed = r.passed /\ q.records = r.records
           /\ LET q == [r EXCEPT !.phase = v]
              IN  IsReport(q) /\ q.by = r.by /\ q.passed = r.passed /\ q.records = r.records
           /\ LET q == [r EXCEPT !.pilot = v]
              IN  IsReport(q) /\ q.by = r.by /\ q.passed = r.passed /\ q.records = r.records
           /\ LET q == [r EXCEPT !.binding = v]
              IN  IsReport(q) /\ q.by = r.by /\ q.passed = r.passed /\ q.records = r.records
BY DEF IsReport

LEMMA FreshReport ==
    ASSUME NEW c \in Process
    PROVE  /\ IsReport(Fresh(c)) /\ Fresh(c).by = c /\ ~Fresh(c).passed /\ Fresh(c).records = <<>>
           /\ Memory(c, Fresh(c), worker)
BY DEF Fresh, IsReport, Memory, Good

LEMMA ReportIsThere ==
    ASSUME NEW r, IsReport(r)
    PROVE  r # Nothing
BY DEF IsReport, Nothing

LEMMA TrialIn ==
    ASSUME NEW p \in Controllers, NEW k \in DOMAIN PlanOf[p]
    PROVE  <<p, k>> \in Trial
BY DEF Trial

LEMMA ProcessRuns ==
    ASSUME NEW c \in Process
    PROVE  Runs(c) \in Program
BY DEF Process, Runs

-----------------------------------------------------------------------------
(* Two kinds of steps *)

\* Workers go on: what ended stays, nobody takes over a worker.
Onward ==
    \A t \in Trial :
        /\ worker[t].pc = "ended" =>
              worker'[t] = worker[t] /\ (raw'[t].is = "passed" <=> raw[t].is = "passed")
        /\ worker[t].pc # "none" => worker'[t].pc # "none" /\ worker'[t].by = worker[t].by
        /\ worker'[t].pc = "none" => worker'[t] = worker[t]

LEMMA GoodStays ==
    ASSUME Onward, NEW c, NEW r, Good(c, r, worker)
    PROVE  Good(c, r, worker')
BY DEF Onward, Good, ExitedWell

LEMMA MemoryStays ==
    ASSUME Onward, NEW c, NEW r, Memory(c, r, worker)
    PROVE  Memory(c, r, worker')
BY GoodStays DEF Memory

\* A step of an invocation c: where it is, its trial and its report may change, the
\* report may be saved, and its worker signalled.
LEMMA InvocationStep ==
    ASSUME CampaignInv, NEW c \in Process, NEW place \in Places, NEW i \in Nat \ {0}, NEW r,
           pc' = [pc EXCEPT ![c] = place], index' = [index EXCEPT ![c] = i],
           state' = [state EXCEPT ![c] = r],
           \/ report' = report
           \/ /\ report' = [report EXCEPT ![Runs(c)] = r]
              /\ Runs(c) = "pilot" \/ report[Runs(c)] = Nothing \/ pc[c] \in Owning,
           file' \in [File -> FileState], worker' \in [Trial -> WorkerType],
           raw' \in [Trial -> RawType], Onward,
           \A t \in Trial : worker'[t].signal = worker[t].signal \/ worker[t].by = c,
           Memory(c, r, worker'), Position(c, place, i, r),
           place \in Launched =>
               Waiting(c, place, r.records[i], worker'[<<Runs(c), i>>], raw'[<<Runs(c), i>>]),
           place \in Owning /\ Runs(c) # "pilot" => report' # report \/ pc[c] \in Owning
    PROVE  CampaignInv'
<1> USE DEF CampaignInv
<1>0. \A u \in Process : Runs(u) \in Program
    BY ProcessRuns
<1>1. Types'
    BY <1>0 DEF Types
<1>2. \A t \in Trial : worker'[t].pc = "none" => worker'[t].signal = "none"
    BY DEF Onward
<1>3. /\ pc'[c] = place /\ index'[c] = i /\ state'[c] = r
      /\ \A u \in Process : u # c => pc'[u] = pc[u] /\ index'[u] = index[u] /\ state'[u] = state[u]
    BY DEF Types
<1>4. IsReport(r) /\ r.by = c /\ r # Nothing
    BY ReportIsThere DEF Memory
<1>5. \A p \in Program : report'[p] = report[p] \/ (p = Runs(c) /\ report'[p] = r)
    BY <1>0 DEF Types
<1>6. \A u \in Process : Memory(u, state'[u], worker')
    BY <1>3, MemoryStays
<1>7. \A u \in Process : Position(u, pc'[u], index'[u], state'[u])
    BY <1>3
<1>8. ASSUME NEW u \in Process, pc'[u] \in Launched
      PROVE  Waiting(u, pc'[u], state'[u].records[index'[u]], worker'[<<Runs(u), index'[u]>>],
                     raw'[<<Runs(u), index'[u]>>])
  <2>1. CASE u = c
    BY <1>3, <1>8, <2>1
  <2>2. CASE u # c
    <3> DEFINE t == <<Runs(u), index[u]>>
    <3>1. pc'[u] = pc[u] /\ index'[u] = index[u] /\ state'[u] = state[u]
      BY <1>3, <2>2
    <3>2. Waiting(u, pc[u], state[u].records[index[u]], worker[t], raw[t])
      BY <1>8, <3>1 DEF Record, TrialOf
    <3>3. t \in Trial
      BY <1>8, <3>1, TrialIn DEF Position, Trying
    <3>4. worker'[t].signal = worker[t].signal
      BY <2>2, <3>2, <3>3 DEF Waiting
    <3>5. Waiting(u, pc[u], state[u].records[index[u]], worker'[t], raw'[t])
      BY <3>2, <3>3, <3>4 DEF Waiting, Onward
    <3> QED BY <3>1, <3>5
  <2> QED BY <2>1, <2>2
<1>9. \A u \in Process : Reserves(u, pc'[u], report'[Runs(u)])
  <2> SUFFICES ASSUME NEW u \in Process, pc'[u] \in Owning, Runs(u) # "pilot"
               PROVE  report'[Runs(u)] # Nothing /\ report'[Runs(u)].by = u
    BY DEF Reserves
  <2>1. CASE u # c
    BY <1>0, <1>3, <1>4, <1>5, <2>1 DEF Reserves
  <2>2. CASE u = c /\ report' = report
    BY <1>3, <2>2 DEF Reserves
  <2>3. CASE u = c /\ report' = [report EXCEPT ![Runs(c)] = r]
    BY <1>0, <1>4, <2>3 DEF Types
  <2> QED BY <2>1, <2>2, <2>3
<1>10. \A p \in Program : Filed(p, report'[p], worker')
  <2> SUFFICES ASSUME NEW p \in Program PROVE Filed(p, report'[p], worker')
    OBVIOUS
  <2>1. CASE report'[p] = report[p]
    BY <2>1, GoodStays DEF Filed
  <2>2. CASE p = Runs(c) /\ report'[p] = r
    BY <1>4, <2>2 DEF Filed, Memory
  <2> QED BY <1>5, <2>1, <2>2
<1> QED BY <1>1, <1>2, <1>6, <1>7, <1>8, <1>9, <1>10 DEF Record, TrialOf

\* A step of a worker or of its environment.
LEMMA WorkerStep ==
    ASSUME CampaignInv, UNCHANGED <<pc, index, state, report>>,
           file' \in [File -> FileState], worker' \in [Trial -> WorkerType],
           raw' \in [Trial -> RawType], Onward,
           \A t \in Trial : worker'[t].signal = worker[t].signal
    PROVE  CampaignInv'
<1> USE DEF CampaignInv
<1>1. Types'
    BY DEF Types
<1>2. \A t \in Trial : worker'[t].pc = "none" => worker'[t].signal = "none"
    BY DEF Onward
<1>3. \A u \in Process : Memory(u, state'[u], worker')
    BY MemoryStays
<1>4. \A u \in Process : Position(u, pc'[u], index'[u], state'[u])
    OBVIOUS
<1>5. ASSUME NEW u \in Process, pc[u] \in Launched
      PROVE  Waiting(u, pc[u], state[u].records[index[u]], worker'[<<Runs(u), index[u]>>],
                     raw'[<<Runs(u), index[u]>>])
  <2> DEFINE t == <<Runs(u), index[u]>>
  <2>1. Waiting(u, pc[u], state[u].records[index[u]], worker[t], raw[t])
    BY <1>5 DEF Record, TrialOf
  <2>2. t \in Trial
    BY <1>5, TrialIn DEF Position, Trying
  <2> QED BY <2>1, <2>2 DEF Waiting, Onward
<1>6. \A u \in Process : Reserves(u, pc'[u], report'[Runs(u)])
    OBVIOUS
<1>7. \A p \in Program : Filed(p, report'[p], worker')
    BY GoodStays DEF Filed
<1> QED BY <1>1, <1>2, <1>3, <1>4, <1>5, <1>6, <1>7 DEF Record, TrialOf

-----------------------------------------------------------------------------
(* Steps that only move an invocation *)

\* Nothing is saved, and no worker moves.
LEMMA QuietStep ==
    ASSUME CampaignInv, NEW c \in Process, NEW place \in Places, pc' = [pc EXCEPT ![c] = place],
           UNCHANGED <<index, state, report, worker, raw>>, file' \in [File -> FileState],
           Position(c, place, index[c], state[c]),
           place \in Launched => Waiting(c, place, Record(c), worker[TrialOf(c)], raw[TrialOf(c)]),
           place \in Owning /\ Runs(c) # "pilot" => pc[c] \in Owning
    PROVE  CampaignInv'
<1> USE DEF CampaignInv
<1>1. /\ index' = [index EXCEPT ![c] = index[c]] /\ state' = [state EXCEPT ![c] = state[c]]
      /\ index[c] \in Nat \ {0}
    BY DEF Types
<1>2. worker' \in [Trial -> WorkerType] /\ raw' \in [Trial -> RawType] /\ Onward
    BY DEF Types, Onward
<1>3. Memory(c, state[c], worker')
    OBVIOUS
<1> QED BY <1>1, <1>2, <1>3, InvocationStep DEF Record, TrialOf

\* Wherever an invocation is, it can leave its plan.
LEMMA LeavingStep ==
    ASSUME CampaignInv, NEW c \in Process, NEW place \in {"failing", "dead"},
           pc[c] \in Owning \/ (place = "failing" /\ Runs(c) = "pilot" /\ pc[c] # "over"),
           pc' = [pc EXCEPT ![c] = place],
           UNCHANGED <<index, state, report, worker, raw, file>>
    PROVE  CampaignInv'
<1>1. Position(c, place, index[c], state[c])
    BY DEF CampaignInv, Position, Trying, Launched, Before1, Owning, InHandler
<1>2. place \in Places /\ place \notin Launched /\ file' \in [File -> FileState]
    BY DEF CampaignInv, Types, Places, Owning, Launched
<1>3. place \in Owning /\ Runs(c) # "pilot" => pc[c] \in Owning
    OBVIOUS
<1> QED BY <1>1, <1>2, <1>3, QuietStep

LEMMA LeavesKeep ==
    ASSUME CampaignInv, NEW c \in Process,
           Interrupt(c) \/ Kill(c) \/ ObserverFails(c) \/ GivesUp(c)
    PROVE  CampaignInv'
BY LeavingStep DEF Interrupt, Kill, ObserverFails, GivesUp, At, Goto, Raise, NoSave, Idle, Elsewhere,
                   Owning, InHandler

\* The steps to a place where nothing is known but what was.
LEMMA MovesKeep ==
    ASSUME CampaignInv, NEW c \in Process,
           Invoke(c) \/ PilotBegins(c) \/ FullReads(c) \/ AuditReads(c) \/ FinalReads(c) \/ Hashes(c)
    PROVE  CampaignInv'
<1> USE DEF At, Goto, NoSave, Idle
<1>1. file \in [File -> FileState] /\ Position(c, pc[c], index[c], state[c])
    BY DEF CampaignInv, Types
<1>2. CASE Raise(c) /\ ~Invoke(c)
  <2>1. pc[c] \in Owning \/ (Runs(c) = "pilot" /\ pc[c] # "over")
    BY <1>2 DEF PilotBegins, FullReads, AuditReads, FinalReads, Hashes, Owning, InHandler
  <2>2. UNCHANGED <<index, state, report, worker, raw, file>>
    BY <1>2 DEF PilotBegins, FullReads, AuditReads, FinalReads, Hashes
  <2> QED BY <1>2, <2>1, <2>2, LeavingStep DEF Raise
<1>3. CASE Invoke(c)
    BY <1>1, <1>3, QuietStep DEF Invoke, Position, Places, Owning, InHandler, Trying, Launched, Before1
<1>4. CASE PilotBegins(c) /\ Goto(c, "prepare")
    BY <1>1, <1>4, QuietStep DEF PilotBegins, Position, Places, Owning, InHandler, Trying, Launched, Before1
<1>5. CASE FullReads(c) /\ Goto(c, "copy")
  <2>1. Position(c, "copy", index[c], state[c])
    BY <1>1, <1>5 DEF FullReads, Position, Controllers, Trying, Launched, Before1
  <2> QED BY <1>1, <1>5, <2>1, QuietStep DEF FullReads, Places, Owning, InHandler, Launched
<1>6. CASE (AuditReads(c) \/ FinalReads(c)) /\ Goto(c, "hash")
  <2>1. Position(c, "hash", index[c], state[c])
    BY <1>1, <1>6 DEF AuditReads, FinalReads, Position, Controllers, Auditors, Trying, Launched, Before1
  <2> QED BY <1>1, <1>6, <2>1, QuietStep DEF AuditReads, FinalReads, Places, Owning, InHandler, Launched
<1>7. CASE Hashes(c) /\ Goto(c, "row")
  <2>1. Position(c, "row", index[c], state[c])
    BY <1>1, <1>7 DEF Hashes, Position, Controllers, Auditors, Trying, Launched, Before1
  <2> QED BY <1>1, <1>7, <2>1, QuietStep DEF Hashes, Places, Owning, InHandler, Launched
<1> QED BY <1>2, <1>3, <1>4, <1>5, <1>6, <1>7
        DEF PilotBegins, FullReads, AuditReads, FinalReads, Hashes

LEMMA CollectedKeeps ==
    ASSUME CampaignInv, NEW c \in Process, Collected(c)
    PROVE  CampaignInv'
<1> USE DEF At, Goto, NoSave, Idle, Collected
<1>1. file \in [File -> FileState] /\ Position(c, pc[c], index[c], state[c])
    BY DEF CampaignInv, Types
<1>2. Position(c, "collect", index[c], state[c])
    BY <1>1 DEF Position, Trying, Launched, Before1
<1>3. Waiting(c, "collect", Record(c), worker[TrialOf(c)], raw[TrialOf(c)])
    BY DEF CampaignInv, Launched, Waiting
<1> QED BY <1>1, <1>2, <1>3, QuietStep DEF Places, Owning, InHandler

-----------------------------------------------------------------------------
(* Steps that change a report and no worker *)

LEMMA SaveStep ==
    ASSUME CampaignInv, NEW c \in Process, NEW place \in Places \ Launched, NEW i \in Nat \ {0}, NEW r,
           pc' = [pc EXCEPT ![c] = place], index' = [index EXCEPT ![c] = i],
           \/ Remember(c, r) /\ pc[c] \in Owning
           \/ /\ Save(c, r)
              /\ Runs(c) = "pilot" \/ report[Runs(c)] = Nothing \/ pc[c] \in Owning,
           UNCHANGED <<worker, raw>>, file' \in [File -> FileState],
           Memory(c, r, worker), Position(c, place, i, r)
    PROVE  CampaignInv'
<1>1. worker' \in [Trial -> WorkerType] /\ raw' \in [Trial -> RawType] /\ Onward
    BY DEF CampaignInv, Types, Onward
<1>2. state' = [state EXCEPT ![c] = r]
    BY DEF Save, Remember
<1>3. \/ report' = report
      \/ /\ report' = [report EXCEPT ![Runs(c)] = r]
         /\ Runs(c) = "pilot" \/ report[Runs(c)] = Nothing \/ pc[c] \in Owning
    BY DEF Save, Remember
<1>4. place \in Owning /\ Runs(c) # "pilot" => report' # report \/ pc[c] \in Owning
  <2>1. CASE Save(c, r) /\ report[Runs(c)] = Nothing
    <3>1. report'[Runs(c)] = r /\ r # Nothing
      BY <2>1, ProcessRuns, ReportIsThere DEF Save, Memory, CampaignInv, Types
    <3> QED BY <2>1, <3>1
  <2> QED BY <2>1
<1>5. Memory(c, r, worker')
    OBVIOUS
<1>6. \A t \in Trial : worker'[t].signal = worker[t].signal
    OBVIOUS
<1> QED BY <1>1, <1>2, <1>3, <1>4, <1>5, <1>6, InvocationStep

\* What the invariant says of one invocation.
LEMMA OfInvocation ==
    ASSUME CampaignInv, NEW c \in Process
    PROVE  /\ IsReport(state[c]) /\ state[c].by = c /\ Memory(c, state[c], worker)
           /\ Position(c, pc[c], index[c], state[c])
           /\ Runs(c) \in Controllers => Good(c, state[c], worker)
           /\ index[c] \in Nat \ {0} /\ index = [index EXCEPT ![c] = index[c]]
           /\ Runs(c) \in Program /\ file \in [File -> FileState]
BY ProcessRuns DEF CampaignInv, Types, Memory

\* A report that keeps its records and does not pass is as good as it was.
LEMMA MemoryKept ==
    ASSUME NEW c \in Process, NEW r, NEW q, Memory(c, r, worker), IsReport(q), q.by = r.by,
           q.records = r.records, q.passed = r.passed \/ ~q.passed
    PROVE  Memory(c, q, worker)
BY DEF Memory, Good

\* The report of an invocation that ends, and the two that begin with digests.
LEMMA ClosedReport ==
    ASSUME NEW r, IsReport(r)
    PROVE  /\ LET q == [r EXCEPT !.complete = TRUE, !.passed = FALSE]
              IN  IsReport(q) /\ q.by = r.by /\ ~q.passed /\ q.records = r.records
           /\ LET q == [r EXCEPT !.complete = TRUE, !.passed = TRUE]
              IN  IsReport(q) /\ q.by = r.by /\ q.passed /\ q.records = r.records
           /\ LET q == [r EXCEPT !.complete = TRUE]
              IN  IsReport(q) /\ q.by = r.by /\ q.passed = r.passed /\ q.records = r.records
BY DEF IsReport

LEMMA PilotReport ==
    ASSUME NEW r, IsReport(r), NEW v
    PROVE  LET q == [r EXCEPT !.phase = v, !.frozen = "frozen"]
           IN  IsReport(q) /\ q.by = r.by /\ q.passed = r.passed /\ q.records = r.records
BY DEF IsReport

WithDigests(r, v, w) == [r EXCEPT !.phase = v, !.pilot = w, !.frozen = "frozen"]

LEMMA FullReport ==
    ASSUME NEW r, IsReport(r), NEW v, NEW w
    PROVE  LET q == WithDigests(r, v, w)
           IN  IsReport(q) /\ q.by = r.by /\ q.passed = r.passed /\ q.records = r.records
BY DEF IsReport, WithDigests

LEMMA ReserveKeeps ==
    ASSUME CampaignInv, NEW c \in Process, Reserve(c)
    PROVE  CampaignInv'
<1> USE DEF At, Goto, NoSave, Idle, Reserve
<1> DEFINE r == Begun(c)
<1>1. IsReport(r) /\ r.by = c /\ ~r.passed /\ r.records = <<>>
  <2>1. CASE Runs(c) \in Controllers
    BY <2>1, FreshReport DEF Begun, IsReport
  <2>2. CASE Runs(c) \notin Controllers
    BY <2>2, FreshReport DEF Begun
  <2> QED BY <2>1, <2>2
<1>2. Memory(c, r, worker)
    BY <1>1 DEF Memory, Good
<1>3. Position(c, pc[c], index[c], state[c]) /\ pc[c] = "reserve"
    BY OfInvocation
<1>4. CASE report[Runs(c)] = Nothing
  <2>1. Save(c, r) /\ pc' = [pc EXCEPT ![c] = "prepare"]
    BY <1>4
  <2>2. Position(c, "prepare", index[c], r)
    BY <1>1, <1>3 DEF Position, Trying, Launched, Before1
  <2>3. "prepare" \in Places \ Launched
    BY DEF Places, Launched, Owning, InHandler
  <2> HIDE DEF r
  <2> QED BY <1>2, <1>4, <2>1, <2>2, <2>3, OfInvocation, SaveStep
<1>5. CASE report[Runs(c)] # Nothing
  <2>1. Position(c, "over", index[c], state[c])
    BY <1>3 DEF Position, Trying, Launched, Before1
  <2>2. "over" \in Places /\ "over" \notin Launched \cup Owning
    BY DEF Places, Launched, Owning, InHandler
  <2> QED BY <1>5, <2>1, <2>2, OfInvocation, QuietStep
<1> QED BY <1>4, <1>5

LEMMA FailsKeep ==
    ASSUME CampaignInv, NEW c \in Process, Fail(c) \/ AuditFails(c)
    PROVE  CampaignInv'
<1> USE DEF At, Goto, Idle
<1>1. pc[c] \in Owning /\ "over" \in Places \ Launched
    BY DEF Fail, AuditFails, Places, Launched, Owning, InHandler
<1>2. ASSUME NEW r PROVE Position(c, "over", index[c], r)
    BY DEF Position, Trying, Launched, Before1
<1>3. CASE Fail(c)
  <2> DEFINE r == [state[c] EXCEPT !.complete = TRUE, !.passed = FALSE]
  <2>0. IsReport(r) /\ r.by = c /\ r.records = state[c].records /\ ~r.passed
    BY OfInvocation, ClosedReport, Zenon
  <2>1. Save(c, r)
    BY <1>3, Zenon DEF Fail
  <2> HIDE DEF r
  <2>2. Memory(c, r, worker)
    BY <2>0, OfInvocation, MemoryKept
  <2> QED BY <1>1, <1>2, <1>3, <2>1, <2>2, OfInvocation, SaveStep DEF Fail
<1>4. CASE AuditFails(c)
  <2> DEFINE r == [Fresh(c) EXCEPT !.complete = TRUE]
  <2>0. IsReport(r) /\ r.by = c /\ r.records = Fresh(c).records /\ r.passed = Fresh(c).passed
    BY FreshReport, ClosedReport, Zenon
  <2>1. Save(c, r)
    BY <1>4, Zenon DEF AuditFails
  <2> HIDE DEF r
  <2>2. Memory(c, r, worker)
    BY <2>0, FreshReport, MemoryKept
  <2> QED BY <1>1, <1>2, <1>4, <2>1, <2>2, OfInvocation, SaveStep DEF AuditFails
<1> QED BY <1>3, <1>4

\* The three preparations change neither the records nor the outcome.
LEMMA PreparesKeep ==
    ASSUME CampaignInv, NEW c \in Process, SeriesPrepares(c) \/ PilotPrepares(c) \/ FullPrepares(c)
    PROVE  CampaignInv'
<1> USE DEF At, Goto, Idle, NoSave
<1>0. pc[c] \in {"prepare", "copy"} /\ pc[c] \in Owning
    BY DEF SeriesPrepares, PilotPrepares, FullPrepares, Owning, InHandler
<1>1. CASE Raise(c) /\ NoSave /\ UNCHANGED <<index, worker, raw, file>>
    BY <1>0, <1>1, LeavingStep DEF Raise
<1>2. ASSUME NEW r, Remember(c, r) \/ Save(c, r), pc' = [pc EXCEPT ![c] = "trial"],
             IsReport(r), r.by = state[c].by, r.records = state[c].records, r.passed = state[c].passed,
             UNCHANGED <<index, worker, raw>>, file' \in [File -> FileState], Runs(c) \in Controllers
      PROVE  CampaignInv'
  <2>1. Memory(c, r, worker)
    BY <1>2, OfInvocation, MemoryKept
  <2>2. Position(c, "trial", index[c], r)
    BY <1>0, <1>2, OfInvocation DEF Position, Trying, Launched, Before1
  <2>3. "trial" \in Places \ Launched
    BY DEF Places, Launched, Owning, InHandler
  <2> QED BY <1>0, <1>2, <2>1, <2>2, <2>3, OfInvocation, SaveStep
<1>3. CASE SeriesPrepares(c)
  <2> DEFINE r == [state[c] EXCEPT !.frozen = file[Harness("series")]]
  <2>1. IsReport(r) /\ r.by = state[c].by /\ r.records = state[c].records /\ r.passed = state[c].passed
    BY OfInvocation DEF IsReport
  <2>2. Remember(c, r) /\ Runs(c) \in Controllers
    BY <1>3 DEF SeriesPrepares, Controllers
  <2> HIDE DEF r
  <2> QED BY <1>2, <1>3, <2>1, <2>2, OfInvocation DEF SeriesPrepares
<1>4. CASE PilotPrepares(c)
  <2> DEFINE r == [state[c] EXCEPT !.phase = Digest(report["audit"]), !.frozen = "frozen"]
  <2>1. IsReport(r) /\ r.by = state[c].by /\ r.records = state[c].records /\ r.passed = state[c].passed
    BY OfInvocation, PilotReport, Zenon
  <2>2. Runs(c) \in Controllers /\ UNCHANGED <<index, worker, raw, file>>
    BY <1>4 DEF PilotPrepares, Controllers
  <2>3. CASE Save(c, r) /\ Goto(c, "trial")
    <3> HIDE DEF r
    <3> QED BY <1>2, <2>1, <2>2, <2>3, OfInvocation
  <2>4. CASE Raise(c) /\ NoSave
    BY <1>1, <2>2, <2>4
  <2> QED BY <1>4, <2>3, <2>4, Zenon DEF PilotPrepares
<1>5. CASE FullPrepares(c)
  <2> DEFINE r == WithDigests(state[c], Digest(report["audit"]), Digest(report["pilot"]))
  <2>1. IsReport(r) /\ r.by = state[c].by /\ r.records = state[c].records /\ r.passed = state[c].passed
    BY OfInvocation, FullReport
  <2>2. Runs(c) \in Controllers
    BY <1>5, OfInvocation DEF FullPrepares, Position
  <2>3. CASE Save(c, r) /\ Goto(c, "trial")
    <3>1. file' \in [File -> FileState]
      BY <1>5, OfInvocation DEF FullPrepares, FileState
    <3> HIDE DEF r
    <3> QED BY <1>2, <1>5, <2>1, <2>2, <2>3, <3>1 DEF FullPrepares
  <2> QED BY <1>1, <1>5, <2>3 DEF FullPrepares, WithDigests
<1> QED BY <1>3, <1>4, <1>5

LEMMA RowsKeeps ==
    ASSUME CampaignInv, NEW c \in Process, Rows(c)
    PROVE  CampaignInv'
<1> USE DEF At, Goto, Idle, NoSave
<1>1. pc[c] = "row" /\ pc[c] \in Owning /\ Runs(c) \notin Controllers
  <2>1. pc[c] = "row" /\ Runs(c) \in Auditors
    BY OfInvocation DEF Rows, Position
  <2> QED BY <2>1 DEF Auditors, Controllers, Owning, InHandler
<1>2. CASE Raise(c) /\ NoSave /\ UNCHANGED index
    BY <1>1, <1>2, LeavingStep DEF Raise, Rows
<1>3. CASE /\ Goto(c, "hash") /\ index' = [index EXCEPT ![c] = @ + 1]
           /\ \E rec, r : Remember(c, [state[c] EXCEPT !.records = Append(@, [spec |-> rec.spec, elapsed |-> r.elapsed])])
  <2>1. PICK q : Remember(c, q) /\ IsReport(q) /\ q.by = c
    <3>1. PICK rec, r : Remember(c, [state[c] EXCEPT !.records = Append(@, [spec |-> rec.spec, elapsed |-> r.elapsed])])
      BY <1>3
    <3> DEFINE v == Append(state[c].records, [spec |-> rec.spec, elapsed |-> r.elapsed])
               q == [state[c] EXCEPT !.records = v]
    <3>2. Remember(c, q)
      BY <3>1
    <3> HIDE DEF v
    <3>3. IsReport(q) /\ q.by = c
      BY OfInvocation DEF IsReport
    <3> QED BY <3>2, <3>3
  <2>2. Memory(c, q, worker)
    BY <1>1, <2>1 DEF Memory
  <2>3. Position(c, "hash", index[c] + 1, q)
    BY <1>1, OfInvocation DEF Position, Trying, Launched, Before1
  <2>4. "hash" \in Places \ Launched /\ index[c] + 1 \in Nat \ {0} /\ index' = [index EXCEPT ![c] = index[c] + 1]
    BY <1>3, OfInvocation DEF Places, Launched, Owning, InHandler
  <2>5. UNCHANGED <<worker, raw>> /\ file' \in [File -> FileState]
    BY OfInvocation DEF Rows
  <2> QED BY <1>1, <1>3, <2>1, <2>2, <2>3, <2>4, <2>5, SaveStep
<1> QED BY <1>2, <1>3 DEF Rows

LEMMA AcceptKeeps ==
    ASSUME CampaignInv, NEW c \in Process, Accept(c)
    PROVE  CampaignInv'
<1> USE DEF At, Goto, Idle
<1> DEFINE r == [state[c] EXCEPT !.complete = TRUE, !.passed = TRUE]
<1>1. pc[c] = "hash" /\ pc[c] \in Owning /\ Runs(c) \notin Controllers
  <2>1. pc[c] = "hash" /\ Runs(c) \in Auditors
    BY OfInvocation DEF Accept, Position
  <2> QED BY <2>1 DEF Auditors, Controllers, Owning, InHandler
<1>2. IsReport(r) /\ r.by = c
    BY OfInvocation, ClosedReport, Zenon
<1>3. Save(c, r)
    BY Zenon DEF Accept
<1> HIDE DEF r
<1>4. Memory(c, r, worker)
    BY <1>1, <1>2 DEF Memory
<1>5. Position(c, "over", index[c], r) /\ "over" \in Places \ Launched
    BY DEF Position, Trying, Launched, Before1, Places
<1> QED BY <1>1, <1>3, <1>4, <1>5, OfInvocation, SaveStep DEF Accept

\* A whole plan has been validated when the next trial would be one too many.
LEMMA FinishKeeps ==
    ASSUME CampaignInv, NEW c \in Process, Finish(c)
    PROVE  CampaignInv'
<1> USE DEF At, Goto, Idle, NoSave
<1>1. pc[c] = "trial" /\ pc[c] \in Owning /\ Runs(c) \in Controllers /\ index[c] = Len(PlanOf[Runs(c)]) + 1
    BY DEF Finish, Owning, InHandler
<1>2. CASE Raise(c) /\ NoSave
    BY <1>1, <1>2, LeavingStep DEF Raise, Finish
<1>3. CASE Save(c, [state[c] EXCEPT !.complete = TRUE, !.passed = TRUE]) /\ Goto(c, "over")
  <2> DEFINE s == state[c].records
             plan == PlanOf[Runs(c)]
             r == [state[c] EXCEPT !.complete = TRUE, !.passed = TRUE]
  <2>1. IsReport(r) /\ r.by = c /\ r.records = s
    BY OfInvocation, ClosedReport, Zenon
  <2>2. Save(c, r)
    BY <1>3, Zenon
  <2> HIDE DEF r
  <2>3. s \in Seq(RecordType) /\ Len(s) = index[c] - 1
    BY <1>1, OfInvocation DEF Good, Position
  <2>4. \A k \in DOMAIN s : s[k].validated /\ s[k].spec = plan[k]
    BY <1>1, <2>3, OfInvocation DEF Position
  <2>5. [k \in DOMAIN s |-> s[k].spec] = plan
    <3>1. plan \in Seq([block : Nat, position : Nat, workers : Nat, mode : {"miss", "hit"}])
      BY <1>1, PlansAreSequences
    <3>2. DOMAIN s = 1..Len(plan) /\ plan = [k \in 1..Len(plan) |-> plan[k]]
      BY <1>1, <2>3, <3>1
    <3> QED BY <2>4, <3>2
  <2>6. Good(c, state[c], worker)
    BY <1>1, OfInvocation
  <2>7. Memory(c, r, worker)
    BY <2>1, <2>4, <2>5, <2>6 DEF Memory, Good
  <2>8. Position(c, "over", index[c], r) /\ "over" \in Places \ Launched
    BY DEF Position, Trying, Launched, Before1, Places
  <2> QED BY <1>1, <1>3, <2>2, <2>7, <2>8, OfInvocation, SaveStep DEF Finish
<1> QED BY <1>2, <1>3 DEF Finish

-----------------------------------------------------------------------------
(* The steps of a trial *)

\* What the invariant says of the trial of an invocation.
LEMMA OfTrial ==
    ASSUME CampaignInv, NEW c \in Process, pc[c] \in Trying
    PROVE  /\ Runs(c) \in Controllers /\ index[c] \in DOMAIN PlanOf[Runs(c)] /\ TrialOf(c) \in Trial
           /\ state[c].records \in Seq(RecordType) /\ Len(state[c].records) = index[c]
           /\ index[c] \in DOMAIN state[c].records /\ Record(c) \in RecordType
           /\ pc[c] \in Owning /\ worker[TrialOf(c)] \in WorkerType /\ raw[TrialOf(c)] \in RawType
           /\ ~state[c].passed /\ Record(c).spec = PlanOf[Runs(c)][index[c]] /\ ~Record(c).validated
           /\ pc[c] \in Launched => Waiting(c, pc[c], Record(c), worker[TrialOf(c)], raw[TrialOf(c)])
<1>1. Position(c, pc[c], index[c], state[c]) /\ index[c] \in Nat \ {0}
    BY OfInvocation
<1>2. Runs(c) \in Controllers
    BY <1>1 DEF Position
<1>3. Len(state[c].records) = index[c] /\ index[c] \in DOMAIN PlanOf[Runs(c)]
    BY <1>1, <1>2 DEF Position
<1>4. Good(c, state[c], worker)
    BY <1>2, OfInvocation
<1>5. state[c].records \in Seq(RecordType)
    BY <1>4 DEF Good
<1>6. index[c] \in DOMAIN state[c].records /\ Record(c) \in RecordType
    BY <1>1, <1>3, <1>5 DEF Record
<1>7. TrialOf(c) \in Trial
    BY <1>2, <1>3, TrialIn DEF TrialOf
<1>8. worker[TrialOf(c)] \in WorkerType /\ raw[TrialOf(c)] \in RawType
    BY <1>7 DEF CampaignInv, Types
<1>9. pc[c] # "over" /\ pc[c] \in Owning
    BY DEF Trying, Launched, Owning, InHandler
<1>10. ~state[c].passed
    BY <1>1, <1>2, <1>9 DEF Position
<1>11. Record(c).spec = PlanOf[Runs(c)][index[c]] /\ ~Record(c).validated
    BY <1>1, <1>2, <1>6 DEF Position, Record
<1>12. pc[c] \in Launched => Waiting(c, pc[c], Record(c), worker[TrialOf(c)], raw[TrialOf(c)])
    BY DEF CampaignInv
<1> QED BY <1>2, <1>3, <1>5, <1>6, <1>7, <1>8, <1>9, <1>10, <1>11, <1>12

\* The record of the current trial is rewritten.
LEMMA RecordRewritten ==
    ASSUME CampaignInv, NEW c \in Process, pc[c] \in Trying, NEW rec \in RecordType,
           rec.spec = Record(c).spec,
           rec.validated => /\ ExitedWell(worker[TrialOf(c)]) /\ worker[TrialOf(c)].by = c
                            /\ rec.raw.is = "passed",
           NEW q, IsReport(q), q.by = c, ~q.passed, q.records = [state[c].records EXCEPT ![index[c]] = rec]
    PROVE  /\ Memory(c, q, worker) /\ q.records[index[c]] = rec
           /\ Len(q.records) = index[c] /\ index[c] \in Nat \ {0}
           /\ \A k \in DOMAIN q.records :
                 /\ k < index[c] => q.records[k].validated
                 /\ k \in DOMAIN PlanOf[Runs(c)] /\ q.records[k].spec = PlanOf[Runs(c)][k]
                 /\ k < index[c] \/ k = index[c]
<1> DEFINE s == state[c].records
<1>1. /\ s \in Seq(RecordType) /\ Len(s) = index[c] /\ index[c] \in DOMAIN s
      /\ Runs(c) \in Controllers /\ index[c] \in Nat \ {0}
    BY OfTrial, OfInvocation
<1>2. /\ q.records \in Seq(RecordType) /\ Len(q.records) = index[c] /\ DOMAIN q.records = DOMAIN s
      /\ q.records[index[c]] = rec /\ \A k \in DOMAIN s : k # index[c] => q.records[k] = s[k]
    BY <1>1
<1>3. Good(c, state[c], worker) /\ Position(c, pc[c], index[c], state[c])
    BY <1>1, OfInvocation
<1>4. Good(c, q, worker)
  <2> SUFFICES ASSUME NEW k \in DOMAIN q.records, q.records[k].validated
               PROVE  /\ <<Runs(c), k>> \in Trial
                      /\ ExitedWell(worker[<<Runs(c), k>>]) /\ worker[<<Runs(c), k>>].by = c
                      /\ q.records[k].raw.is = "passed"
    BY <1>2 DEF Good
  <2>1. CASE k = index[c]
    BY <1>2, <2>1, OfTrial DEF TrialOf
  <2>2. CASE k # index[c]
    <3>1. q.records[k] = s[k] /\ k \in DOMAIN s
      BY <1>2, <2>2
    <3> QED BY <1>3, <3>1 DEF Good
  <2> QED BY <2>1, <2>2
<1>5. \A k \in DOMAIN q.records :
          /\ k < index[c] => q.records[k].validated
          /\ k \in DOMAIN PlanOf[Runs(c)] /\ q.records[k].spec = PlanOf[Runs(c)][k]
          /\ k < index[c] \/ k = index[c]
    BY <1>1, <1>2, <1>3, OfTrial DEF Position, Record
<1> QED BY <1>1, <1>2, <1>4, <1>5 DEF Memory

LEMMA RecordClosed ==
    ASSUME CampaignInv, NEW c \in Process, pc[c] \in Trying, NEW rec \in RecordType,
           rec.spec = Record(c).spec, rec.validated,
           ExitedWell(worker[TrialOf(c)]), worker[TrialOf(c)].by = c, rec.raw.is = "passed",
           NEW q, IsReport(q), q.by = c, ~q.passed, q.records = [state[c].records EXCEPT ![index[c]] = rec]
    PROVE  Memory(c, q, worker) /\ Position(c, "trial", index[c] + 1, q)
<1>1. /\ Memory(c, q, worker) /\ q.records[index[c]] = rec
      /\ Len(q.records) = index[c] /\ index[c] \in Nat \ {0}
      /\ \A k \in DOMAIN q.records :
            /\ k < index[c] => q.records[k].validated
            /\ k \in DOMAIN PlanOf[Runs(c)] /\ q.records[k].spec = PlanOf[Runs(c)][k]
            /\ k < index[c] \/ k = index[c]
    BY RecordRewritten
<1>2. \A k \in DOMAIN q.records : q.records[k].validated /\ k < index[c] + 1
  <2>1. q.records \in Seq(RecordType)
    BY <1>1, OfTrial DEF Memory, Good
  <2> QED BY <1>1, <2>1
<1>3. Runs(c) \in Controllers
    BY OfTrial
<1>4. "trial" \notin Before1 \cup Trying \cup {"hash", "row", "over"}
    BY DEF Trying, Launched, Before1
<1> QED BY <1>1, <1>2, <1>3, <1>4 DEF Position

LEMMA TrialRecord ==
    ASSUME CampaignInv, NEW c \in Process, pc[c] \in Trying, NEW rec
    PROVE  LET q == WithRecord(c, rec)
           IN  IsReport(q) /\ q.by = c /\ ~q.passed /\ q.records = [state[c].records EXCEPT ![index[c]] = rec]
<1>1. IsReport(state[c]) /\ state[c].by = c /\ ~state[c].passed
    BY OfTrial, OfInvocation
<1> DEFINE v == [state[c].records EXCEPT ![index[c]] = rec]
<1>2. WithRecord(c, rec) = [state[c] EXCEPT !.records = v]
    BY DEF WithRecord
<1> HIDE DEF v
<1>3. LET q == [state[c] EXCEPT !.records = v]
      IN  IsReport(q) /\ q.by = c /\ ~q.passed /\ q.records = v
    BY <1>1 DEF IsReport
<1> QED BY <1>2, <1>3, Zenon DEF v

LEMMA TrialRecordKept ==
    ASSUME CampaignInv, NEW c \in Process, pc[c] \in Trying, NEW rec \in RecordType,
           rec.spec = Record(c).spec, ~rec.validated, NEW place \in Trying
    PROVE  LET q == WithRecord(c, rec)
           IN  Memory(c, q, worker) /\ q.records[index[c]] = rec /\ Position(c, place, index[c], q)
<1> DEFINE q == WithRecord(c, rec)
<1>1. IsReport(q) /\ q.by = c /\ ~q.passed /\ q.records = [state[c].records EXCEPT ![index[c]] = rec]
    BY TrialRecord
<1> HIDE DEF q
<1>2. /\ Memory(c, q, worker) /\ q.records[index[c]] = rec
      /\ Len(q.records) = index[c] /\ index[c] \in Nat \ {0}
      /\ \A k \in DOMAIN q.records :
            /\ k < index[c] => q.records[k].validated
            /\ k \in DOMAIN PlanOf[Runs(c)] /\ q.records[k].spec = PlanOf[Runs(c)][k]
            /\ k < index[c] \/ k = index[c]
    BY <1>1, RecordRewritten
<1>3. \A k \in DOMAIN q.records : k < index[c] <=> q.records[k].validated
    BY <1>2
<1>4. index[c] \in DOMAIN PlanOf[Runs(c)] /\ Runs(c) \in Controllers
    BY OfTrial
<1>5. place \notin Before1 \cup {"trial", "hash", "row"}
    BY DEF Trying, Launched, Before1
<1>6. Position(c, place, index[c], q)
    BY <1>1, <1>2, <1>3, <1>4, <1>5 DEF Position
<1> QED BY <1>2, <1>6 DEF q

LEMMA RecordUpdates ==
    ASSUME NEW rec \in RecordType, NEW code \in Statuses, NEW x \in RawType,
           NEW e \in {"none", "measured", "edited"}
    PROVE  /\ [rec EXCEPT !.timedOut = TRUE] \in RecordType
           /\ [rec EXCEPT !.code = code, !.raw = x] \in RecordType
           /\ [rec EXCEPT !.validated = TRUE, !.elapsed = e] \in RecordType
<1> HIDE DEF Statuses, RawType
<1> QED BY DEF RecordType

LEMMA AnnounceKeeps ==
    ASSUME CampaignInv, NEW c \in Process, Announce(c)
    PROVE  CampaignInv'
<1> USE DEF At, Goto, Idle, NoSave
<1>1. pc[c] = "trial" /\ pc[c] \in Owning /\ index[c] \in DOMAIN PlanOf[Runs(c)]
    BY DEF Announce, Owning, InHandler
<1>2. CASE Raise(c) /\ NoSave
    BY <1>1, <1>2, LeavingStep DEF Raise, Announce
<1>3. CASE Goto(c, "launch") /\ Save(c, [state[c] EXCEPT !.records = Append(@, NewRecord(SpecOf(TrialOf(c))))])
  <2> DEFINE s == state[c].records
             rec == NewRecord(SpecOf(TrialOf(c)))
             v == Append(s, rec)
             r == [state[c] EXCEPT !.records = v]
  <2>1. Position(c, "trial", index[c], state[c]) /\ Runs(c) \in Controllers
    BY <1>1, OfInvocation DEF Position
  <2>2. Good(c, state[c], worker) /\ s \in Seq(RecordType) /\ Len(s) = index[c] - 1 /\ index[c] \in Nat \ {0}
    BY <2>1, OfInvocation DEF Good, Position
  <2>3. TrialOf(c) \in Trial /\ SpecOf(TrialOf(c)) = PlanOf[Runs(c)][index[c]]
    BY <1>1, <2>1, TrialIn DEF TrialOf, SpecOf
  <2>4. rec \in RecordType /\ rec.spec = SpecOf(TrialOf(c)) /\ ~rec.validated
    <3>1. Nothing \in RawType /\ 1 \in Statuses
      BY DEF RawType, Statuses
    <3> QED BY <2>3, <3>1 DEF NewRecord, RecordType
  <2> HIDE DEF rec
  <2>5. /\ v \in Seq(RecordType) /\ Len(v) = index[c] /\ DOMAIN v = 1..index[c] /\ DOMAIN s = 1..(index[c] - 1)
        /\ v[index[c]] = rec /\ \A k \in DOMAIN s : v[k] = s[k]
    BY <2>2, <2>4
  <2>6. Save(c, r)
    BY <1>3, Zenon DEF rec
  <2> HIDE DEF v
  <2>7. IsReport(r) /\ r.by = c /\ r.passed = state[c].passed /\ r.records = v
    BY OfInvocation DEF IsReport
  <2>8. ~state[c].passed
    BY <2>1 DEF Position
  <2> HIDE DEF r
  <2>9. Good(c, r, worker)
    BY <2>2, <2>4, <2>5, <2>7, <2>8 DEF Good
  <2>10. Memory(c, r, worker)
    BY <2>7, <2>9 DEF Memory
  <2>11. \A k \in DOMAIN v :
            /\ k < index[c] <=> v[k].validated
            /\ k \in DOMAIN PlanOf[Runs(c)] /\ v[k].spec = PlanOf[Runs(c)][k]
    <3>1. \A k \in DOMAIN v : k = index[c] \/ k \in DOMAIN s
      BY <2>2, <2>5
    <3>2. \A k \in DOMAIN s : k < index[c]
      BY <2>2, <2>5
    <3> QED BY <1>1, <2>1, <2>3, <2>4, <2>5, <3>1, <3>2 DEF Position
  <2>12. "launch" \in Trying /\ "launch" \notin Before1 \cup {"trial", "hash", "row"}
    BY DEF Trying, Before1
  <2>13. Position(c, "launch", index[c], r)
    BY <1>1, <2>1, <2>5, <2>7, <2>8, <2>11, <2>12 DEF Position
  <2>14. "launch" \in Places \ Launched
    BY DEF Places, Launched, Owning, InHandler
  <2> QED BY <1>1, <1>3, <2>6, <2>10, <2>13, <2>14, OfInvocation, SaveStep DEF Announce
<1> QED BY <1>2, <1>3, Zenon DEF Announce

\* One worker moves, with or without its report.
LEMMA OneWorker ==
    ASSUME CampaignInv, NEW t \in Trial, NEW w \in WorkerType, NEW x \in RawType,
           worker' = [worker EXCEPT ![t] = w], raw' = raw \/ raw' = [raw EXCEPT ![t] = x],
           worker[t].pc # "ended", w.pc # "none", worker[t].pc # "none" => w.by = worker[t].by
    PROVE  /\ worker' \in [Trial -> WorkerType] /\ raw' \in [Trial -> RawType] /\ Onward
           /\ worker'[t] = w /\ \A u \in Trial : u # t => worker'[u] = worker[u]
BY DEF CampaignInv, Types, Onward

LEMMA WorkerUpdates ==
    ASSUME NEW w \in WorkerType, NEW s \in {"none", "term", "kill"}, NEW c \in Process
    PROVE  /\ [w EXCEPT !.signal = s] \in WorkerType
           /\ [w EXCEPT !.pc = "born", !.by = c] \in WorkerType
BY DEF WorkerType

LEMMA LaunchKeeps ==
    ASSUME CampaignInv, NEW c \in Process, Launch(c)
    PROVE  CampaignInv'
<1> USE DEF At, Goto, Idle, NoSave
<1> DEFINE t == TrialOf(c)
<1>1. pc[c] = "launch" /\ pc[c] \in Trying /\ pc[c] \in Owning
    BY DEF Launch, Owning, InHandler, Trying
<1>2. CASE Raise(c) /\ UNCHANGED worker
    BY <1>1, <1>2, LeavingStep DEF Raise, Launch
<1>3. CASE worker[t].pc = "none"
  <2> DEFINE w == [worker[t] EXCEPT !.pc = "born", !.by = c]
  <2>1. t \in Trial /\ worker[t] \in WorkerType /\ worker \in [Trial -> WorkerType] /\ Nothing \in RawType
    BY <1>1, OfTrial DEF CampaignInv, Types, RawType
  <2>2. w \in WorkerType /\ w.pc = "born" /\ w.by = c /\ w.signal = worker[t].signal
    <3>1. w \in WorkerType
      BY <2>1, WorkerUpdates, Zenon
    <3> QED BY <2>1, <3>1 DEF WorkerType
  <2>3. worker' = [worker EXCEPT ![t] = w] /\ raw' = raw
    BY <1>3, <2>1 DEF Launch
  <2> HIDE DEF w
  <2>4. /\ worker' \in [Trial -> WorkerType] /\ raw' \in [Trial -> RawType] /\ Onward
        /\ worker'[t] = w /\ \A u \in Trial : u # t => worker'[u] = worker[u]
    BY <1>3, <2>1, <2>2, <2>3, OneWorker
  <2>5. w.signal = "none"
    BY <1>3, <2>1, <2>2 DEF CampaignInv
  <2>6. /\ pc' = [pc EXCEPT ![c] = "wait"] /\ state' = [state EXCEPT ![c] = state[c]] /\ report' = report
        /\ index' = [index EXCEPT ![c] = index[c]] /\ file' = file
    BY <1>3, OfInvocation DEF Launch, CampaignInv, Types
  <2>7. Memory(c, state[c], worker')
    BY <2>4, OfInvocation, MemoryStays
  <2>8. Position(c, "wait", index[c], state[c])
    BY <1>1, OfInvocation DEF Position, Trying, Launched, Before1
  <2>9. Waiting(c, "wait", state[c].records[index[c]], worker'[<<Runs(c), index[c]>>], raw'[<<Runs(c), index[c]>>])
    BY <2>2, <2>4, <2>5 DEF Waiting, TrialOf
  <2>10. "wait" \in Places
    BY DEF Places, Owning, InHandler
  <2>11. \A u \in Trial : worker'[u].signal = worker[u].signal
    BY <2>2, <2>4
  <2> HIDE DEF t
  <2> QED BY <1>1, <2>4, <2>6, <2>7, <2>8, <2>9, <2>10, <2>11, OfInvocation, InvocationStep
<1> QED BY <1>2, <1>3 DEF Launch

\* A signal is sent to a worker that has not ended, and the deadline has passed.
LEMMA SignalKeeps ==
    ASSUME CampaignInv, NEW c \in Process, NEW place \in {"term", "kill"}, NEW q,
           pc[c] \in Launched, Alive(TrialOf(c)), Signal(c, place), pc' = [pc EXCEPT ![c] = place],
           state' = [state EXCEPT ![c] = q], UNCHANGED <<report, file, raw, index>>,
           Memory(c, q, worker), Position(c, place, index[c], q), q.records[index[c]].timedOut
    PROVE  CampaignInv'
<1> DEFINE t == TrialOf(c)
           w == [worker[t] EXCEPT !.signal = place]
<1>1. pc[c] \in Trying
    BY DEF Trying
<1>2. /\ t \in Trial /\ worker[t] \in WorkerType /\ raw[t] \in RawType
      /\ worker[t].pc # "ended" /\ worker[t].pc # "none" /\ worker[t].by = c /\ pc[c] \in Owning
    BY <1>1, OfTrial DEF Alive, Waiting
<1>3. w \in WorkerType /\ w.pc = worker[t].pc /\ w.by = c
  <2>1. w \in WorkerType
    BY <1>2, WorkerUpdates, Zenon
  <2> QED BY <1>2, <2>1 DEF WorkerType
<1>4. worker' = [worker EXCEPT ![t] = w]
    BY <1>2 DEF Signal
<1> HIDE DEF w
<1>5. /\ worker' \in [Trial -> WorkerType] /\ raw' \in [Trial -> RawType] /\ Onward
      /\ worker'[t] = w /\ \A u \in Trial : u # t => worker'[u] = worker[u]
    BY <1>2, <1>3, <1>4, OneWorker
<1>6. Memory(c, q, worker')
    BY <1>5, MemoryStays
<1>7. Waiting(c, place, q.records[index[c]], worker'[<<Runs(c), index[c]>>], raw'[<<Runs(c), index[c]>>])
    BY <1>2, <1>3, <1>5 DEF Waiting, TrialOf
<1>8. place \in Places
    BY DEF Places, Owning, InHandler
<1>9. \A u \in Trial : worker'[u].signal = worker[u].signal \/ worker[u].by = c
    BY <1>2, <1>5
<1>10. index' = [index EXCEPT ![c] = index[c]]
    BY OfInvocation
<1> HIDE DEF t
<1> QED BY <1>2, <1>5, <1>6, <1>7, <1>8, <1>9, <1>10, OfInvocation, InvocationStep

LEMMA SignalsKeep ==
    ASSUME CampaignInv, NEW c \in Process, TimesOut(c) \/ Escalate(c)
    PROVE  CampaignInv'
<1> USE DEF At, Goto
<1>1. pc[c] \in Launched /\ pc[c] \in Trying
    BY DEF TimesOut, Escalate, Launched, Trying
<1>2. CASE TimesOut(c)
  <2> DEFINE rec == [Record(c) EXCEPT !.timedOut = TRUE]
             q == WithRecord(c, rec)
  <2>1. rec \in RecordType /\ rec.spec = Record(c).spec /\ rec.validated = Record(c).validated
        /\ rec.timedOut /\ rec.raw = Record(c).raw
    <3>1. Record(c) \in RecordType
      BY <1>1, OfTrial
    <3> QED BY <3>1 DEF RecordType
  <2>2. ~rec.validated
    BY <1>1, <2>1, OfTrial
  <2>3. Remember(c, q) /\ Signal(c, "term") /\ Alive(TrialOf(c))
    BY <1>2 DEF TimesOut
  <2> HIDE DEF rec
  <2>5. /\ Memory(c, q, worker) /\ q.records[index[c]] = rec
        /\ Position(c, "term", index[c], q)
    <3>1. "term" \in Trying
      BY DEF Trying, Launched
    <3> QED BY <1>1, <2>1, <2>2, <3>1, TrialRecordKept, Zenon
  <2> HIDE DEF q
  <2>6. "term" \in Trying
    BY DEF Trying, Launched
  <2> QED BY <1>1, <1>2, <2>1, <2>3, <2>5, <2>6, SignalKeeps DEF TimesOut, Remember
<1>3. CASE Escalate(c)
  <2>1. Position(c, "kill", index[c], state[c])
    BY <1>3, OfInvocation DEF Escalate, Position, Trying, Launched, Before1
  <2>2. state[c].records[index[c]].timedOut
    BY <1>1, <1>3, OfTrial DEF Escalate, Waiting, Record
  <2>3. state' = [state EXCEPT ![c] = state[c]]
    BY <1>3 DEF Escalate, NoSave, CampaignInv, Types
  <2> QED BY <1>1, <1>3, <2>1, <2>2, <2>3, OfInvocation, SignalKeeps DEF Escalate, NoSave
<1> QED BY <1>2, <1>3

LEMMA CollectKeeps ==
    ASSUME CampaignInv, NEW c \in Process, Collect(c)
    PROVE  CampaignInv'
<1> USE DEF At, Goto, Idle, NoSave
<1> DEFINE t == TrialOf(c)
<1>1. pc[c] = "collect" /\ pc[c] \in Launched /\ pc[c] \in Trying /\ pc[c] \in Owning
    BY DEF Collect, Launched, Trying, Owning, InHandler
<1>2. CASE Raise(c) /\ NoSave
    BY <1>1, <1>2, LeavingStep DEF Raise, Collect
<1>3. CASE Goto(c, "validate") /\ Save(c, WithRecord(c, [Record(c) EXCEPT
                   !.code = worker[TrialOf(c)].code, !.raw = raw[TrialOf(c)]]))
  <2> DEFINE rec == [Record(c) EXCEPT !.code = worker[t].code, !.raw = raw[t]]
             q == WithRecord(c, rec)
  <2>1. /\ Record(c) \in RecordType /\ ~Record(c).validated /\ t \in Trial
        /\ worker[t] \in WorkerType /\ raw[t] \in RawType
        /\ Waiting(c, "collect", Record(c), worker[t], raw[t])
    BY <1>1, OfTrial
  <2>2. rec \in RecordType
    BY <2>1, RecordUpdates DEF WorkerType
  <2>3. /\ rec.spec = Record(c).spec /\ ~rec.validated /\ rec.timedOut = Record(c).timedOut
        /\ rec.code = worker[t].code /\ rec.raw = raw[t]
    BY <2>1 DEF RecordType
  <2>4. Save(c, q)
    BY <1>3, Zenon
  <2> HIDE DEF rec
  <2>6. /\ Memory(c, q, worker) /\ q.records[index[c]] = rec
        /\ Position(c, "validate", index[c], q)
    <3>1. "validate" \in Trying
      BY DEF Trying, Launched
    <3> QED BY <1>1, <2>2, <2>3, <3>1, TrialRecordKept, Zenon
  <2> HIDE DEF q
  <2>7. "validate" \in Trying /\ "validate" \in Places
    BY DEF Trying, Launched, Places, Owning, InHandler
  <2>8. Waiting(c, "validate", q.records[index[c]], worker[t], raw[t])
    BY <2>1, <2>3, <2>6 DEF Waiting
  <2>9. /\ worker' \in [Trial -> WorkerType] /\ raw' \in [Trial -> RawType] /\ Onward
        /\ worker' = worker /\ raw' = raw /\ file' = file
        /\ index' = [index EXCEPT ![c] = index[c]]
    BY OfInvocation DEF Collect, CampaignInv, Types, Onward
  <2>10. Waiting(c, "validate", q.records[index[c]], worker'[<<Runs(c), index[c]>>], raw'[<<Runs(c), index[c]>>])
    BY <2>8, <2>9 DEF TrialOf
  <2>11. Memory(c, q, worker')
    BY <2>6, <2>9
  <2>12. pc' = [pc EXCEPT ![c] = "validate"] /\ state' = [state EXCEPT ![c] = q] /\ report' = [report EXCEPT ![Runs(c)] = q]
    BY <1>3, <2>4 DEF Save
  <2>13. \A u \in Trial : worker'[u].signal = worker[u].signal
    BY <2>9
  <2> QED BY <1>1, <2>6, <2>7, <2>9, <2>10, <2>11, <2>12, <2>13, OfInvocation, InvocationStep
<1> QED BY <1>2, <1>3, Zenon DEF Collect

\* A trial is validated: it exited by itself, and left what was recorded.
LEMMA ValidateKeeps ==
    ASSUME CampaignInv, NEW c \in Process, Validate(c)
    PROVE  CampaignInv'
<1> USE DEF At, Goto, NoSave
<1> DEFINE t == TrialOf(c)
           x == raw[t]
<1>1. pc[c] = "validate" /\ pc[c] \in Launched /\ pc[c] \in Trying /\ pc[c] \in Owning
    BY DEF Validate, Launched, Trying, Owning, InHandler
<1>2. CASE Raise(c) /\ NoSave /\ UNCHANGED index
    BY <1>1, <1>2, LeavingStep DEF Raise, Validate
<1>3. CASE /\ Trusted(c, x) /\ Goto(c, "trial") /\ index' = [index EXCEPT ![c] = @ + 1]
           /\ Save(c, [WithRecord(c, [Record(c) EXCEPT !.validated = TRUE, !.elapsed = x.elapsed])
                        EXCEPT !.binding = Bound(c, x)])
  <2> DEFINE rec == [Record(c) EXCEPT !.validated = TRUE, !.elapsed = x.elapsed]
             p == WithRecord(c, rec)
             b == Bound(c, x)
             q == [p EXCEPT !.binding = b]
  <2>1. /\ Record(c) \in RecordType /\ t \in Trial /\ worker[t] \in WorkerType /\ raw[t] \in RawType
        /\ Waiting(c, "validate", Record(c), worker[t], raw[t])
    BY <1>1, OfTrial
  <2>2. x.elapsed \in {"measured", "edited"}
    BY <1>3, <2>1 DEF Trusted, RawType, PassedRaw, Nothing, Reserved, Failed
  <2>3. rec \in RecordType
    <3>1. x.elapsed \in {"none", "measured", "edited"}
      BY <2>2
    <3> QED BY <2>1, <3>1 DEF RecordType
  <2>4. rec.spec = Record(c).spec /\ rec.validated /\ rec.raw = Record(c).raw
    BY <2>1 DEF RecordType
  <2>5. ExitedWell(worker[t]) /\ worker[t].by = c /\ rec.raw.is = "passed"
    BY <1>3, <2>1, <2>4 DEF Waiting, Trusted, ExitedWell, WorkerType
  <2>6. Save(c, q)
    BY <1>3, Zenon
  <2> HIDE DEF rec, b
  <2>7. IsReport(p) /\ p.by = c /\ ~p.passed /\ p.records = [state[c].records EXCEPT ![index[c]] = rec]
    BY <1>1, TrialRecord
  <2> HIDE DEF p
  <2>8. IsReport(q) /\ q.by = c /\ ~q.passed /\ q.records = [state[c].records EXCEPT ![index[c]] = rec]
    BY <2>7 DEF IsReport
  <2> HIDE DEF q
  <2>9. Memory(c, q, worker) /\ Position(c, "trial", index[c] + 1, q)
    BY <1>1, <2>3, <2>4, <2>5, <2>8, RecordClosed
  <2>10. /\ "trial" \in Places \ Launched /\ index[c] + 1 \in Nat \ {0}
         /\ index' = [index EXCEPT ![c] = index[c] + 1]
    BY <1>3, OfInvocation DEF Places, Launched, Owning, InHandler
  <2>11. UNCHANGED <<worker, raw>> /\ file' \in [File -> FileState]
    BY OfInvocation DEF Validate
  <2> QED BY <1>1, <1>3, <2>6, <2>9, <2>10, <2>11, SaveStep
<1> QED BY <1>2, <1>3, Zenon DEF Validate

-----------------------------------------------------------------------------
(* The steps of a worker and of the environment *)

LEMMA TrialFacts ==
    ASSUME CampaignInv, NEW t \in Trial
    PROVE  /\ worker[t] \in WorkerType /\ raw[t] \in RawType
           /\ file[Harness(t[1])] \in FileState /\ file[Library] \in FileState
           /\ file[Identity] \in FileState /\ file[Corpus] \in FileState /\ file[CacheOf(t)] \in FileState
           /\ file \in [File -> FileState]
           /\ {Nothing, Reserved, Failed, Measured(t)} \subseteq RawType
<1>1. t[1] \in Controllers
    BY DEF Trial
<1>2. {Harness(t[1]), Library, Identity, Corpus, CacheOf(t)} \subseteq File
    BY <1>1 DEF File
<1>3. worker[t] \in WorkerType /\ raw[t] \in RawType /\ file \in [File -> FileState]
    BY DEF CampaignInv, Types
<1>4. Measured(t) \in PassedRaw
    BY <1>3 DEF Measured, PassedRaw, WorkerType
<1> QED BY <1>2, <1>3, <1>4 DEF RawType

\* One worker goes on.
LEMMA WorkerMoves ==
    ASSUME CampaignInv, NEW t \in Trial, Alive(t), NEW w \in WorkerType, Become(t, w),
           NEW x \in RawType, raw' = raw \/ raw' = [raw EXCEPT ![t] = x],
           w.pc # "none", w.by = worker[t].by, w.signal = worker[t].signal,
           UNCHANGED <<pc, index, state, report>>, file' \in [File -> FileState]
    PROVE  CampaignInv'
<1>1. worker[t].pc # "ended" /\ worker[t].pc # "none" /\ worker' = [worker EXCEPT ![t] = w]
    BY DEF Alive, Become
<1>2. /\ worker' \in [Trial -> WorkerType] /\ raw' \in [Trial -> RawType] /\ Onward
      /\ worker'[t] = w /\ \A u \in Trial : u # t => worker'[u] = worker[u]
    BY <1>1, OneWorker
<1>3. \A u \in Trial : worker'[u].signal = worker[u].signal
    BY <1>2
<1> QED BY <1>2, <1>3, WorkerStep

LEMMA ExitKeeps ==
    ASSUME CampaignInv, NEW t \in Trial, Alive(t), NEW status \in Statuses, NEW x \in RawType,
           Exit(t, status, x), UNCHANGED <<pc, index, state, report, file>>
    PROVE  CampaignInv'
<1> DEFINE w == [worker[t] EXCEPT !.pc = "ended", !.code = status]
<1>1. worker[t] \in WorkerType /\ file' \in [File -> FileState]
    BY TrialFacts
<1>2. w \in WorkerType /\ w.pc = "ended" /\ w.by = worker[t].by /\ w.signal = worker[t].signal
    BY <1>1 DEF WorkerType
<1>3. Become(t, w) /\ raw' = [raw EXCEPT ![t] = x]
    BY DEF Exit
<1> HIDE DEF w
<1> QED BY <1>1, <1>2, <1>3, WorkerMoves

LEMMA WorkersKeep ==
    ASSUME CampaignInv, NEW t \in Trial, Works0(t)
    PROVE  CampaignInv'
<1> USE DEF Works, NoTrouble
<1>0. /\ worker[t] \in WorkerType /\ raw[t] \in RawType /\ file \in [File -> FileState]
      /\ Alive(t) /\ UNCHANGED <<pc, index, state, report>>
    BY TrialFacts DEF Works0, Opens, Imports, Checks, Verifies, Fingerprints, Starts, Ends, Alive
<1>1. ASSUME NEW status \in Statuses, NEW x \in RawType, Exit(t, status, x), UNCHANGED file
      PROVE  CampaignInv'
    BY <1>0, <1>1, ExitKeeps
<1>2. ASSUME NEW w \in WorkerType, Become(t, w), w.pc # "none",
             w.by = worker[t].by, w.signal = worker[t].signal,
             UNCHANGED raw, file' \in [File -> FileState]
      PROVE  CampaignInv'
    BY <1>0, <1>2, WorkerMoves
<1>3. {0, 1, -1} \subseteq Statuses /\ {raw[t], Reserved, Failed, Measured(t)} \subseteq RawType
    BY TrialFacts DEF Statuses
<1>4. CASE Opens(t)
  <2> DEFINE w == [worker[t] EXCEPT !.script = file[Harness(t[1])],
                       !.pc = IF t[1] = "series" THEN "import" ELSE "check"]
  <2>1. CASE raw' = [raw EXCEPT ![t] = Reserved] /\ Become(t, w)
    <3>1. w \in WorkerType /\ w.pc # "none" /\ w.by = worker[t].by /\ w.signal = worker[t].signal
      BY <1>0, TrialFacts DEF WorkerType
    <3> HIDE DEF w
    <3> QED BY <1>0, <1>3, <1>4, <2>1, <3>1, WorkerMoves DEF Opens
  <2>2. CASE Exit(t, 1, raw[t])
    BY <1>1, <1>3, <1>4, <2>2 DEF Opens
  <2> QED BY <1>4, <2>1, <2>2 DEF Opens
<1>5. CASE Imports(t)
  <2> DEFINE w == [worker[t] EXCEPT !.loaded = file[Library],
                                    !.pc = IF t[1] = "series" THEN "check" ELSE "read"]
  <2>1. w \in WorkerType /\ w.pc # "none" /\ w.by = worker[t].by /\ w.signal = worker[t].signal
    BY <1>0, TrialFacts DEF WorkerType
  <2>2. Become(t, w)
    BY <1>5 DEF Imports
  <2> HIDE DEF w
  <2> QED BY <1>0, <1>2, <1>5, <2>1, <2>2 DEF Imports
<1>6. CASE Checks(t)
  <2> DEFINE w == [worker[t] EXCEPT !.sees = file[Library],
                                    !.pc = IF t[1] = "series" THEN "verify" ELSE "import"]
  <2>1. CASE Become(t, w) /\ UNCHANGED raw
    <3>1. w \in WorkerType /\ w.pc # "none" /\ w.by = worker[t].by /\ w.signal = worker[t].signal
      BY <1>0, TrialFacts DEF WorkerType
    <3> HIDE DEF w
    <3> QED BY <1>0, <1>2, <1>6, <2>1, <3>1 DEF Checks
  <2>2. CASE Exit(t, 1, Failed)
    BY <1>1, <1>3, <1>6, <2>2 DEF Checks
  <2> QED BY <1>6, <2>1, <2>2 DEF Checks
<1>7. CASE Verifies(t)
  <2> DEFINE w == [worker[t] EXCEPT !.used = file[CacheOf(t)], !.corpus = "frozen", !.pc = "final"]
  <2>1. CASE Become(t, w) /\ UNCHANGED raw
    <3>1. w \in WorkerType /\ w.pc # "none" /\ w.by = worker[t].by /\ w.signal = worker[t].signal
      BY <1>0, TrialFacts DEF WorkerType, FileState
    <3> HIDE DEF w
    <3> QED BY <1>0, <1>2, <1>7, <2>1, <3>1 DEF Verifies
  <2>2. CASE Exit(t, 1, Failed)
    BY <1>1, <1>3, <1>7, <2>2 DEF Verifies
  <2> QED BY <1>7, <2>1, <2>2 DEF Verifies
<1>8. CASE Fingerprints(t)
  <2> DEFINE w == [worker[t] EXCEPT !.pc = "start"]
  <2>1. CASE Become(t, w) /\ UNCHANGED raw
    <3>1. w \in WorkerType /\ w.pc # "none" /\ w.by = worker[t].by /\ w.signal = worker[t].signal
      BY <1>0, TrialFacts DEF WorkerType
    <3> HIDE DEF w
    <3> QED BY <1>0, <1>2, <1>8, <2>1, <3>1 DEF Fingerprints
  <2>2. CASE Exit(t, 1, Failed)
    BY <1>1, <1>3, <1>8, <2>2 DEF Fingerprints
  <2> QED BY <1>8, <2>1, <2>2 DEF Fingerprints
<1>9. CASE Starts(t)
  <2> DEFINE u == file'[CacheOf(t)]
             w == [worker[t] EXCEPT !.used = u, !.corpus = file[Corpus], !.pc = "final"]
  <2>1. file' \in [File -> FileState] /\ u \in FileState
    BY <1>9, TrialFacts DEF Starts, File
  <2>2. Become(t, w) /\ UNCHANGED raw
    BY <1>9 DEF Starts
  <2> HIDE DEF u
  <2>0. file[Corpus] \in FileState
    BY TrialFacts
  <2>3. w \in WorkerType /\ w.pc # "none" /\ w.by = worker[t].by /\ w.signal = worker[t].signal
    BY <1>0, <2>0, <2>1 DEF WorkerType
  <2> HIDE DEF w
  <2> QED BY <1>2, <2>1, <2>2, <2>3
<1>10. CASE Ends(t)
    BY <1>1, <1>3, <1>10 DEF Ends
<1> QED BY <1>4, <1>5, <1>6, <1>7, <1>8, <1>9, <1>10 DEF Works0

LEMMA AccidentsKeep ==
    ASSUME CampaignInv, NEW t \in Trial, Dies(t) \/ WorkerFails(t) \/ Stop(t)
    PROVE  CampaignInv'
<1> USE DEF NoTrouble, Elsewhere
<1>0. /\ worker[t] \in WorkerType /\ raw[t] \in RawType /\ file' \in [File -> FileState] /\ Failed \in RawType
      /\ Alive(t) /\ UNCHANGED <<pc, index, state, report, file>> /\ {1, -1} \subseteq Statuses
    BY TrialFacts DEF Dies, WorkerFails, Stop, Statuses
<1>1. CASE Dies(t)
    BY <1>0, <1>1, ExitKeeps DEF Dies
<1>2. CASE WorkerFails(t)
  <2> DEFINE left == IF worker[t].pc = "born" THEN raw[t] ELSE Failed
  <2>1. left \in RawType /\ (Exit(t, 1, left) \/ Exit(t, -1, raw[t]))
    BY <1>0, <1>2 DEF WorkerFails
  <2> HIDE DEF left
  <2> QED BY <1>0, <2>1, ExitKeeps
<1>3. CASE Stop(t)
  <2> DEFINE w == [worker[t] EXCEPT !.stopped = TRUE]
  <2>1. w \in WorkerType /\ w.pc = worker[t].pc /\ w.by = worker[t].by /\ w.signal = worker[t].signal
    BY <1>0 DEF WorkerType
  <2>2. Become(t, w) /\ UNCHANGED raw
    BY <1>3 DEF Stop
  <2> HIDE DEF w
  <2> QED BY <1>0, <2>1, <2>2, WorkerMoves DEF Alive
<1> QED BY <1>1, <1>2, <1>3

\* Files and reports of trials change; what passed was passed.
LEMMA ChangesKeep ==
    ASSUME CampaignInv, ChangeFile \/ ChangeRaw
    PROVE  CampaignInv'
<1>1. file \in [File -> FileState] /\ worker \in [Trial -> WorkerType] /\ raw \in [Trial -> RawType]
    BY DEF CampaignInv, Types
<1>2. UNCHANGED <<worker, report, state, pc, index>>
    BY DEF ChangeFile, ChangeRaw
<1>3. file' \in [File -> FileState]
    BY <1>1 DEF ChangeFile, ChangeRaw, FileState
<1>4. raw' \in [Trial -> RawType] /\ \A t \in Trial : raw'[t].is = "passed" <=> raw[t].is = "passed"
  <2>1. CASE ChangeFile
    BY <1>1, <2>1 DEF ChangeFile
  <2>2. CASE ChangeRaw
    <3>1. PICK t \in Trial : raw[t].is = "passed" /\ raw' = [raw EXCEPT ![t].elapsed = "edited"]
      BY <2>2 DEF ChangeRaw
    <3> DEFINE x == [raw[t] EXCEPT !.elapsed = "edited"]
    <3>2. raw[t] \in PassedRaw
      BY <1>1, <3>1 DEF RawType, Nothing, Reserved, Failed
    <3>3. x \in PassedRaw /\ x.is = "passed"
      BY <3>2 DEF PassedRaw
    <3>4. raw' = [raw EXCEPT ![t] = x]
      BY <1>1, <3>1
    <3> HIDE DEF x
    <3>5. x \in RawType
      BY <3>3 DEF RawType
    <3> QED BY <1>1, <3>1, <3>3, <3>4, <3>5
  <2> QED BY <2>1, <2>2
<1>5. Onward /\ \A t \in Trial : worker'[t].signal = worker[t].signal
    BY <1>2, <1>4 DEF Onward
<1>6. worker' \in [Trial -> WorkerType]
    BY <1>1, <1>2
<1> QED BY <1>2, <1>3, <1>4, <1>5, <1>6, WorkerStep

-----------------------------------------------------------------------------
(* The invariant *)

LEMMA CampaignInit == Init => CampaignInv
<1> SUFFICES ASSUME Init PROVE CampaignInv
    OBVIOUS
<1> USE DEF Init
<1>1. NoWorker \in WorkerType /\ NoWorker.pc = "none" /\ NoWorker.signal = "none"
    BY DEF NoWorker, WorkerType, FileState, Statuses
<1>2. Types
  <2>1. file \in [File -> FileState]
    BY DEF FileState
  <2>2. "idle" \in Places /\ Nothing \in RawType
    BY DEF Places, RawType
  <2> QED BY <1>1, <2>1, <2>2 DEF Types
<1>3. \A t \in Trial : worker[t].signal = "none"
    BY <1>1
<1>4. ASSUME NEW c \in Process
      PROVE  /\ Memory(c, state[c], worker) /\ Position(c, pc[c], index[c], state[c])
             /\ pc[c] \notin Launched /\ Reserves(c, pc[c], report[Runs(c)])
  <2>1. pc[c] = "idle" /\ index[c] = 1 /\ state[c] = Fresh(c)
    OBVIOUS
  <2>2. Position(c, "idle", 1, Fresh(c))
    BY FreshReport DEF Position, Trying, Launched, Before1
  <2>3. "idle" \notin Launched \cup Owning
    BY DEF Launched, Owning, InHandler
  <2> QED BY <2>1, <2>2, <2>3, FreshReport DEF Reserves
<1>5. \A p \in Program : Filed(p, report[p], worker)
    BY DEF Filed
<1> QED BY <1>2, <1>3, <1>4, <1>5 DEF CampaignInv

LEMMA CampaignStep == CampaignInv /\ [Next]_vars => CampaignInv'
<1> SUFFICES ASSUME CampaignInv, [Next]_vars PROVE CampaignInv'
    OBVIOUS
<1>1. CASE \E c \in Process : Invoke(c) \/ Progress(c) \/ Interrupt(c) \/ Kill(c) \/ ObserverFails(c)
  <2>1. PICK c \in Process : Invoke(c) \/ Progress(c) \/ Interrupt(c) \/ Kill(c) \/ ObserverFails(c)
    BY <1>1
  <2>2. CASE Invoke(c) \/ Interrupt(c) \/ Kill(c) \/ ObserverFails(c)
    BY <2>2, MovesKeep, LeavesKeep
  <2>3. CASE Reserve(c) \/ PilotBegins(c) \/ Fail(c) \/ AuditFails(c)
    BY <2>3, ReserveKeeps, MovesKeep, FailsKeep
  <2>4. CASE Controls(c)
    BY <2>4, PreparesKeep, MovesKeep, AnnounceKeeps, LaunchKeeps, CollectedKeeps, SignalsKeep, LeavesKeep,
       CollectKeeps, ValidateKeeps, FinishKeeps DEF Controls
  <2>5. CASE Audits(c)
    BY <2>5, MovesKeep, RowsKeeps, AcceptKeeps DEF Audits
  <2> QED BY <2>1, <2>2, <2>3, <2>4, <2>5 DEF Progress
<1>2. CASE \E t \in Trial : Works0(t) \/ Dies(t) \/ WorkerFails(t) \/ Stop(t)
    BY <1>2, WorkersKeep, AccidentsKeep
<1>3. CASE ChangeFile \/ ChangeRaw
    BY <1>3, ChangesKeep
<1>4. CASE UNCHANGED vars
  <2>1. file' \in [File -> FileState] /\ worker' \in [Trial -> WorkerType] /\ raw' \in [Trial -> RawType]
    BY <1>4 DEF vars, CampaignInv, Types
  <2>2. Onward /\ UNCHANGED <<pc, index, state, report, worker>>
    BY <1>4 DEF vars, Onward
  <2> QED BY <2>1, <2>2, WorkerStep
<1> QED BY <1>1, <1>2, <1>3, <1>4 DEF Next

LEMMA CampaignAlways == Spec => []CampaignInv
<1> QED BY CampaignInit, CampaignStep, PTL DEF Spec

-----------------------------------------------------------------------------
(* The theorems *)

\* A report that passed is of its whole plan, in order, and every trial it calls
\* validated exited by itself with status zero before its deadline (main of the
\* controllers), whatever the plans and the accidents.
THEOREM PassedIsWhole == Spec => []PassedIsWholePlan
<1>1. CampaignInv => PassedIsWholePlan
  <2> SUFFICES ASSUME CampaignInv, NEW p \in Controllers, report[p] # Nothing
               PROVE  LET r == report[p] IN
                      /\ \A k \in DOMAIN r.records : r.records[k].validated =>
                            /\ ExitedWell(worker[<<p, k>>]) /\ worker[<<p, k>>].by = r.by
                            /\ r.records[k].raw.is = "passed"
                      /\ r.passed =>
                            /\ [k \in DOMAIN r.records |-> r.records[k].spec] = PlanOf[p]
                            /\ \A k \in DOMAIN r.records : r.records[k].validated
    BY DEF PassedIsWholePlan
  <2>1. p \in Program /\ Filed(p, report[p], worker)
    BY DEF CampaignInv, Program
  <2>2. Runs(report[p].by) = p /\ Good(report[p].by, report[p], worker)
    BY <2>1 DEF Filed
  <2> QED BY <2>2 DEF Good
<1> QED BY <1>1, CampaignAlways, PTL

\* Who saves: an invocation, with its report not there yet, or in its handler.
LEMMA StepSaves ==
    ASSUME Next
    PROVE  \/ report' = report
           \/ \E c \in Process : /\ \E r : Save(c, r)
                                 /\ Runs(c) = "pilot" \/ report[Runs(c)] = Nothing \/ pc[c] \in Owning
<1> USE DEF At, NoSave, Idle, Remember
<1>1. ASSUME NEW c \in Process, Invoke(c) \/ Interrupt(c) \/ Kill(c) \/ ObserverFails(c)
      PROVE  report' = report
    BY <1>1 DEF Invoke, Interrupt, Kill, ObserverFails, Elsewhere
<1>2. ASSUME NEW t \in Trial, Works0(t) \/ Dies(t) \/ WorkerFails(t) \/ Stop(t)
      PROVE  report' = report
    BY <1>2 DEF Works0, Opens, Imports, Checks, Verifies, Fingerprints, Starts, Ends, Works,
                Dies, WorkerFails, Stop, Elsewhere
<1>3. ASSUME NEW c \in Process, Progress(c)
      PROVE  \/ report' = report
             \/ /\ \E r : Save(c, r)
                /\ Runs(c) = "pilot" \/ report[Runs(c)] = Nothing \/ pc[c] \in Owning
  <2>1. CASE Reserve(c) \/ PilotBegins(c)
    BY <2>1 DEF Reserve, PilotBegins
  <2>2. CASE Fail(c) \/ AuditFails(c)
    BY <2>2 DEF Fail, AuditFails, Owning
  <2>3. CASE SeriesPrepares(c) \/ PilotPrepares(c) \/ FullReads(c) \/ FullPrepares(c) \/ Announce(c)
    BY <2>3 DEF SeriesPrepares, PilotPrepares, FullReads, FullPrepares, Announce, Owning, InHandler
  <2>4. CASE Launch(c) \/ Collected(c) \/ TimesOut(c) \/ Escalate(c) \/ GivesUp(c)
    BY <2>4 DEF Launch, Collected, TimesOut, Escalate, GivesUp
  <2>5. CASE Collect(c) \/ Validate(c) \/ Finish(c)
    BY <2>5 DEF Collect, Validate, Finish, Owning, InHandler
  <2>6. CASE Audits(c)
    BY <2>6 DEF Audits, AuditReads, FinalReads, Hashes, Rows, Accept, Owning, InHandler
  <2> QED BY <1>3, <2>1, <2>2, <2>3, <2>4, <2>5, <2>6 DEF Progress, Controls
<1>4. ASSUME ChangeFile \/ ChangeRaw
      PROVE  report' = report
    BY <1>4 DEF ChangeFile, ChangeRaw
<1> QED BY <1>1, <1>2, <1>3, <1>4 DEF Next

\* Once an invocation has created the report of the series, of the full campaign or
\* of an audit, no other changes it (open(..., "x") before the handler).
THEOREM EarlierReportIsKept == Spec => EarlierReportKept
<1>1. CampaignInv /\ CampaignInv' /\ [Next]_vars => [\A p \in Program \ {"pilot"} : Owned(p)]_vars
  <2> SUFFICES ASSUME CampaignInv, CampaignInv', Next, NEW p \in Program \ {"pilot"}, report[p] # Nothing
               PROVE  report'[p] # Nothing /\ report'[p].by = report[p].by
    BY DEF Owned
  <2>1. CASE report' = report
    BY <2>1
  <2>2. CASE report' # report
    <3>1. PICK c \in Process : /\ \E r : Save(c, r)
                               /\ Runs(c) = "pilot" \/ report[Runs(c)] = Nothing \/ pc[c] \in Owning
      BY <2>2, StepSaves
    <3>2. PICK r : Save(c, r)
      BY <3>1
    <3>3. state'[c] = r /\ report'[Runs(c)] = r /\ (p # Runs(c) => report'[p] = report[p])
      BY <3>2, ProcessRuns DEF Save, CampaignInv, Types
    <3>4. IsReport(r) /\ r.by = c
      BY <3>3 DEF CampaignInv, Memory
    <3>5. CASE p = Runs(c)
      <4>1. report[p].by = c
        BY <3>1, <3>5 DEF CampaignInv, Reserves
      <4> QED BY <3>3, <3>4, <3>5, <4>1, ReportIsThere
    <3> QED BY <3>3, <3>5
  <2> QED BY <2>1, <2>2
<1> QED BY <1>1, CampaignAlways, PTL DEF Spec, EarlierReportKept

-----------------------------------------------------------------------------
(* The evidence of the final audit *)

Auditing == {"hash", "row"}
IsRows(r) == \E S : r.records \in Seq(S)

\* An auditor has a row for every record it has read, and no result before its end.
Summary(place, i, r) ==
    /\ IsRows(r)
    /\ place \in {"idle", "reserve", "prepare"} => i = 1 /\ r.records = <<>>
    /\ place \in Auditing => Len(r.records) = i - 1
    /\ place # "over" => ~r.passed

Rests(r) ==
    /\ Passed(r)
    /\ Passed(r.phase) /\ r.phase.size = Len(SeriesPlan)
    /\ Passed(r.pilot) /\ r.pilot.size = Len(PilotPlan)

\* A report whose invocation goes on has not passed, so the one that was accepted is
\* not written any more.
EvidenceInv ==
    /\ \A c \in Process :
          /\ Runs(c) \in Auditors => Summary(pc[c], index[c], state[c])
          /\ Runs(c) # "pilot" /\ pc[c] \in Owning => ~report[Runs(c)].passed
          /\ Runs(c) = "final" /\ pc[c] \in Auditing => Rests(report["full"])
    /\ \A p \in Auditors : Passed(report[p]) => Len(report[p].records) = Len(PlanOf[Subject[p]])
    /\ Passed(report["final"]) => Rests(report["full"])

\* A step of c moves c alone, and saves what c has in memory if it saves.
Moves(c) ==
    /\ \A d \in Process \ {c} : pc'[d] = pc[d] /\ index'[d] = index[d] /\ state'[d] = state[d]
    /\ \/ report' = report
       \/ /\ report' = [report EXCEPT ![Runs(c)] = state'[c]]
          /\ Runs(c) = "pilot" \/ report[Runs(c)] = Nothing \/ pc[c] \in Owning

\* Who goes on has created its report, now or before.
Continues(c) ==
    Runs(c) # "pilot" /\ pc'[c] \in Owning => pc[c] \in Owning \/ report'[Runs(c)] = state'[c]

LEMMA MovesAlone ==
    ASSUME Types, NEW c \in Process,
           Invoke(c) \/ Progress(c) \/ Interrupt(c) \/ Kill(c) \/ ObserverFails(c)
    PROVE  Moves(c) /\ Continues(c)
<1> USE DEF Types, At, Goto, NoSave, Idle, Remember, Save, Raise, Moves, Continues
<1>0. Runs(c) \in Program
    BY ProcessRuns
<1>1. CASE Invoke(c) \/ Interrupt(c) \/ Kill(c) \/ ObserverFails(c)
    BY <1>1 DEF Invoke, Interrupt, Kill, ObserverFails, Elsewhere, Owning, InHandler
<1>2. CASE Reserve(c) \/ PilotBegins(c)
    BY <1>0, <1>2 DEF Reserve, PilotBegins, Owning, InHandler
<1>3. CASE Fail(c) \/ AuditFails(c)
    BY <1>0, <1>3 DEF Fail, AuditFails, Owning, InHandler
<1>4. CASE SeriesPrepares(c) \/ PilotPrepares(c) \/ FullReads(c) \/ FullPrepares(c) \/ Announce(c)
    BY <1>0, <1>4 DEF SeriesPrepares, PilotPrepares, FullReads, FullPrepares, Announce, Owning, InHandler
<1>5. CASE Launch(c) \/ Collected(c) \/ TimesOut(c) \/ Escalate(c) \/ GivesUp(c)
    BY <1>5 DEF Launch, Collected, TimesOut, Escalate, GivesUp, Owning, InHandler
<1>6. CASE Collect(c) \/ Validate(c) \/ Finish(c)
    BY <1>0, <1>6 DEF Collect, Validate, Finish, Owning, InHandler
<1>7. CASE Audits(c)
    BY <1>0, <1>7 DEF Audits, AuditReads, FinalReads, Hashes, Rows, Accept, Owning, InHandler
<1> QED BY <1>1, <1>2, <1>3, <1>4, <1>5, <1>6, <1>7 DEF Progress, Controls

\* The report of the full campaign stays once it has passed.
LEMMA RestStays ==
    ASSUME CampaignInv, EvidenceInv, NEW c \in Process, Moves(c), Rests(report["full"])
    PROVE  report'["full"] = report["full"]
<1> SUFFICES ASSUME report' # report PROVE report'["full"] = report["full"]
    OBVIOUS
<1>1. report["full"] # Nothing /\ report["full"].passed
    BY DEF Rests, Passed
<1>2. Runs(c) # "full"
    BY <1>1 DEF EvidenceInv, Moves
<1> QED BY <1>2, ProcessRuns DEF Moves, CampaignInv, Types, Program, Controllers

LEMMA DigestPasses ==
    ASSUME NEW r, Passed(r)
    PROVE  Passed(Digest(r)) /\ Digest(r).size = Len(r.records)
<1>1. Digest(r) = [by |-> r.by, complete |-> r.complete, passed |-> r.passed, size |-> Len(r.records)]
    BY DEF Passed, Digest
<1>2. DOMAIN Digest(r) # DOMAIN Nothing
    BY <1>1 DEF Nothing
<1> QED BY <1>1, <1>2 DEF Passed

LEMMA SameBounds ==
    ASSUME NEW m \in Nat, NEW n \in Nat, 1..m = 1..n
    PROVE  m = n
<1>1. m > 0 => m \in 1..n
    OBVIOUS
<1>2. n > 0 => n \in 1..m
    OBVIOUS
<1> QED BY <1>1, <1>2

\* What the final audit reads first.
LEMMA FinalRests ==
    ASSUME CampaignInv, EvidenceInv, Passed(report["full"]), Anchored(report["full"])
    PROVE  Rests(report["full"])
<1>1. Len(report["audit"].records) = Len(SeriesPlan)
    BY DEF Anchored, EvidenceInv, Auditors, Subject, PlanOf
<1>2. Len(report["pilot"].records) = Len(PilotPlan)
  <2> DEFINE r == report["pilot"]
  <2>1. Filed("pilot", r, worker) /\ r # Nothing /\ r.passed
    BY DEF CampaignInv, Program, Controllers, Anchored, Passed
  <2>2. r.records \in Seq(RecordType) /\ [k \in DOMAIN r.records |-> r.records[k].spec] = PlanOf["pilot"]
    BY <2>1 DEF Filed, Good, Controllers
  <2>3. PlanOf["pilot"] = PilotPlan /\ PilotPlan \in Seq([block : Nat, position : Nat, workers : Nat, mode : {"miss", "hit"}])
    BY PlansAreSequences DEF PlanOf, Controllers
  <2>4. DOMAIN r.records = DOMAIN PilotPlan
    <3> DEFINE specs == [k \in DOMAIN r.records |-> r.records[k].spec]
    <3>1. DOMAIN specs = DOMAIN r.records
      OBVIOUS
    <3>2. specs = PilotPlan
      BY <2>2, <2>3
    <3> HIDE DEF specs
    <3> QED BY <3>1, <3>2
  <2> HIDE DEF r
  <2>5. Len(r.records) \in Nat /\ Len(PilotPlan) \in Nat
        /\ DOMAIN r.records = 1..Len(r.records) /\ DOMAIN PilotPlan = 1..Len(PilotPlan)
    BY <2>2, <2>3
  <2>6. Len(r.records) = Len(PilotPlan)
    BY <2>4, <2>5, SameBounds
  <2> QED BY <2>6 DEF r
<1> QED BY <1>1, <1>2, DigestPasses DEF Anchored, Rests

\* What a step of an auditor leaves in memory and files.
LEMMA AuditorStep ==
    ASSUME CampaignInv, EvidenceInv, NEW c \in Process, Runs(c) \in Auditors,
           Invoke(c) \/ Progress(c) \/ Interrupt(c) \/ Kill(c) \/ ObserverFails(c)
    PROVE  /\ Summary(pc'[c], index'[c], state'[c])
           /\ Runs(c) = "final" /\ pc'[c] \in Auditing => Rests(report["full"])
           /\ pc'[c] \in Owning => ~state'[c].passed
           /\ report'[Runs(c)] # report[Runs(c)] /\ state'[c].passed =>
                 /\ Len(state'[c].records) = Len(PlanOf[Subject[Runs(c)]])
                 /\ Runs(c) = "final" => Rests(report["full"])
<1>0. Types
    BY DEF CampaignInv
<1>1. Summary(pc[c], index[c], state[c]) /\ (Runs(c) = "final" /\ pc[c] \in Auditing => Rests(report["full"]))
    BY DEF CampaignInv, EvidenceInv
<1>2. Runs(c) \notin Controllers /\ Runs(c) # "pilot" /\ Runs(c) \in Program
    BY DEF Auditors, Controllers, Program
<1>3. index[c] \in Nat \ {0} /\ IsReport(state[c])
    BY DEF CampaignInv, Types, Memory
<1>4. /\ pc[c] \in Places
      /\ pc[c] \in {"trial", "copy"} \cup Trying => Runs(c) \in Controllers
    BY DEF CampaignInv, Types, Position
<1> USE DEF Types, At, Goto, NoSave, Idle, Remember, Save, Raise
<1> USE <1>0
<1>5. ASSUME UNCHANGED <<report, state, index>>, pc'[c] # pc[c],
             pc'[c] \notin {"idle", "prepare", "hash", "row"}, pc[c] # "over",
             pc'[c] = "reserve" => pc[c] = "idle"
      PROVE  /\ Summary(pc'[c], index'[c], state'[c])
             /\ Runs(c) = "final" /\ pc'[c] \in Auditing => Rests(report["full"])
             /\ pc'[c] \in Owning => ~state'[c].passed
             /\ report'[Runs(c)] # report[Runs(c)] /\ state'[c].passed =>
                 /\ Len(state'[c].records) = Len(PlanOf[Subject[Runs(c)]])
                 /\ Runs(c) = "final" => Rests(report["full"])
    BY <1>1, <1>5 DEF Summary, Auditing
<1>6. CASE Invoke(c) \/ Interrupt(c) \/ Kill(c)
    BY <1>5, <1>6 DEF Invoke, Interrupt, Kill, Elsewhere, InHandler
<1>7. CASE Reserve(c)
  <2>1. CASE report[Runs(c)] = Nothing
    <3>1. pc'[c] = "prepare" /\ state'[c] = Fresh(c) /\ index'[c] = index[c] /\ pc[c] = "reserve"
      BY <1>2, <1>7, <2>1 DEF Reserve, Begun
    <3>2. ~state'[c].passed /\ state'[c].records = <<>>
      BY <3>1, FreshReport
    <3>3. IsRows(state'[c])
      <4>1. <<>> \in Seq({})
        OBVIOUS
      <4> QED BY <3>2, <4>1 DEF IsRows
    <3>4. index[c] = 1
      BY <1>1, <3>1 DEF Summary
    <3> QED BY <3>1, <3>2, <3>3, <3>4 DEF Summary, Auditing
  <2>2. CASE report[Runs(c)] # Nothing
    BY <1>5, <1>7, <2>2 DEF Reserve
  <2> QED BY <2>1, <2>2
<1>8. CASE AuditFails(c)
  <2> DEFINE r == [Fresh(c) EXCEPT !.complete = TRUE]
  <2>1. pc'[c] = "over" /\ state'[c] = r
    BY <1>8 DEF AuditFails
  <2>2. ~r.passed /\ r.records = <<>>
    BY DEF Fresh
  <2>3. IsRows(r)
    <3>1. <<>> \in Seq({})
      OBVIOUS
    <3> QED BY <2>2, <3>1 DEF IsRows
  <2>4. "over" \notin Owning \cup Auditing \cup {"idle", "reserve", "prepare"}
    BY DEF Owning, InHandler, Auditing
  <2> HIDE DEF r
  <2> QED BY <2>1, <2>2, <2>3, <2>4 DEF Summary
<1>9. CASE AuditReads(c)
  <2>1. UNCHANGED <<report, state, index>> /\ pc[c] = "prepare" /\ pc'[c] \in {"hash", "failing"}
    BY <1>9 DEF AuditReads
  <2>2. Runs(c) # "final"
    BY <1>9 DEF AuditReads
  <2>3. state[c].records = <<>> /\ index[c] = 1 /\ Len(<<>>) = 0 /\ ~state[c].passed
    BY <1>1, <2>1 DEF Summary
  <2> QED BY <1>1, <2>1, <2>2, <2>3 DEF Summary, Auditing
<1>10. CASE FinalReads(c)
  <2>1. UNCHANGED <<report, state, index>> /\ pc[c] = "prepare" /\ pc'[c] \in {"hash", "failing"}
    BY <1>10 DEF FinalReads
  <2>2. pc'[c] = "hash" => Rests(report["full"])
    BY <1>10, FinalRests DEF FinalReads
  <2>3. state[c].records = <<>> /\ index[c] = 1 /\ Len(<<>>) = 0 /\ ~state[c].passed
    BY <1>1, <2>1 DEF Summary
  <2> QED BY <1>1, <2>1, <2>2, <2>3 DEF Summary, Auditing
<1>11. CASE Hashes(c)
  <2>1. UNCHANGED <<report, state, index>> /\ pc[c] = "hash" /\ pc'[c] \in {"row", "failing"}
    BY <1>11 DEF Hashes
  <2> QED BY <1>1, <2>1 DEF Summary, Auditing
<1>12. CASE Rows(c)
  <2>1. CASE UNCHANGED <<report, state, index>> /\ pc'[c] = "failing"
    BY <1>1, <1>12, <2>1 DEF Summary, Auditing, Rows
  <2>2. CASE ~(UNCHANGED <<report, state, index>> /\ pc'[c] = "failing")
    <3>1. PICK v : state'[c] = [state[c] EXCEPT !.records = Append(@, v)]
      BY <1>12, <2>2 DEF Rows
    <3>2. pc[c] = "row" /\ pc'[c] = "hash" /\ index'[c] = index[c] + 1 /\ report' = report
      BY <1>12, <2>2 DEF Rows
    <3>3. state'[c].records = Append(state[c].records, v) /\ state'[c].passed = state[c].passed
      BY <1>3, <3>1 DEF IsReport
    <3>4. PICK S : state[c].records \in Seq(S)
      BY <1>1 DEF Summary, IsRows
    <3>5. state[c].records \in Seq(S \cup {v})
      BY <3>4
    <3>6. /\ Append(state[c].records, v) \in Seq(S \cup {v})
          /\ Len(Append(state[c].records, v)) = Len(state[c].records) + 1 /\ Len(state[c].records) \in Nat
      BY <3>5
    <3>7. IsRows(state'[c])
      BY <3>3, <3>6 DEF IsRows
    <3>8. Len(state[c].records) = index[c] - 1 /\ ~state[c].passed
      BY <1>1, <3>2 DEF Summary, Auditing
    <3> QED BY <1>1, <1>3, <3>2, <3>3, <3>6, <3>7, <3>8 DEF Summary, Auditing
  <2> QED BY <2>1, <2>2
<1>13. CASE Accept(c)
  <2>1. /\ pc[c] = "hash" /\ pc'[c] = "over" /\ state'[c] = [state[c] EXCEPT !.complete = TRUE, !.passed = TRUE]
        /\ index[c] = Len(PlanOf[Subject[Runs(c)]]) + 1
    BY <1>13 DEF Accept
  <2>2. state'[c].records = state[c].records
    BY <1>3, <2>1 DEF IsReport
  <2>3. Len(state[c].records) = index[c] - 1 /\ IsRows(state[c])
    BY <1>1, <2>1 DEF Summary, Auditing
  <2>4. "over" \notin Owning \cup Auditing \cup {"idle", "reserve", "prepare"}
    BY DEF Owning, InHandler, Auditing
  <2>5. Subject[Runs(c)] \in Controllers
    BY DEF Auditors, Subject, Controllers
  <2>6. Len(PlanOf[Subject[Runs(c)]]) \in Nat
    BY <2>5, PlansAreSequences
  <2>7. Len(state'[c].records) = Len(PlanOf[Subject[Runs(c)]])
    BY <2>1, <2>2, <2>3, <2>6
  <2>8. IsRows(state'[c])
    BY <2>2, <2>3 DEF IsRows
  <2> QED BY <1>1, <2>1, <2>4, <2>7, <2>8 DEF Summary, Auditing
<1>14. ~(PilotBegins(c) \/ Fail(c) \/ Controls(c) \/ ObserverFails(c))
  <2>1. ~(PilotBegins(c) \/ Fail(c) \/ SeriesPrepares(c) \/ PilotPrepares(c) \/ FullReads(c) \/ ObserverFails(c))
    BY <1>2 DEF PilotBegins, Fail, SeriesPrepares, PilotPrepares, FullReads, ObserverFails, Auditors
  <2>2. pc[c] \notin {"copy", "trial", "launch", "wait", "term", "kill", "collect", "validate"}
    BY <1>2, <1>4 DEF Trying, Launched
  <2> QED BY <2>1, <2>2 DEF Controls, FullPrepares, Announce, Launch, Collected, TimesOut, Escalate, GivesUp, Collect, Validate, Finish
<1> QED BY <1>6, <1>7, <1>8, <1>9, <1>10, <1>11, <1>12, <1>13, <1>14 DEF Progress, Audits

\* The other controllers' reports are not passed as long as they go on, by CampaignInv.
LEMMA EvidenceMoves ==
    ASSUME CampaignInv, EvidenceInv, CampaignInv', NEW c \in Process,
           Invoke(c) \/ Progress(c) \/ Interrupt(c) \/ Kill(c) \/ ObserverFails(c)
    PROVE  EvidenceInv'
<1>1. Moves(c) /\ Continues(c) /\ Runs(c) \in Program
    BY MovesAlone, ProcessRuns DEF CampaignInv
<1>2. Rests(report["full"]) => report'["full"] = report["full"]
    BY <1>1, RestStays
<1>3. Runs(c) \in Auditors =>
          /\ Summary(pc'[c], index'[c], state'[c])
          /\ Runs(c) = "final" /\ pc'[c] \in Auditing => Rests(report["full"])
          /\ pc'[c] \in Owning => ~state'[c].passed
          /\ report'[Runs(c)] # report[Runs(c)] /\ state'[c].passed =>
                /\ Len(state'[c].records) = Len(PlanOf[Subject[Runs(c)]])
                /\ Runs(c) = "final" => Rests(report["full"])
    BY AuditorStep
<1>4. Runs(c) \in Controllers /\ pc'[c] \in Owning => ~state'[c].passed
    BY DEF CampaignInv, Position, Owning, InHandler
<1>5. \A p \in Program : p # Runs(c) => report'[p] = report[p]
    BY <1>1 DEF Moves, CampaignInv, Types
<1>6. report'[Runs(c)] = report[Runs(c)] \/ report'[Runs(c)] = state'[c]
    BY <1>1 DEF Moves, CampaignInv, Types
<1>7. ASSUME NEW d \in Process
      PROVE  Runs(d) \in Auditors => Summary(pc'[d], index'[d], state'[d])
    BY <1>1, <1>3 DEF Moves, EvidenceInv
<1>8. ASSUME NEW d \in Process, Runs(d) # "pilot", pc'[d] \in Owning
      PROVE  ~report'[Runs(d)].passed
  <2>1. CASE d = c
    <3>1. ~state'[c].passed
      BY <1>1, <1>3, <1>4, <1>8, <2>1 DEF Program
    <3>2. pc[c] \in Owning => ~report[Runs(c)].passed
      BY <1>8, <2>1 DEF EvidenceInv
    <3> QED BY <1>1, <1>6, <1>8, <2>1, <3>1, <3>2 DEF Continues
  <2>2. CASE d # c
    <3>1. pc'[d] = pc[d] /\ ~report[Runs(d)].passed
      BY <1>1, <1>8, <2>2 DEF Moves, EvidenceInv
    <3>2. report[Runs(d)] # Nothing /\ report[Runs(d)].by = d
      BY <1>8, <3>1 DEF CampaignInv, Reserves
    <3>3. CASE Runs(d) = Runs(c)
      <4>1. ~(pc[c] \in Owning)
        BY <1>8, <2>2, <3>2, <3>3 DEF CampaignInv, Reserves
      <4>2. report' = report
        BY <1>1, <1>8, <3>2, <3>3, <4>1 DEF Moves
      <4> QED BY <3>1, <4>2
    <3>4. CASE Runs(d) # Runs(c)
      BY <1>5, <3>1, <3>4, ProcessRuns
    <3> QED BY <3>3, <3>4
  <2> QED BY <2>1, <2>2
<1>9. ASSUME NEW d \in Process, Runs(d) = "final", pc'[d] \in Auditing
      PROVE  Rests(report'["full"])
  <2>1. Rests(report["full"])
    BY <1>1, <1>3, <1>9 DEF Moves, EvidenceInv, Auditors
  <2> QED BY <1>2, <2>1
<1>10. ASSUME NEW p \in Auditors, Passed(report'[p])
       PROVE  Len(report'[p].records) = Len(PlanOf[Subject[p]])
    BY <1>3, <1>5, <1>6, <1>10 DEF EvidenceInv, Passed, Program
<1>11. ASSUME Passed(report'["final"])
       PROVE  Rests(report'["full"])
  <2>1. Rests(report["full"])
    BY <1>3, <1>5, <1>6, <1>11 DEF EvidenceInv, Passed, Program, Auditors
  <2> QED BY <1>2, <2>1
<1> QED BY <1>7, <1>8, <1>9, <1>10, <1>11 DEF EvidenceInv

LEMMA EvidenceStays ==
    ASSUME EvidenceInv, UNCHANGED <<report, state, pc, index>>
    PROVE  EvidenceInv'
BY DEF EvidenceInv

LEMMA EvidenceInit == Init => EvidenceInv
<1> SUFFICES ASSUME Init PROVE EvidenceInv
    OBVIOUS
<1>1. ASSUME NEW c \in Process
      PROVE  pc[c] = "idle" /\ index[c] = 1 /\ state[c] = Fresh(c)
    BY DEF Init
<1>2. ASSUME NEW c \in Process
      PROVE  Summary("idle", 1, Fresh(c))
  <2>1. <<>> \in Seq({})
    OBVIOUS
  <2> QED BY <1>2, <2>1, FreshReport DEF Summary, IsRows, Auditing
<1>3. \A p \in Program : ~Passed(report[p])
    BY DEF Init, Passed
<1>4. "idle" \notin Owning \cup Auditing
    BY DEF Owning, InHandler, Auditing
<1> QED BY <1>1, <1>2, <1>3, <1>4 DEF EvidenceInv, Program, Auditors

LEMMA EvidenceStep == CampaignInv /\ CampaignInv' /\ EvidenceInv /\ [Next]_vars => EvidenceInv'
<1> SUFFICES ASSUME CampaignInv, CampaignInv', EvidenceInv, [Next]_vars PROVE EvidenceInv'
    OBVIOUS
<1>1. ASSUME NEW c \in Process, Invoke(c) \/ Progress(c) \/ Interrupt(c) \/ Kill(c) \/ ObserverFails(c)
      PROVE  EvidenceInv'
    BY <1>1, EvidenceMoves
<1>2. ASSUME NEW t \in Trial, Works0(t) \/ Dies(t) \/ WorkerFails(t) \/ Stop(t)
      PROVE  UNCHANGED <<report, state, pc, index>>
    BY <1>2 DEF Works0, Opens, Imports, Checks, Verifies, Fingerprints, Starts, Ends, Works,
                Dies, WorkerFails, Stop, Elsewhere
<1>3. ASSUME ChangeFile \/ ChangeRaw \/ UNCHANGED vars
      PROVE  UNCHANGED <<report, state, pc, index>>
    BY <1>3 DEF ChangeFile, ChangeRaw, vars
<1> QED BY <1>1, <1>2, <1>3, EvidenceStays DEF Next

\* An accepted final audit rests on a phase audit and a pilot that passed on their
\* whole plans (validate_pilot and main of the full campaign, the final auditor),
\* although the pilot's report can be replaced while the campaign prepares.
THEOREM FinalRestsOnEvidence == Spec => []FinalRestsOnPassed
<1>1. EvidenceInv => FinalRestsOnPassed
    BY DEF EvidenceInv, FinalRestsOnPassed, Rests
<1>2. Spec => []EvidenceInv
    BY CampaignAlways, EvidenceInit, EvidenceStep, PTL DEF Spec
<1> QED BY <1>1, <1>2, PTL

-----------------------------------------------------------------------------
(* One worker at a time *)

AllEnded(p) == \A t \in Trial : t[1] = p => worker[t].pc = "ended"
Ran(p) == \E t \in Trial : t[1] = p /\ worker[t].pc # "none"

\* A trial is launched when those before it in its plan have ended, and a program goes
\* on to its trials when those of the programs it rests on have: whatever they were
\* interrupted by, they passed.
OrderInv ==
    /\ \A p \in Controllers : \A k, l \in DOMAIN PlanOf[p] :
          l < k /\ worker[<<p, k>>].pc # "none" => worker[<<p, l>>].pc = "ended"
    /\ Passed(report["audit"]) => AllEnded("series")
    /\ \A c \in Process :
          /\ pc[c] = "copy" => Runs(c) = "full"
          /\ Runs(c) = "audit" /\ pc[c] \in Auditing => AllEnded("series")
          /\ Runs(c) = "pilot" /\ pc[c] \in {"trial"} \cup Trying => AllEnded("series")
          /\ Runs(c) = "full" /\ pc[c] \in {"copy", "trial"} \cup Trying => AllEnded("series") /\ AllEnded("pilot")
    /\ Ran("pilot") => AllEnded("series")
    /\ Ran("full") => AllEnded("series") /\ AllEnded("pilot")

\* A step of a worker moves that worker and no other, and never back to the start.
LEMMA OneWorkerMoves ==
    ASSUME worker \in [Trial -> WorkerType], NEW t \in Trial, NEW u \in Trial, Works0(u)
    PROVE  /\ worker[u].pc \notin {"none", "ended"} /\ worker'[u].pc # "none"
           /\ u # t => worker'[t] = worker[t]
<1> DEFINE Moved == /\ worker[u].pc \notin {"none", "ended"} /\ worker'[u].pc # "none"
                    /\ u # t => worker'[t] = worker[t]
<1>0. DOMAIN worker = Trial /\ worker[u] \in WorkerType
  OBVIOUS
<1>1. ASSUME NEW status, NEW left, Exit(u, status, left), worker[u].pc \notin {"none", "ended"}
      PROVE  Moved
  BY <1>0, <1>1 DEF Exit, Become, WorkerType
<1>2. CASE Opens(u)
  <2>1. worker[u].pc \notin {"none", "ended"}
    BY <1>2 DEF Opens, Works
  <2>2. CASE raw[u] = Nothing
    <3>1. PICK w : worker' = [worker EXCEPT ![u] = w] /\ w.pc \in {"import", "check"}
      <4> DEFINE v == [worker[u] EXCEPT !.script = file[Harness(u[1])],
                                        !.pc = IF u[1] = "series" THEN "import" ELSE "check"]
      <4>1. v.pc \in {"import", "check"}
        BY <1>0 DEF WorkerType
      <4>2. worker' = [worker EXCEPT ![u] = v]
        BY <1>2, <2>2 DEF Opens, Become
      <4> HIDE DEF v
      <4> QED BY <4>1, <4>2
    <3> QED BY <1>0, <2>1, <3>1
  <2>3. CASE ~(raw[u] = Nothing)
    BY <1>1, <1>2, <2>1, <2>3 DEF Opens
  <2> QED BY <2>2, <2>3
<1>3. CASE Imports(u)
  <2>1. worker[u].pc \notin {"none", "ended"}
    BY <1>3 DEF Imports, Works
  <2> QED BY <1>0, <1>3, <2>1 DEF Imports, Become, WorkerType
<1>4. CASE Checks(u)
  <2>1. worker[u].pc \notin {"none", "ended"}
    BY <1>4 DEF Checks, Works
  <2>2. CASE file[Library] = file[Identity] /\ CacheIsReady(u)
    <3>1. PICK w : worker' = [worker EXCEPT ![u] = w] /\ w.pc \in {"verify", "import"}
      <4> DEFINE v == [worker[u] EXCEPT !.sees = file[Library],
                                        !.pc = IF u[1] = "series" THEN "verify" ELSE "import"]
      <4>1. v.pc \in {"verify", "import"}
        BY <1>0 DEF WorkerType
      <4>2. worker' = [worker EXCEPT ![u] = v]
        BY <1>4, <2>2 DEF Checks, Become
      <4> HIDE DEF v
      <4> QED BY <4>1, <4>2
    <3> QED BY <1>0, <2>1, <3>1
  <2>3. CASE ~(file[Library] = file[Identity] /\ CacheIsReady(u))
    BY <1>1, <1>4, <2>1, <2>3 DEF Checks
  <2> QED BY <2>2, <2>3
<1>5. CASE Verifies(u)
  <2>1. worker[u].pc \notin {"none", "ended"}
    BY <1>5 DEF Verifies, Works
  <2>2. CASE file[Corpus] = "frozen"
    BY <1>0, <1>5, <2>1, <2>2 DEF Verifies, Become, WorkerType
  <2>3. CASE ~(file[Corpus] = "frozen")
    BY <1>1, <1>5, <2>1, <2>3 DEF Verifies
  <2> QED BY <2>2, <2>3
<1>6. CASE Fingerprints(u)
  <2>1. worker[u].pc \notin {"none", "ended"}
    BY <1>6 DEF Fingerprints, Works
  <2>2. CASE file[Corpus] = "frozen" /\ (SpecOf(u).mode = "miss" => file[CacheOf(u)] = "absent")
    BY <1>0, <1>6, <2>1, <2>2 DEF Fingerprints, Become, WorkerType
  <2>3. CASE ~(file[Corpus] = "frozen" /\ (SpecOf(u).mode = "miss" => file[CacheOf(u)] = "absent"))
    BY <1>1, <1>6, <2>1, <2>3 DEF Fingerprints
  <2> QED BY <2>2, <2>3
<1>7. CASE Starts(u)
  <2>1. worker[u].pc \notin {"none", "ended"}
    BY <1>7 DEF Starts, Works
  <2> QED BY <1>0, <1>7, <2>1 DEF Starts, Become, WorkerType
<1>8. CASE Ends(u)
  <2>1. worker[u].pc \notin {"none", "ended"}
    BY <1>8 DEF Ends, Works
  <2>2. CASE Unchanged(u)
    BY <1>1, <1>8, <2>1, <2>2 DEF Ends
  <2>3. CASE ~Unchanged(u)
    BY <1>1, <1>8, <2>1, <2>3 DEF Ends
  <2> QED BY <2>2, <2>3
<1> QED BY <1>2, <1>3, <1>4, <1>5, <1>6, <1>7, <1>8 DEF Works0

\* What ended stays so, and only its controller launches a trial.
LEMMA WorkerPlaces ==
    ASSUME CampaignInv, [Next]_vars, NEW t \in Trial
    PROVE  /\ worker[t].pc = "ended" => worker'[t].pc = "ended"
           /\ worker[t].pc = "none" /\ worker'[t].pc # "none" => \E c \in Process : Launch(c) /\ t = TrialOf(c)
<1>0. worker \in [Trial -> WorkerType]
    BY DEF CampaignInv, Types
<1> USE <1>0 DEF WorkerType, At, Goto, NoSave, Idle, Remember, Save, Raise
<1>1. ASSUME NEW c \in Process, Invoke(c) \/ Interrupt(c) \/ Kill(c) \/ ObserverFails(c)
      PROVE  worker' = worker
    BY <1>1 DEF Invoke, Interrupt, Kill, ObserverFails
<1>2. ASSUME NEW c \in Process, Progress(c), ~Launch(c), ~TimesOut(c), ~Escalate(c)
      PROVE  worker' = worker
  <2>1. CASE Reserve(c) \/ PilotBegins(c) \/ Fail(c) \/ AuditFails(c) \/ SeriesPrepares(c) \/ PilotPrepares(c)
    BY <2>1 DEF Reserve, PilotBegins, Fail, AuditFails, SeriesPrepares, PilotPrepares
  <2>2. CASE FullReads(c) \/ FullPrepares(c) \/ Announce(c) \/ Collected(c) \/ GivesUp(c)
    BY <2>2 DEF FullReads, FullPrepares, Announce, Collected, GivesUp
  <2>3. CASE Collect(c) \/ Validate(c) \/ Finish(c)
    BY <2>3 DEF Collect, Validate, Finish
  <2>4. CASE Audits(c)
    BY <2>4 DEF Audits, AuditReads, FinalReads, Hashes, Rows, Accept
  <2> QED BY <1>2, <2>1, <2>2, <2>3, <2>4 DEF Progress, Controls
<1>3. ASSUME NEW c \in Process, Launch(c)
      PROVE  t # TrialOf(c) => worker'[t] = worker[t]
    BY <1>3 DEF Launch
<1>4. ASSUME NEW c \in Process, Launch(c), worker[t].pc = "ended"
      PROVE  worker'[t] = worker[t]
    BY <1>4 DEF Launch
<1>5. ASSUME NEW c \in Process, TimesOut(c) \/ Escalate(c)
      PROVE  worker'[t].pc = worker[t].pc
    BY <1>5 DEF TimesOut, Escalate, Signal
<1>6. ASSUME NEW u \in Trial, Works0(u)
      PROVE  /\ worker[u].pc \notin {"none", "ended"} /\ worker'[u].pc # "none"
             /\ u # t => worker'[t] = worker[t]
    BY <1>6, OneWorkerMoves
<1>7. ASSUME NEW u \in Trial, Dies(u) \/ WorkerFails(u) \/ Stop(u)
      PROVE  /\ worker[u].pc \notin {"none", "ended"} /\ worker'[u].pc # "none"
             /\ u # t => worker'[t] = worker[t]
    BY <1>7 DEF Dies, WorkerFails, Stop, Alive, Become, Exit
<1>8. ASSUME ChangeFile \/ ChangeRaw \/ UNCHANGED vars
      PROVE  worker' = worker
    BY <1>8 DEF ChangeFile, ChangeRaw, vars
<1> QED BY <1>1, <1>2, <1>3, <1>4, <1>5, <1>6, <1>7, <1>8 DEF Next

LEMMA EndedStays ==
    ASSUME CampaignInv, [Next]_vars, NEW p, AllEnded(p)
    PROVE  AllEnded(p)'
BY WorkerPlaces DEF AllEnded

\* The workers of a report that passed have ended.
LEMMA PassedHasEnded ==
    ASSUME CampaignInv, NEW p \in Controllers, Passed(report[p])
    PROVE  AllEnded(p)
<1> DEFINE r == report[p]
<1>1. p \in Program /\ Filed(p, r, worker) /\ r # Nothing /\ r.passed
    BY DEF CampaignInv, Program, Passed
<1>2. Good(r.by, r, worker) /\ Runs(r.by) = p
    BY <1>1 DEF Filed
<1>3. /\ [k \in DOMAIN r.records |-> r.records[k].spec] = PlanOf[p]
      /\ \A k \in DOMAIN r.records : r.records[k].validated /\ worker[<<p, k>>].pc = "ended"
    BY <1>1, <1>2 DEF Good, ExitedWell
<1>4. DOMAIN r.records = DOMAIN PlanOf[p]
  <2> DEFINE specs == [k \in DOMAIN r.records |-> r.records[k].spec]
  <2>1. DOMAIN specs = DOMAIN r.records
    OBVIOUS
  <2> HIDE DEF specs
  <2> QED BY <1>3, <2>1 DEF specs
<1>5. ASSUME NEW t \in Trial, t[1] = p
      PROVE  worker[t].pc = "ended"
  <2>1. PICK k \in DOMAIN PlanOf[p] : t = <<p, k>>
    BY <1>5 DEF Trial
  <2> QED BY <1>3, <1>4, <2>1
<1> QED BY <1>5 DEF AllEnded

LEMMA PlanPositions ==
    ASSUME NEW p \in Controllers, NEW k \in DOMAIN PlanOf[p]
    PROVE  k \in Nat \ {0}
<1>1. PlanOf[p] \in Seq([block : Nat, position : Nat, workers : Nat, mode : {"miss", "hit"}])
    BY PlansAreSequences
<1>2. DOMAIN PlanOf[p] = 1..Len(PlanOf[p]) /\ Len(PlanOf[p]) \in Nat
    BY <1>1
<1> QED BY <1>2

LEMMA LaunchInOrder ==
    ASSUME CampaignInv, OrderInv, CampaignInv', [Next]_vars,
           NEW p \in Controllers, NEW k \in DOMAIN PlanOf[p], NEW l \in DOMAIN PlanOf[p],
           l < k, worker'[<<p, k>>].pc # "none"
    PROVE  worker'[<<p, l>>].pc = "ended"
<1>1. <<p, k>> \in Trial /\ <<p, l>> \in Trial
    BY TrialIn
<1>2. CASE worker[<<p, k>>].pc # "none"
    BY <1>1, <1>2, WorkerPlaces DEF OrderInv
<1>3. CASE worker[<<p, k>>].pc = "none"
  <2>1. PICK c \in Process : Launch(c) /\ <<p, k>> = TrialOf(c)
    BY <1>1, <1>3, WorkerPlaces
  <2>2. Runs(c) = p /\ index[c] = k /\ pc[c] = "launch"
    BY <2>1 DEF TrialOf, Launch, At
  <2>3. Position(c, "launch", k, state[c]) /\ Memory(c, state[c], worker)
    BY <2>2 DEF CampaignInv
  <2>4. Good(c, state[c], worker) /\ Len(state[c].records) = k
    BY <2>2, <2>3 DEF Memory, Position, Trying
  <2>5. state[c].records \in Seq(RecordType) /\ k \in Nat /\ l \in Nat \ {0}
    BY <2>4, PlanPositions DEF Good
  <2>6. l \in DOMAIN state[c].records
    BY <2>4, <2>5
  <2>7. state[c].records[l].validated
    BY <2>2, <2>3, <2>6 DEF Position, Trying
  <2>8. worker[<<p, l>>].pc = "ended"
    BY <2>2, <2>4, <2>6, <2>7 DEF Good, ExitedWell
  <2> QED BY <1>1, <2>8, WorkerPlaces
<1> QED BY <1>2, <1>3

\* Where a step takes the programs that rest on others.
LEMMA GoesOn ==
    ASSUME CampaignInv, OrderInv, CampaignInv', Next, NEW c \in Process
    PROVE  /\ pc'[c] = "copy" => Runs(c) = "full"
           /\ Runs(c) = "audit" /\ pc'[c] \in Auditing => AllEnded("series")
           /\ Runs(c) = "pilot" /\ pc'[c] \in {"trial"} \cup Trying => AllEnded("series")
           /\ Runs(c) = "full" /\ pc'[c] \in {"copy", "trial"} \cup Trying =>
                 AllEnded("series") /\ AllEnded("pilot")
<1>1. CASE pc'[c] = pc[c]
    BY <1>1 DEF OrderInv
<1>2. CASE pc'[c] # pc[c]
  <2>0. Types
    BY DEF CampaignInv
  <2> USE <2>0 DEF Types, At, Goto, NoSave, Idle, Remember, Save, Raise
  <2>1. ASSUME NEW d \in Process, Invoke(d) \/ Progress(d) \/ Interrupt(d) \/ Kill(d) \/ ObserverFails(d)
        PROVE  c = d
    BY <1>2, <2>1, MovesAlone DEF Moves
  <2>2. ~(\E t \in Trial : Works0(t) \/ Dies(t) \/ WorkerFails(t) \/ Stop(t))
    BY <1>2 DEF Works0, Opens, Imports, Checks, Verifies, Fingerprints, Starts, Ends, Works,
                Dies, WorkerFails, Stop
  <2>3. ~(ChangeFile \/ ChangeRaw)
    BY <1>2 DEF ChangeFile, ChangeRaw
  <2>4. Invoke(c) \/ Progress(c) \/ Interrupt(c) \/ Kill(c) \/ ObserverFails(c)
    BY <2>1, <2>2, <2>3 DEF Next
  <2>5. CASE pc'[c] \in {"reserve", "prepare", "failing", "over", "dead"}
    BY <2>5 DEF Auditing, Trying, Launched
  <2>6. CASE AuditReads(c)
    BY <2>6, PassedHasEnded DEF AuditReads, SubjectOf, Subject, Auditing, Trying, Launched, Controllers
  <2>7. CASE PilotPrepares(c)
    BY <2>7 DEF PilotPrepares, OrderInv, Auditing, Trying, Launched
  <2>8. CASE FullReads(c)
    BY <2>8, PassedHasEnded DEF FullReads, AcceptedPilot, OrderInv, Auditing, Controllers, Trying, Launched
  <2>9. CASE FullPrepares(c) \/ Announce(c) \/ Launch(c) \/ Collected(c) \/ TimesOut(c) \/ Escalate(c)
    <3>1. pc[c] \in {"copy", "trial"} \cup Trying /\ pc'[c] \in {"failing", "trial"} \cup Trying
      BY <2>9 DEF FullPrepares, Announce, Launch, Collected, TimesOut, Escalate, Trying, Launched
    <3>2. Runs(c) \in Controllers /\ (pc[c] = "copy" => Runs(c) # "pilot")
      <4>1. Position(c, pc[c], index[c], state[c])
        BY DEF CampaignInv
      <4>2. pc[c] = "copy" => Runs(c) = "full"
        BY DEF OrderInv
      <4> QED BY <3>1, <4>1, <4>2 DEF Position
    <3> QED BY <2>5, <3>1, <3>2 DEF OrderInv, Controllers, Auditing, Trying, Launched
  <2>10. CASE Collect(c) \/ Validate(c)
    <3>1. pc[c] \in Trying /\ pc'[c] \in {"failing", "validate", "trial"}
      BY <2>10 DEF Collect, Validate, Trying, Launched
    <3> QED BY <2>5, <3>1 DEF OrderInv, Auditing, Trying, Launched
  <2>11. CASE Hashes(c) \/ Rows(c)
    <3>1. pc[c] \in Auditing /\ pc'[c] \in {"failing", "hash", "row"}
      BY <2>11 DEF Hashes, Rows, Auditing
    <3> QED BY <2>5, <3>1 DEF OrderInv, Auditing, Trying, Launched
  <2>12. CASE FinalReads(c)
    BY <2>12 DEF FinalReads, Auditing, Trying, Launched
  <2>13. CASE SeriesPrepares(c)
    BY <2>13 DEF SeriesPrepares
  <2>14. CASE Invoke(c) \/ Interrupt(c) \/ Kill(c) \/ ObserverFails(c)
    BY <2>5, <2>14 DEF Invoke, Interrupt, Kill, ObserverFails
  <2>15. CASE Reserve(c) \/ PilotBegins(c) \/ Fail(c) \/ AuditFails(c)
    BY <2>5, <2>15 DEF Reserve, PilotBegins, Fail, AuditFails
  <2>16. CASE GivesUp(c) \/ Finish(c) \/ Accept(c)
    BY <2>5, <2>16 DEF GivesUp, Finish, Accept
  <2> QED BY <2>4, <2>6, <2>7, <2>8, <2>9, <2>10, <2>11, <2>12, <2>13, <2>14, <2>15, <2>16
          DEF Progress, Controls, Audits
<1> QED BY <1>1, <1>2

\* An audit that is accepted had its subject read.
LEMMA AuditAccepted ==
    ASSUME CampaignInv, OrderInv, EvidenceInv, Next, Passed(report'["audit"])
    PROVE  AllEnded("series")
<1>1. CASE report'["audit"] = report["audit"]
    BY <1>1 DEF OrderInv
<1>2. CASE report'["audit"] # report["audit"]
  <2>1. PICK c \in Process : Invoke(c) \/ Progress(c) \/ Interrupt(c) \/ Kill(c) \/ ObserverFails(c)
    <3>1. ASSUME NEW t \in Trial, Works0(t) \/ Dies(t) \/ WorkerFails(t) \/ Stop(t)
          PROVE  report' = report
      BY <3>1 DEF Works0, Opens, Imports, Checks, Verifies, Fingerprints, Starts, Ends, Works,
                  Dies, WorkerFails, Stop, Elsewhere
    <3>2. ASSUME ChangeFile \/ ChangeRaw
          PROVE  report' = report
      BY <3>2 DEF ChangeFile, ChangeRaw
    <3> QED BY <1>2, <3>1, <3>2 DEF Next
  <2>2. Moves(c) /\ Runs(c) \in Program
    BY <2>1, MovesAlone, ProcessRuns DEF CampaignInv
  <2>3. Runs(c) = "audit" /\ report'["audit"] = state'[c] /\ state'[c].passed
    <3>1. report'["audit"] # report["audit"] => Runs(c) = "audit" /\ report'["audit"] = state'[c]
      <4>1. "audit" \in Program /\ report = [p \in Program |-> report[p]]
        BY DEF Program, Auditors, CampaignInv, Types
      <4> QED BY <2>2, <4>1 DEF Moves
    <3> QED BY <1>2, <3>1 DEF Passed
  <2>4. Accept(c)
    <3>1. Summary(pc[c], index[c], state[c])
      BY <2>3 DEF EvidenceInv, Auditors
    <3>2. Summary(pc'[c], index'[c], state'[c])
      BY <2>1, <2>3, AuditorStep DEF Auditors
    <3>3. pc'[c] = "over"
      BY <2>3, <3>2 DEF Summary
    <3>4. Reserve(c) \/ AuditFails(c) \/ Accept(c)
      BY <2>1, <2>3, <3>3 DEF At, Goto, Raise, CampaignInv, Types, Progress, Controls, Audits, Invoke, Interrupt, Kill,
         ObserverFails, PilotBegins, Fail, SeriesPrepares, PilotPrepares, FullReads, FullPrepares, Announce, Launch,
         Collected, TimesOut, Escalate, GivesUp, Collect, Validate, Finish, AuditReads, FinalReads, Hashes, Rows, Controllers
    <3>5. ~Reserve(c)
      BY <1>2, <3>3 DEF Reserve, Goto, NoSave, CampaignInv, Types
    <3>6. ~AuditFails(c)
      <4>1. ~[Fresh(c) EXCEPT !.complete = TRUE].passed
        BY DEF Fresh
      <4>2. AuditFails(c) => state'[c] = [Fresh(c) EXCEPT !.complete = TRUE]
        BY DEF AuditFails, Save, CampaignInv, Types
      <4> QED BY <2>3, <4>1, <4>2
    <3> QED BY <3>4, <3>5, <3>6
  <2>5. pc[c] \in Auditing
    BY <2>4 DEF Accept, At, Auditing
  <2> QED BY <2>3, <2>5 DEF OrderInv
<1> QED BY <1>1, <1>2

LEMMA OrderStep == CampaignInv /\ CampaignInv' /\ EvidenceInv /\ OrderInv /\ [Next]_vars => OrderInv'
<1> SUFFICES ASSUME CampaignInv, CampaignInv', EvidenceInv, OrderInv, [Next]_vars PROVE OrderInv'
    OBVIOUS
<1>1. CASE UNCHANGED vars
    BY <1>1 DEF vars, OrderInv, AllEnded, Ran
<1>2. CASE Next
  <2>1. \A p : AllEnded(p) => AllEnded(p)'
    BY EndedStays
  <2>2. Passed(report'["audit"]) => AllEnded("series")'
    BY <1>2, <2>1, AuditAccepted
  <2>3. ASSUME NEW p \in {"pilot", "full"}, Ran(p)'
        PROVE  AllEnded("series")' /\ (p = "full" => AllEnded("pilot")')
    <3>1. CASE Ran(p)
      BY <2>1, <2>3, <3>1 DEF OrderInv
    <3>2. CASE ~Ran(p)
      <4>1. PICK t \in Trial : t[1] = p /\ worker'[t].pc # "none" /\ worker[t].pc = "none"
        BY <2>3, <3>2 DEF Ran
      <4>2. PICK c \in Process : Launch(c) /\ t = TrialOf(c)
        BY <4>1, WorkerPlaces
      <4>3. Runs(c) = p /\ pc[c] \in Trying
        BY <4>1, <4>2 DEF Launch, At, TrialOf, Trying
      <4> QED BY <2>1, <4>3 DEF OrderInv
    <3> QED BY <3>1, <3>2
  <2>4. ASSUME NEW c \in Process
        PROVE  /\ pc'[c] = "copy" => Runs(c) = "full"
               /\ Runs(c) = "audit" /\ pc'[c] \in Auditing => AllEnded("series")'
               /\ Runs(c) = "pilot" /\ pc'[c] \in {"trial"} \cup Trying => AllEnded("series")'
               /\ Runs(c) = "full" /\ pc'[c] \in {"copy", "trial"} \cup Trying =>
                     AllEnded("series")' /\ AllEnded("pilot")'
    BY <1>2, <2>1, GoesOn
  <2>5. /\ Ran("pilot")' => AllEnded("series")'
        /\ Ran("full")' => AllEnded("series")' /\ AllEnded("pilot")'
    BY <2>3
  <2>6. \A p \in Controllers : \A k, l \in DOMAIN PlanOf[p] :
           l < k /\ worker'[<<p, k>>].pc # "none" => worker'[<<p, l>>].pc = "ended"
    BY LaunchInOrder
  <2> QED BY <2>2, <2>4, <2>5, <2>6 DEF OrderInv
<1> QED BY <1>1, <1>2

LEMMA OrderInit == Init => OrderInv
<1> SUFFICES ASSUME Init PROVE OrderInv
    OBVIOUS
<1>1. \A t \in Trial : worker[t].pc = "none"
    BY DEF Init, NoWorker
<1>2. \A c \in Process : pc[c] = "idle"
    BY DEF Init
<1>3. "idle" \notin Auditing \cup {"copy", "trial"} \cup Trying
    BY DEF Auditing, Trying, Launched
<1>4. ~Passed(report["audit"])
    BY DEF Init, Passed, Program, Auditors
<1>5. \A p \in Controllers : \A k \in DOMAIN PlanOf[p] : <<p, k>> \in Trial
    BY TrialIn
<1> QED BY <1>1, <1>2, <1>3, <1>4, <1>5 DEF OrderInv, Ran

LEMMA AtMostOne ==
    ASSUME NEW S, \A x, y \in S : x = y
    PROVE  Cardinality(S) <= 1
<1>1. CASE S = {}
    BY <1>1, FS_EmptySet
<1>2. CASE S # {}
  <2>1. PICK x : S = {x}
    BY <1>2
  <2> QED BY <2>1, FS_Singleton
<1> QED BY <1>1, <1>2

\* However the experiments are interrupted, killed and invoked again, no trial starts
\* beside one that still runs (Popen in the controllers, their exclusive logs, and
\* what every program asserts of the reports it rests on).
THEOREM OneWorkerRuns == Spec => []OneWorkerAtATime
<1>1. OrderInv /\ CampaignInv => OneWorkerAtATime
  <2> SUFFICES ASSUME OrderInv, CampaignInv, NEW t \in Trial, NEW u \in Trial, Alive(t), Alive(u) PROVE t = u
      BY AtMostOne DEF OneWorkerAtATime
  <2>1. PICK p \in Controllers : \E k \in DOMAIN PlanOf[p] : t = <<p, k>>
      BY DEF Trial
  <2>2. PICK q \in Controllers : \E l \in DOMAIN PlanOf[q] : u = <<q, l>>
      BY DEF Trial
  <2>3. PICK k \in DOMAIN PlanOf[p] : t = <<p, k>>
      BY <2>1
  <2>4. PICK l \in DOMAIN PlanOf[q] : u = <<q, l>>
      BY <2>2
  <2>5. ~AllEnded(p) /\ ~AllEnded(q) /\ Ran(p) /\ Ran(q)
      BY <2>3, <2>4 DEF AllEnded, Ran, Alive
  <2>6. p = q
      BY <2>5 DEF OrderInv, Controllers
  <2>7. k \in Nat /\ l \in Nat
      BY <2>3, <2>4, PlanPositions
  <2>8. ~(k < l) /\ ~(l < k)
      BY <2>3, <2>4, <2>6 DEF OrderInv, Alive
  <2> QED BY <2>3, <2>4, <2>6, <2>7, <2>8
<1>2. Spec => []EvidenceInv
    BY CampaignAlways, EvidenceInit, EvidenceStep, PTL DEF Spec
<1>3. Spec => []OrderInv
    BY <1>2, CampaignAlways, OrderInit, OrderStep, PTL DEF Spec
<1> QED BY <1>1, <1>3, CampaignAlways, PTL

-----------------------------------------------------------------------------
(* What the trials used *)

\* The files that are there from the beginning, or not before they are copied as a
\* whole, and are changed at most once after that: all but the caches of rebuilds.
Steady == {Library, Corpus, Original} \cup {CacheOf(t) : t \in {u \in Trial : SpecOf(u).mode = "hit"}}

\* A rebuild is a trial of the pilot, and its cache is no other trial's.
LEMMA RebuildIsPilot ==
    ASSUME NEW u \in Trial, SpecOf(u).mode # "hit"
    PROVE  u[1] = "pilot" /\ CacheOf(u) \notin Steady
<1>0. PICK p \in Controllers : \E k \in DOMAIN PlanOf[p] : u = <<p, k>>
  BY DEF Trial
<1>1. PICK k \in DOMAIN PlanOf[p] : u = <<p, k>>
  BY <1>0
<1>2. SpecOf(u) = PlanOf[p][k] /\ u[1] = p
  BY <1>1 DEF SpecOf
<1>3. p # "series" /\ p # "full"
  <2>1. ASSUME NEW s \in Seq(HitPlan), NEW i \in DOMAIN s PROVE s[i].mode = "hit"
    <3>1. s[i] \in HitPlan
      OBVIOUS
    <3> QED BY <3>1 DEF HitPlan
  <2> QED BY <1>2, <2>1, SeriesPlanType, FullPlanType DEF PlanOf
<1>4. p = "pilot" /\ CacheOf(u) = <<"cache", "pilot", k>>
  BY <1>1, <1>2, <1>3 DEF Controllers, CacheOf
<1>5. CacheOf(u) \notin {Library, Corpus, Original}
  BY <1>4 DEF Library, Corpus, Original
<1>6. ASSUME NEW t \in Trial, SpecOf(t).mode = "hit" PROVE CacheOf(t) # CacheOf(u)
  <2>0. PICK q \in Controllers : \E l \in DOMAIN PlanOf[q] : t = <<q, l>>
    BY DEF Trial
  <2>1. PICK l \in DOMAIN PlanOf[q] : t = <<q, l>>
    BY <2>0
  <2>2. CASE q = "series"
    <3>1. CacheOf(t) = Original
      BY <2>1, <2>2 DEF CacheOf
    <3>2. Original # <<"cache", "pilot", k>>
      BY DEF Original
    <3> QED BY <1>4, <3>1, <3>2
  <2>3. CASE q = "pilot"
    <3>1. l # k
      BY <1>1, <1>4, <1>6, <2>1, <2>3
    <3>2. CacheOf(t) = <<"cache", "pilot", l>>
      BY <2>1, <2>3 DEF CacheOf
    <3>3. <<"cache", "pilot", l>>[3] # <<"cache", "pilot", k>>[3]
      BY <3>1
    <3> QED BY <1>4, <3>2, <3>3
  <2>4. CASE q = "full"
    <3> DEFINE n == SpecOf(t).workers
    <3>1. CacheOf(t) = <<"cache", "full", n>>
      BY <2>1, <2>4 DEF CacheOf
    <3>2. <<"cache", "full", n>>[2] # <<"cache", "pilot", k>>[2]
      OBVIOUS
    <3> QED BY <1>4, <3>1, <3>2
  <2> QED BY <2>2, <2>3, <2>4 DEF Controllers
<1> QED BY <1>2, <1>4, <1>5, <1>6 DEF Steady

LEMMA SteadyFiles ==
    /\ Steady \subseteq File
    /\ \A t \in Trial : SpecOf(t).mode = "hit" => CacheOf(t) \in Steady
  BY DEF Steady, File

\* Which steps change a file.
LEMMA FileSteps ==
    ASSUME [Next]_vars
    PROVE  \/ file' = file \/ ChangeFile
           \/ \E c \in Process : FullPrepares(c)
           \/ \E u \in Trial : Starts(u)
<1>1. ASSUME NEW c \in Process, Invoke(c) \/ Interrupt(c) \/ Kill(c) \/ ObserverFails(c)
      PROVE  file' = file
  BY <1>1 DEF Invoke, Interrupt, Kill, ObserverFails
<1>2. ASSUME NEW c \in Process, Reserve(c) \/ PilotBegins(c) \/ Fail(c) \/ AuditFails(c) \/ Audits(c)
      PROVE  file' = file
  BY <1>2 DEF Reserve, PilotBegins, Fail, AuditFails, Audits, AuditReads, FinalReads, Hashes, Rows,
    Accept, Idle
<1>3. ASSUME NEW c \in Process, Controls(c)
      PROVE  file' = file \/ FullPrepares(c)
  BY <1>3 DEF Controls, SeriesPrepares, PilotPrepares, FullReads, Announce, Launch, Collected,
    TimesOut, Escalate, GivesUp, Collect, Validate, Finish, Idle
<1>4. ASSUME NEW t \in Trial, Works0(t) \/ Dies(t) \/ WorkerFails(t) \/ Stop(t)
      PROVE  file' = file \/ Starts(t)
  BY <1>4 DEF Works0, Opens, Imports, Checks, Verifies, Fingerprints, Ends, Dies, WorkerFails, Stop
<1>5. ChangeRaw \/ UNCHANGED vars => file' = file
  BY DEF ChangeRaw, vars
<1> QED BY <1>1, <1>2, <1>3, <1>4, <1>5 DEF Next, Progress

\* A steady file never goes away and never comes back to what it was.
LEMMA FilesGrow ==
    ASSUME CampaignInv, [Next]_vars, NEW f \in Steady
    PROVE  /\ file[f] # "absent" => file'[f] # "absent"
           /\ file[f] = "changed" => file'[f] = "changed"
<1>0. f \in File /\ file \in [File -> FileState]
  BY SteadyFiles DEF CampaignInv, Types
<1>1. CASE ChangeFile
  BY <1>0, <1>1 DEF ChangeFile
<1>2. CASE \E c \in Process : FullPrepares(c)
  BY <1>0, <1>2 DEF FullPrepares
<1>3. ASSUME NEW u \in Trial, Starts(u)
      PROVE  file'[f] = file[f]
  <2>1. file' = [file EXCEPT ![CacheOf(u)] = IF SpecOf(u).mode = "miss" THEN file[Corpus] ELSE @]
    BY <1>3 DEF Starts
  <2>2. CASE SpecOf(u).mode = "miss"
    BY <1>0, <2>1, <2>2, RebuildIsPilot
  <2>3. CASE SpecOf(u).mode # "miss"
    BY <1>0, <2>1, <2>3
  <2> QED BY <2>2, <2>3
<1> QED BY <1>1, <1>2, <1>3, FileSteps

\* A worker has seen a file: if it was changed then, it still is.
Seen(v, f, fs) == v \in {"frozen", "changed"} /\ (v = "changed" => fs[f] = "changed")

\* What a passed report says of the worker that wrote it.
Sound(t, w, x, fs) ==
    /\ w.pc = "ended" /\ x.library = w.sees /\ w.used = "frozen" /\ w.corpus = "frozen"
    /\ w.loaded \in {"frozen", "changed"} /\ Seen(w.sees, Library, fs)
    /\ IF t[1] = "series" THEN w.loaded = "changed" => w.sees = "changed" ELSE w.loaded = w.sees

\* What a worker knows on its way: first the trials of the series, then the startups.
SeriesPhase(w, fs) ==
    /\ w.pc \in {"none", "born", "import", "check", "verify", "final", "ended"}
    /\ w.pc \in {"none", "born", "import"} => w.loaded = "absent"
    /\ w.pc \in {"check", "verify", "final"} => Seen(w.loaded, Library, fs)
    /\ w.pc \in {"verify", "final"} => Seen(w.sees, Library, fs) /\ (w.loaded = "changed" => w.sees = "changed")
    /\ w.pc = "final" => Seen(w.used, Original, fs) /\ w.corpus = "frozen"
StartupPhase(t, w, fs) ==
    /\ w.pc \in {"none", "born", "check", "import", "read", "start", "final", "ended"}
    /\ w.pc \in {"import", "read", "start", "final"} =>
          Seen(w.sees, Library, fs) /\ (SpecOf(t).mode = "hit" => fs[CacheOf(t)] # "absent")
    /\ w.pc \in {"read", "start", "final"} =>
          Seen(w.loaded, Library, fs) /\ (w.sees = "changed" => w.loaded = "changed")
    /\ w.pc = "final" =>
          /\ Seen(w.corpus, Corpus, fs)
          /\ IF SpecOf(t).mode = "hit" THEN Seen(w.used, CacheOf(t), fs) ELSE w.used = w.corpus

Phase(t, w, x, fs) ==
    /\ x.is = "passed" => Sound(t, w, x, fs)
    /\ IF t[1] = "series" THEN SeriesPhase(w, fs) ELSE StartupPhase(t, w, fs)

PhaseInv ==
    /\ \A f \in {Library, Corpus, Original} : file[f] # "absent"
    /\ \A t \in Trial : Phase(t, worker[t], raw[t], file)

\* A step that leaves a worker where it is.
SamePhase(w, v) ==
    v.pc = w.pc /\ v.loaded = w.loaded /\ v.sees = w.sees /\ v.used = w.used /\ v.corpus = w.corpus
    /\ v.by = w.by
Kept(t) ==
    /\ SamePhase(worker[t], worker'[t])
    /\ \/ raw'[t] = raw[t]
       \/ raw[t].is = "passed" /\ raw'[t] = [raw[t] EXCEPT !.elapsed = "edited"]
Launches(t) ==
    \E c \in Process :
        /\ Launch(c) /\ TrialOf(c) = t /\ worker[t].pc = "none"
        /\ worker' = [worker EXCEPT ![t].pc = "born", ![t].by = c]

\* All other steps are those of a worker that begins, goes on or ends.
LEMMA WorkSteps ==
    ASSUME CampaignInv, [Next]_vars, NEW t \in Trial
    PROVE  Kept(t) \/ Launches(t) \/ Works0(t) \/ Dies(t) \/ WorkerFails(t)
<1>0. /\ worker \in [Trial -> WorkerType] /\ raw \in [Trial -> RawType]
      /\ worker[t] \in WorkerType /\ raw[t] \in RawType
  BY DEF CampaignInv, Types
<1>1. ASSUME worker' = worker, raw' = raw PROVE Kept(t)
  BY <1>1 DEF Kept, SamePhase
<1>2. ASSUME NEW c \in Process, Invoke(c) \/ Interrupt(c) \/ Kill(c) \/ ObserverFails(c)
      PROVE  worker' = worker /\ raw' = raw
  BY <1>2 DEF Invoke, Interrupt, Kill, ObserverFails
<1>3. ASSUME NEW c \in Process, Reserve(c) \/ PilotBegins(c) \/ Fail(c) \/ AuditFails(c) \/ Audits(c)
      PROVE  worker' = worker /\ raw' = raw
  BY <1>3 DEF Reserve, PilotBegins, Fail, AuditFails, Audits, AuditReads, FinalReads, Hashes, Rows,
    Accept, Idle
<1>4. ASSUME NEW c \in Process, NEW s, Signal(c, s), raw' = raw PROVE Kept(t)
  <2> DEFINE u == TrialOf(c)
  <2>1. worker' = [worker EXCEPT ![u].signal = s]
    BY <1>4 DEF Signal
  <2> HIDE DEF u
  <2>2. worker'[t] = worker[t] \/ worker'[t] = [worker[t] EXCEPT !.signal = s]
    BY <1>0, <2>1
  <2>3. LET v == [worker[t] EXCEPT !.signal = s] IN SamePhase(worker[t], v)
    BY <1>0 DEF WorkerType, SamePhase
  <2> QED BY <1>4, <2>2, <2>3 DEF Kept, SamePhase
<1>5. ASSUME NEW c \in Process, Launch(c) PROVE Kept(t) \/ Launches(t)
  <2>1. raw' = raw
    BY <1>5 DEF Launch
  <2>2. CASE worker' = worker
    BY <1>1, <2>1, <2>2
  <2>3. CASE worker' # worker
    <3> DEFINE u == TrialOf(c)
    <3>1. /\ worker[u].pc = "none"
          /\ worker' = [worker EXCEPT ![u].pc = "born", ![u].by = c]
      BY <1>5, <2>3 DEF Launch
    <3> HIDE DEF u
    <3>2. CASE u = t
      BY <1>5, <3>1, <3>2 DEF Launches, u
    <3>3. CASE u # t
      <4>1. worker'[t] = worker[t]
        BY <1>0, <3>1, <3>3
      <4> QED BY <2>1, <4>1 DEF Kept, SamePhase
    <3> QED BY <3>2, <3>3
  <2> QED BY <2>2, <2>3
<1>6. ASSUME NEW c \in Process, Controls(c) PROVE Kept(t) \/ Launches(t)
  <2>1. CASE \/ SeriesPrepares(c) \/ PilotPrepares(c) \/ FullReads(c) \/ FullPrepares(c) \/ Announce(c)
             \/ Collected(c) \/ GivesUp(c) \/ Collect(c) \/ Validate(c) \/ Finish(c)
    BY <1>1, <2>1 DEF SeriesPrepares, PilotPrepares, FullReads, FullPrepares, Announce, Collected,
      GivesUp, Collect, Validate, Finish, Idle
  <2>2. CASE TimesOut(c) \/ Escalate(c)
    BY <1>4, <2>2 DEF TimesOut, Escalate
  <2> QED BY <1>5, <1>6, <2>1, <2>2 DEF Controls
<1>7. ASSUME NEW u \in Trial, u # t, Works0(u) \/ Dies(u) \/ WorkerFails(u) PROVE Kept(t)
  <2>1. ASSUME NEW w, Become(u, w) PROVE worker'[t] = worker[t]
    BY <1>0, <1>7, <2>1 DEF Become
  <2>2. ASSUME NEW status, NEW left, Exit(u, status, left)
        PROVE  worker'[t] = worker[t] /\ raw'[t] = raw[t]
    BY <1>0, <1>7, <2>1, <2>2 DEF Exit
  <2>3. worker'[t] = worker[t] /\ raw'[t] = raw[t]
    <3>1. CASE Opens(u) \/ Imports(u) \/ Checks(u)
      BY <1>0, <1>7, <2>1, <2>2, <3>1 DEF Opens, Imports, Checks
    <3>2. CASE Verifies(u) \/ Fingerprints(u) \/ Starts(u) \/ Ends(u)
      BY <1>0, <1>7, <2>1, <2>2, <3>2 DEF Verifies, Fingerprints, Starts, Ends
    <3>3. CASE Dies(u) \/ WorkerFails(u)
      BY <1>0, <1>7, <2>1, <2>2, <3>3 DEF Dies, WorkerFails
    <3> QED BY <1>7, <3>1, <3>2, <3>3 DEF Works0
  <2> QED BY <2>3 DEF Kept, SamePhase
<1>8. ASSUME NEW u \in Trial, Stop(u) PROVE Kept(t)
  <2>1. worker' = [worker EXCEPT ![u] = [worker[u] EXCEPT !.stopped = TRUE]] /\ raw' = raw
    BY <1>8 DEF Stop, Become
  <2>2. worker'[t] = worker[t] \/ worker'[t] = [worker[t] EXCEPT !.stopped = TRUE]
    BY <1>0, <2>1
  <2>3. LET v == [worker[t] EXCEPT !.stopped = TRUE] IN SamePhase(worker[t], v)
    BY <1>0 DEF WorkerType, SamePhase
  <2> QED BY <2>1, <2>2, <2>3 DEF Kept, SamePhase
<1>9. ASSUME ChangeRaw PROVE Kept(t)
  <2>1. PICK u \in Trial : raw[u].is = "passed" /\ raw' = [raw EXCEPT ![u].elapsed = "edited"]
    BY <1>9 DEF ChangeRaw
  <2>2. worker' = worker
    BY <1>9 DEF ChangeRaw
  <2>3. CASE u = t
    <3>1. raw'[t] = [raw[t] EXCEPT !.elapsed = "edited"]
      BY <1>0, <2>1, <2>3
    <3> QED BY <2>1, <2>2, <2>3, <3>1 DEF Kept, SamePhase
  <2>4. CASE u # t
    <3>1. raw'[t] = raw[t]
      BY <1>0, <2>1, <2>4
    <3> QED BY <2>2, <3>1 DEF Kept, SamePhase
  <2> QED BY <2>3, <2>4
<1>10. ChangeFile \/ UNCHANGED vars => worker' = worker /\ raw' = raw
  BY DEF ChangeFile, vars
<1> QED BY <1>1, <1>2, <1>3, <1>6, <1>7, <1>8, <1>9, <1>10 DEF Next, Progress

\* A report that is kept says the same, but for a time that was edited.
LEMMA KeptReport ==
    ASSUME CampaignInv, NEW t \in Trial, Kept(t)
    PROVE  /\ raw'[t].is = "passed" <=> raw[t].is = "passed"
           /\ raw[t].is = "passed" =>
                 /\ raw'[t].library = raw[t].library
                 /\ raw[t].elapsed \in {"measured", "edited"}
                 /\ raw'[t].elapsed \in {raw[t].elapsed, "edited"}
<1>1. raw[t] \in RawType
  BY DEF CampaignInv, Types
<1>2. raw[t].is = "passed" => raw[t] \in PassedRaw
  BY <1>1 DEF RawType, Nothing, Reserved, Failed
<1>3. CASE raw[t].is = "passed"
  <2> DEFINE x == [raw[t] EXCEPT !.elapsed = "edited"]
  <2>1. /\ x.is = "passed" /\ x.library = raw[t].library /\ x.elapsed = "edited"
        /\ raw[t].elapsed \in {"measured", "edited"}
    BY <1>2, <1>3 DEF PassedRaw
  <2>2. raw'[t] = raw[t] \/ raw'[t] = x
    BY DEF Kept
  <2> HIDE DEF x
  <2> QED BY <1>3, <2>1, <2>2
<1>4. CASE raw[t].is # "passed"
  BY <1>4 DEF Kept
<1> QED BY <1>3, <1>4

\* A worker that stays where it is keeps what it knows.
LEMMA PhaseKept ==
    ASSUME CampaignInv, PhaseInv, [Next]_vars, NEW t \in Trial, Kept(t)
    PROVE  Phase(t, worker'[t], raw'[t], file')
<1>1. Phase(t, worker[t], raw[t], file) /\ SamePhase(worker[t], worker'[t])
  BY DEF PhaseInv, Kept
<1>2. \A f \in Steady : /\ file[f] # "absent" => file'[f] # "absent"
                        /\ file[f] = "changed" => file'[f] = "changed"
  BY FilesGrow
<1>3. {Library, Corpus, Original} \subseteq Steady /\ (SpecOf(t).mode = "hit" => CacheOf(t) \in Steady)
  BY SteadyFiles DEF Steady
<1>4. raw'[t].is = "passed" => Sound(t, worker'[t], raw'[t], file')
  BY <1>1, <1>2, <1>3, KeptReport DEF Phase, Sound, Seen, SamePhase
<1>5. t[1] = "series" => SeriesPhase(worker'[t], file')
  BY <1>1, <1>2, <1>3 DEF Phase, SeriesPhase, Seen, SamePhase
<1>6. t[1] # "series" => StartupPhase(t, worker'[t], file')
  BY <1>1, <1>2, <1>3 DEF Phase, StartupPhase, Seen, SamePhase
<1> QED BY <1>4, <1>5, <1>6 DEF Phase, Sound

\* What an exit leaves.
LEMMA ExitLeaves ==
    ASSUME CampaignInv, NEW t \in Trial, NEW status, NEW left, Exit(t, status, left)
    PROVE  /\ worker'[t].pc = "ended" /\ raw'[t] = left /\ worker'[t].by = worker[t].by
           /\ worker'[t].loaded = worker[t].loaded /\ worker'[t].sees = worker[t].sees
           /\ worker'[t].used = worker[t].used /\ worker'[t].corpus = worker[t].corpus
<1>1. /\ worker \in [Trial -> WorkerType] /\ raw \in [Trial -> RawType] /\ worker[t] \in WorkerType
  BY DEF CampaignInv, Types
<1>2. raw'[t] = left /\ worker'[t] = [worker[t] EXCEPT !.pc = "ended", !.code = status]
  BY <1>1 DEF Exit, Become
<1> DEFINE w == [worker[t] EXCEPT !.pc = "ended", !.code = status]
<1>3. /\ w.pc = "ended" /\ w.loaded = worker[t].loaded /\ w.sees = worker[t].sees
      /\ w.used = worker[t].used /\ w.corpus = worker[t].corpus /\ w.by = worker[t].by
  BY <1>1 DEF WorkerType
<1> QED BY <1>2, <1>3

\* What a trial is asked to do.
LEMMA SpecIsPlanned ==
    ASSUME NEW t \in Trial
    PROVE  SpecOf(t) \in Plan
<1>1. PICK p \in Controllers : \E k \in DOMAIN PlanOf[p] : t = <<p, k>>
  BY DEF Trial
<1>2. PICK k \in DOMAIN PlanOf[p] : t = <<p, k>>
  BY <1>1
<1> DEFINE S == PlanOf[p]
<1>3. S \in Seq(Plan)
  BY PlansAreSequences DEF Plan
<1>4. k \in DOMAIN S /\ SpecOf(t) = S[k]
  BY <1>2 DEF SpecOf
<1> HIDE DEF S
<1>5. S[k] \in Plan
  BY <1>3, <1>4
<1> QED BY <1>4, <1>5

\* The steps of the trials keep it.
LEMMA PhaseWorks ==
    ASSUME CampaignInv, PhaseInv, [Next]_vars, NEW t \in Trial, Works0(t)
    PROVE  Phase(t, worker'[t], raw'[t], file')
<1> DEFINE w == worker[t]
<1> DEFINE v == worker'[t]
<1>0. /\ worker \in [Trial -> WorkerType] /\ raw \in [Trial -> RawType] /\ w \in WorkerType
      /\ file \in [File -> FileState]
  BY DEF CampaignInv, Types
<1>1. /\ raw[t].is = "passed" => w.pc = "ended"
      /\ t[1] = "series" => SeriesPhase(w, file)
      /\ t[1] # "series" => StartupPhase(t, w, file)
  BY DEF PhaseInv, Phase, Sound
<1>2. \A f \in Steady : /\ file[f] # "absent" => file'[f] # "absent"
                        /\ file[f] = "changed" => file'[f] = "changed"
  BY FilesGrow
<1>3. {Library, Corpus, Original} \subseteq Steady /\ (SpecOf(t).mode = "hit" => CacheOf(t) \in Steady)
  BY SteadyFiles DEF Steady
<1>4. file[Library] \in {"frozen", "changed"} /\ file[Corpus] \in {"frozen", "changed"}
      /\ file[Original] \in {"frozen", "changed"}
  <2>1. {Library, Corpus, Original} \subseteq File
    BY <1>3, SteadyFiles
  <2> QED BY <1>0, <2>1 DEF PhaseInv, FileState
<1>5. Reserved.is # "passed" /\ Failed.is # "passed"
  BY DEF Reserved, Failed
<1>6. ASSUME NEW status, NEW left, Exit(t, status, left), left.is # "passed"
      PROVE  Phase(t, v, raw'[t], file')
  <2>1. v.pc = "ended" /\ raw'[t] = left
    BY <1>6, ExitLeaves
  <2> HIDE DEF v
  <2>2. Phase(t, v, left, file')
    BY <1>6, <2>1 DEF Phase, SeriesPhase, StartupPhase
  <2> QED BY <2>1, <2>2
<1>7. CASE Opens(t)
  <2>1. w.pc = "born" /\ raw[t].is # "passed"
    BY <1>1, <1>7 DEF Opens, Works
  <2>2. CASE Exit(t, 1, raw[t])
    BY <1>6, <2>1, <2>2
  <2>3. CASE ~Exit(t, 1, raw[t])
    <3> DEFINE n == [w EXCEPT !.script = file[Harness(t[1])],
                              !.pc = IF t[1] = "series" THEN "import" ELSE "check"]
    <3>1. v = n /\ raw'[t] = Reserved
      BY <1>0, <1>7, <2>3 DEF Opens, Become
    <3>2. n.loaded = w.loaded /\ n.pc = IF t[1] = "series" THEN "import" ELSE "check"
      BY <1>0 DEF WorkerType
    <3> HIDE DEF n
    <3> QED BY <1>1, <1>5, <2>1, <3>1, <3>2 DEF Phase, SeriesPhase, StartupPhase
  <2> QED BY <2>2, <2>3
<1>8. CASE Imports(t)
  <2> DEFINE n == [w EXCEPT !.loaded = file[Library],
                            !.pc = IF t[1] = "series" THEN "check" ELSE "read"]
  <2>1. w.pc = "import" /\ v = n /\ raw' = raw /\ file' = file
    BY <1>0, <1>8 DEF Imports, Become, Works
  <2>2. /\ n.loaded = file[Library] /\ n.sees = w.sees
        /\ n.pc = IF t[1] = "series" THEN "check" ELSE "read"
    BY <1>0 DEF WorkerType
  <2> HIDE DEF n, w
  <2> QED BY <1>1, <1>4, <2>1, <2>2 DEF Phase, SeriesPhase, StartupPhase, Seen
<1>9. CASE Checks(t)
  <2>1. w.pc = "check" /\ file' = file
    BY <1>9 DEF Checks, Works
  <2>2. CASE Exit(t, 1, Failed)
    BY <1>5, <1>6, <2>2
  <2>3. CASE ~Exit(t, 1, Failed)
    <3> DEFINE n == [w EXCEPT !.sees = file[Library],
                              !.pc = IF t[1] = "series" THEN "verify" ELSE "import"]
    <3>1. v = n /\ raw' = raw /\ CacheIsReady(t)
      BY <1>0, <1>9, <2>3 DEF Checks, Become
    <3>2. /\ n.sees = file[Library] /\ n.loaded = w.loaded
          /\ n.pc = IF t[1] = "series" THEN "verify" ELSE "import"
      BY <1>0 DEF WorkerType
    <3> HIDE DEF n, w
    <3> QED BY <1>1, <1>4, <2>1, <3>1, <3>2 DEF Phase, SeriesPhase, StartupPhase, Seen, CacheIsReady
  <2> QED BY <2>2, <2>3
<1>10. CASE Verifies(t)
  <2>1. w.pc = "verify" /\ file' = file
    BY <1>10 DEF Verifies, Works
  <2>2. CASE Exit(t, 1, Failed)
    BY <1>5, <1>6, <2>2
  <2>3. CASE ~Exit(t, 1, Failed)
    <3> DEFINE n == [w EXCEPT !.used = file[CacheOf(t)], !.corpus = "frozen", !.pc = "final"]
    <3>1. v = n /\ raw' = raw
      BY <1>0, <1>10, <2>3 DEF Verifies, Become
    <3>2. /\ n.sees = w.sees /\ n.loaded = w.loaded /\ n.used = file[CacheOf(t)]
          /\ n.corpus = "frozen" /\ n.pc = "final"
      BY <1>0 DEF WorkerType
    <3>3. t[1] = "series"
      BY <1>1, <2>1 DEF StartupPhase
    <3>4. CacheOf(t) = Original
      BY <3>3 DEF CacheOf
    <3> HIDE DEF n, w
    <3> QED BY <1>1, <1>4, <2>1, <3>1, <3>2, <3>3, <3>4 DEF Phase, SeriesPhase, Seen
  <2> QED BY <2>2, <2>3
<1>11. CASE Fingerprints(t)
  <2>1. w.pc = "read" /\ file' = file
    BY <1>11 DEF Fingerprints, Works
  <2>2. CASE Exit(t, 1, Failed)
    BY <1>5, <1>6, <2>2
  <2>3. CASE ~Exit(t, 1, Failed)
    <3> DEFINE n == [w EXCEPT !.pc = "start"]
    <3>1. v = n /\ raw' = raw
      BY <1>0, <1>11, <2>3 DEF Fingerprints, Become
    <3>2. n.sees = w.sees /\ n.loaded = w.loaded /\ n.pc = "start"
      BY <1>0 DEF WorkerType
    <3>3. t[1] # "series"
      BY <1>1, <2>1 DEF SeriesPhase
    <3> HIDE DEF n, w
    <3> QED BY <1>1, <2>1, <3>1, <3>2, <3>3 DEF Phase, StartupPhase, Seen
  <2> QED BY <2>2, <2>3
<1>12. CASE Starts(t)
  <2> DEFINE u == file'[CacheOf(t)]
  <2> DEFINE n == [w EXCEPT !.used = u, !.corpus = file[Corpus], !.pc = "final"]
  <2>1. w.pc = "start" /\ v = n /\ raw' = raw
    BY <1>0, <1>12 DEF Starts, Works, Become
  <2>2. n.sees = w.sees /\ n.loaded = w.loaded /\ n.used = u /\ n.corpus = file[Corpus] /\ n.pc = "final"
    <3> HIDE DEF u
    <3> QED BY <1>0 DEF WorkerType
  <2>3. t[1] # "series"
    BY <1>1, <2>1 DEF SeriesPhase
  <2>4. CacheOf(t) \in File
    BY DEF File
  <2>5. SpecOf(t).mode \in {"miss", "hit"}
    BY SpecIsPlanned DEF Plan
  <2>6. SpecOf(t).mode = "miss" => u = file[Corpus]
    BY <1>0, <1>12, <2>4 DEF Starts
  <2>7. SpecOf(t).mode = "hit" => file'[CacheOf(t)] = file[CacheOf(t)] /\ file[CacheOf(t)] \in {"frozen", "changed"}
    <3>1. SpecOf(t).mode = "hit" => file'[CacheOf(t)] = file[CacheOf(t)]
      BY <1>0, <1>12, <2>4 DEF Starts
    <3>2. SpecOf(t).mode = "hit" => file[CacheOf(t)] # "absent"
      BY <1>1, <2>1, <2>3 DEF StartupPhase
    <3>3. file[CacheOf(t)] \in FileState
      BY <1>0, <2>4
    <3> QED BY <3>1, <3>2, <3>3 DEF FileState
  <2>8. \A f \in {Library, Corpus, Original} : file[f] = "changed" => file'[f] = "changed"
    BY <1>2, <1>3
  <2> HIDE DEF n, w, u
  <2>9. Seen(v.sees, Library, file') /\ Seen(v.loaded, Library, file') /\ (v.sees = "changed" => v.loaded = "changed")
    BY <1>1, <2>1, <2>2, <2>3, <2>8 DEF StartupPhase, Seen
  <2>10. Seen(v.corpus, Corpus, file')
    BY <1>4, <2>1, <2>2, <2>8 DEF Seen
  <2>11. SpecOf(t).mode = "miss" => v.used = v.corpus
    BY <2>1, <2>2, <2>6
  <2>12. SpecOf(t).mode = "hit" => Seen(v.used, CacheOf(t), file') /\ file'[CacheOf(t)] # "absent"
    BY <2>1, <2>2, <2>7 DEF Seen, u
  <2>13. v.pc = "final" /\ raw'[t].is # "passed"
    BY <1>1, <2>1, <2>2
  <2> DEFINE x == raw'[t]
  <2> HIDE DEF v, x
  <2>14. StartupPhase(t, v, file')
    BY <2>5, <2>9, <2>10, <2>11, <2>12, <2>13 DEF StartupPhase
  <2>15. Phase(t, v, x, file')
    BY <2>3, <2>13, <2>14 DEF Phase, x
  <2> QED BY <2>15 DEF v, x
<1>13. CASE Ends(t)
  <2>1. w.pc = "final" /\ file' = file
    BY <1>13 DEF Ends, Works
  <2>2. CASE Exit(t, 1, Failed)
    BY <1>5, <1>6, <2>2
  <2>3. CASE ~Exit(t, 1, Failed)
    <3>1. Unchanged(t) /\ Exit(t, 0, Measured(t))
      BY <1>13, <2>3 DEF Ends
    <3>2. /\ v.pc = "ended" /\ raw'[t] = Measured(t)
          /\ v.loaded = w.loaded /\ v.sees = w.sees /\ v.used = w.used /\ v.corpus = w.corpus
      BY <3>1, ExitLeaves
    <3>3. Measured(t).library = w.sees
      BY DEF Measured
    <3> HIDE DEF v
    <3>4. CASE t[1] = "series"
      <4>1. CacheOf(t) = Original
        BY <3>4 DEF CacheOf
      <4>2. file[Original] = "frozen" /\ file[Library] = w.sees
        BY <3>1, <3>4, <4>1 DEF Unchanged, SeriesUnchanged
      <4>3. /\ Seen(w.loaded, Library, file) /\ Seen(w.sees, Library, file) /\ (w.loaded = "changed" => w.sees = "changed")
            /\ Seen(w.used, Original, file) /\ w.corpus = "frozen"
        BY <1>1, <2>1, <3>4 DEF SeriesPhase
      <4> HIDE DEF w
      <4>4. Sound(t, v, Measured(t), file')
        BY <2>1, <3>2, <3>3, <3>4, <4>2, <4>3 DEF Sound, Seen
      <4>5. SeriesPhase(v, file')
        BY <3>2 DEF SeriesPhase
      <4> QED BY <3>2, <3>4, <4>4, <4>5 DEF Phase, Sound, v
    <3>5. CASE t[1] # "series"
      <4>1. /\ SpecOf(t).mode = "hit" => file[CacheOf(t)] = "frozen"
            /\ file[Library] = w.sees /\ file[Corpus] = "frozen"
        BY <3>1, <3>5 DEF Unchanged, StartupUnchanged
      <4>2. /\ Seen(w.loaded, Library, file) /\ Seen(w.sees, Library, file) /\ (w.sees = "changed" => w.loaded = "changed")
            /\ Seen(w.corpus, Corpus, file)
            /\ IF SpecOf(t).mode = "hit" THEN Seen(w.used, CacheOf(t), file) ELSE w.used = w.corpus
        BY <1>1, <2>1, <3>5 DEF StartupPhase
      <4> HIDE DEF w
      <4>3. Sound(t, v, Measured(t), file')
        BY <2>1, <3>2, <3>3, <3>5, <4>1, <4>2 DEF Sound, Seen
      <4>4. StartupPhase(t, v, file')
        BY <3>2 DEF StartupPhase
      <4> QED BY <3>2, <3>5, <4>3, <4>4 DEF Phase, Sound, v
    <3> QED BY <3>4, <3>5
  <2> QED BY <2>2, <2>3
<1> QED BY <1>7, <1>8, <1>9, <1>10, <1>11, <1>12, <1>13 DEF Works0

\* A worker that dies or fails has not passed.
LEMMA PhaseEnds ==
    ASSUME CampaignInv, PhaseInv, NEW t \in Trial, Dies(t) \/ WorkerFails(t)
    PROVE  Phase(t, worker'[t], raw'[t], file')
<1>1. worker[t].pc # "ended" /\ raw[t].is # "passed"
  BY DEF Dies, WorkerFails, Alive, PhaseInv, Phase, Sound
<1>2. PICK status, left : Exit(t, status, left) /\ left \in {raw[t], Failed}
  BY DEF Dies, WorkerFails
<1>3. left.is # "passed"
  BY <1>1, <1>2 DEF Failed
<1>4. worker'[t].pc = "ended" /\ raw'[t] = left
  BY <1>2, ExitLeaves
<1> QED BY <1>3, <1>4 DEF Phase, SeriesPhase, StartupPhase

LEMMA PhaseBegins ==
    ASSUME CampaignInv, PhaseInv, NEW t \in Trial, Launches(t)
    PROVE  Phase(t, worker'[t], raw'[t], file')
<1> DEFINE w == worker[t]
<1>0. worker \in [Trial -> WorkerType] /\ w \in WorkerType
  BY DEF CampaignInv, Types
<1>1. PICK c \in Process : /\ Launch(c) /\ w.pc = "none"
                           /\ worker' = [worker EXCEPT ![t].pc = "born", ![t].by = c]
  BY DEF Launches
<1>2. /\ raw[t].is # "passed" /\ raw' = raw
      /\ t[1] = "series" => w.loaded = "absent"
  BY <1>1 DEF PhaseInv, Phase, Sound, SeriesPhase, Launch
<1> DEFINE n == [w EXCEPT !.pc = "born", !.by = c]
<1>3. worker'[t] = n
  BY <1>0, <1>1
<1>4. n.pc = "born" /\ n.loaded = w.loaded
  BY <1>0 DEF WorkerType
<1> HIDE DEF n, w
<1> QED BY <1>2, <1>3, <1>4 DEF Phase, SeriesPhase, StartupPhase

LEMMA PhaseStep == CampaignInv /\ PhaseInv /\ [Next]_vars => PhaseInv'
<1> SUFFICES ASSUME CampaignInv, PhaseInv, [Next]_vars PROVE PhaseInv'
  OBVIOUS
<1>1. \A f \in {Library, Corpus, Original} : file'[f] # "absent"
  BY FilesGrow DEF Steady, PhaseInv
<1>2. ASSUME NEW t \in Trial PROVE Phase(t, worker'[t], raw'[t], file')
  BY WorkSteps, PhaseKept, PhaseBegins, PhaseWorks, PhaseEnds
<1> QED BY <1>1, <1>2 DEF PhaseInv

LEMMA PhaseInit == Init => PhaseInv
<1> SUFFICES ASSUME Init PROVE PhaseInv
  OBVIOUS
<1>1. {Library, Corpus, Original} \subseteq File
  BY DEF File
<1>2. ASSUME NEW t \in Trial, t[1] = "full" \/ SpecOf(t).mode = "miss"
      PROVE  CacheOf(t) \notin {Library, Corpus, Original}
  <2>1. SpecOf(t).mode = "miss" => t[1] = "pilot"
    BY RebuildIsPilot
  <2> QED BY <1>2, <2>1 DEF CacheOf, Library, Corpus, Original
<1>3. Harness("full") \notin {Library, Corpus, Original}
  BY DEF Harness, Library, Corpus, Original
<1>4. \A f \in {Library, Corpus, Original} : file[f] = "frozen"
  BY <1>1, <1>2, <1>3 DEF Init
<1>5. ASSUME NEW t \in Trial PROVE Phase(t, worker[t], raw[t], file)
  BY DEF Init, NoWorker, Nothing, Phase, SeriesPhase, StartupPhase
<1> QED BY <1>4, <1>5 DEF PhaseInv

LEMMA PhaseAlways == Spec => []PhaseInv
<1>1. CampaignInv /\ PhaseInv /\ [Next]_vars => PhaseInv'
  BY PhaseStep
<1> QED BY <1>1, PhaseInit, CampaignAlways, PTL DEF Spec

-----------------------------------------------------------------------------
(* What the reports say of the trials *)

Edited(v, x) == v \in {"measured", "edited"} /\ (v = "edited" => x.elapsed = "edited")

\* A validated record of the trial t, in a report bound to b: what it says of the
\* worker w and of the report x that w left.
Confirmed(t, rec, b, w, x) ==
    /\ x.is = "passed" /\ rec.raw.library = w.sees
    /\ t[1] # "pilot" => b = w.sees
    /\ t[1] = "series" /\ t[2] > 1 => w.loaded = w.sees
    /\ Edited(rec.elapsed, x) /\ Edited(rec.raw.elapsed, x)
    /\ rec.raw.elapsed = "edited" => rec.elapsed = "edited"

Reads(p, r, ws, xs) ==
    \A k \in DOMAIN r.records : r.records[k].validated =>
        Confirmed(<<p, k>>, r.records[k], r.binding, ws[<<p, k>>], xs[<<p, k>>])

\* A record that has been collected, before it is validated.
Collects(rec, w, x) ==
    rec.raw.is = "passed" =>
        rec.raw.library = w.sees /\ Edited(rec.raw.elapsed, x)

\* After the first trial of the series, a library that was changed before is executed.
Follows(t, w, b) ==
    t[1] = "series" /\ t[2] > 1 /\ w.pc # "none" => b # "none" /\ (b = "changed" => w.loaded # "frozen")

ConfirmInv ==
    /\ \A c \in Process : Runs(c) \in Controllers =>
          /\ Reads(Runs(c), state[c], worker, raw)
          /\ state[c].binding = "none" \/ Seen(state[c].binding, Library, file)
          /\ pc[c] \in {"idle", "reserve"} => state[c].binding = "none"
          /\ pc[c] = "validate" => Collects(Record(c), worker[TrialOf(c)], raw[TrialOf(c)])
    /\ \A p \in Controllers : report[p] # Nothing => Reads(p, report[p], worker, raw)
    /\ \A t \in Trial : \A c \in Process :
          worker[t].pc # "none" /\ worker[t].by = c => Runs(c) = t[1] /\ Follows(t, worker[t], state[c].binding)

\* Nothing more is validated.
SameRecords(q, r) ==
    /\ r.binding = q.binding
    /\ \A k \in DOMAIN r.records : r.records[k].validated =>
          k \in DOMAIN q.records /\ r.records[k] = q.records[k]

LEMMA SameRecordsRead ==
    ASSUME NEW p, NEW q, NEW r, NEW ws, NEW xs, SameRecords(q, r), Reads(p, q, ws, xs)
    PROVE  Reads(p, r, ws, xs)
BY DEF SameRecords, Reads

\* A worker that has ended stays, and so does what it left, but for its time.
LEMMA EndedKept ==
    ASSUME CampaignInv, [Next]_vars, NEW t \in Trial, worker[t].pc = "ended"
    PROVE  Kept(t)
<1>1. ~Works0(t)
  BY DEF Works0, Opens, Imports, Checks, Verifies, Fingerprints, Starts, Ends, Works
<1>2. ~Dies(t) /\ ~WorkerFails(t) /\ ~Launches(t)
  BY DEF Dies, WorkerFails, Alive, Launches
<1> QED BY <1>1, <1>2, WorkSteps

LEMMA EditedStays ==
    ASSUME CampaignInv, NEW t \in Trial, Kept(t), raw[t].is = "passed", NEW v, Edited(v, raw[t])
    PROVE  Edited(v, raw'[t])
BY KeptReport DEF Edited

LEMMA ReadsStay ==
    ASSUME CampaignInv, [Next]_vars, NEW c, NEW r, Good(c, r, worker), Reads(Runs(c), r, worker, raw)
    PROVE  Reads(Runs(c), r, worker', raw')
<1> SUFFICES ASSUME NEW k \in DOMAIN r.records, r.records[k].validated
             PROVE  Confirmed(<<Runs(c), k>>, r.records[k], r.binding, worker'[<<Runs(c), k>>], raw'[<<Runs(c), k>>])
  BY DEF Reads
<1> DEFINE t == <<Runs(c), k>>
<1>1. t \in Trial /\ worker[t].pc = "ended"
  BY DEF Good, ExitedWell
<1>2. Confirmed(t, r.records[k], r.binding, worker[t], raw[t])
  BY DEF Reads
<1> HIDE DEF t
<1>3. Kept(t)
  BY <1>1, EndedKept
<1>4. raw[t].is = "passed" /\ raw'[t].is = "passed"
  BY <1>1, <1>2, <1>3, KeptReport DEF Confirmed
<1>5. worker'[t].sees = worker[t].sees /\ worker'[t].loaded = worker[t].loaded
  BY <1>3 DEF Kept, SamePhase
<1>6. Edited(r.records[k].elapsed, raw'[t]) /\ Edited(r.records[k].raw.elapsed, raw'[t])
  BY <1>1, <1>2, <1>3, <1>4, EditedStays DEF Confirmed
<1> QED BY <1>2, <1>4, <1>5, <1>6 DEF Confirmed, t

\* The records and the binding of a report that is changed elsewhere.
LEMMA ReportFields ==
    ASSUME NEW r, IsReport(r), NEW v, NEW b \in BOOLEAN, NEW i
    PROVE  /\ LET q == [r EXCEPT !.records[i] = v]
              IN  q.binding = r.binding /\ q.records = [r.records EXCEPT ![i] = v]
           /\ LET q == [r EXCEPT !.records = v] IN q.binding = r.binding /\ q.records = v
           /\ LET q == [r EXCEPT !.complete = TRUE, !.passed = b]
              IN  q.binding = r.binding /\ q.records = r.records
           /\ LET q == [r EXCEPT !.frozen = v] IN q.binding = r.binding /\ q.records = r.records
           /\ LET q == [r EXCEPT !.binding = v] IN q.binding = v /\ q.records = r.records
BY DEF IsReport

\* The current record is rewritten, and not validated.
LEMMA RecordKept ==
    ASSUME CampaignInv, NEW c \in Process, pc[c] \in Trying, NEW rec, ~rec.validated
    PROVE  SameRecords(state[c], WithRecord(c, rec))
<1> DEFINE i == index[c]
           s == state[c].records
           q == WithRecord(c, rec)
<1>1. s \in Seq(RecordType) /\ i \in DOMAIN s /\ IsReport(state[c])
  BY OfTrial, OfInvocation
<1>2. q = [state[c] EXCEPT !.records[i] = rec]
  BY DEF WithRecord
<1>3. q.binding = state[c].binding /\ q.records = [s EXCEPT ![i] = rec]
  BY <1>1, <1>2, ReportFields
<1> HIDE DEF q, i
<1>4. /\ DOMAIN q.records = DOMAIN s /\ q.records[i] = rec
      /\ \A k \in DOMAIN s : k # i => q.records[k] = s[k]
  BY <1>1, <1>3
<1> QED BY <1>3, <1>4 DEF SameRecords, q

\* A record is appended, not validated.
LEMMA RecordAdded ==
    ASSUME CampaignInv, NEW c \in Process, Runs(c) \in Controllers, NEW rec, ~rec.validated
    PROVE  SameRecords(state[c], [state[c] EXCEPT !.records = Append(state[c].records, rec)])
<1> DEFINE s == state[c].records
           v == Append(s, rec)
           q == [state[c] EXCEPT !.records = v]
<1>1. s \in Seq(RecordType) /\ IsReport(state[c])
  BY OfInvocation DEF Good
<1>2. /\ DOMAIN v = 1..(Len(s) + 1) /\ DOMAIN s = 1..Len(s) /\ Len(s) \in Nat
      /\ v[Len(s) + 1] = rec /\ \A k \in DOMAIN s : v[k] = s[k]
  BY <1>1
<1> HIDE DEF v
<1>3. q.binding = state[c].binding /\ q.records = v
  BY <1>1, ReportFields
<1> HIDE DEF q
<1>4. \A k \in DOMAIN v : k \in DOMAIN s \/ k = Len(s) + 1
  BY <1>2
<1> QED BY <1>2, <1>3, <1>4 DEF SameRecords, q, v

\* Nothing but a validation adds to what a controller has validated.
LEMMA MemorySteps ==
    ASSUME CampaignInv, ConfirmInv, [Next]_vars, NEW c \in Process, Runs(c) \in Controllers
    PROVE  SameRecords(state[c], state'[c]) \/ Validate(c)
<1> DEFINE r == state[c]
<1>0. /\ Types /\ IsReport(r) /\ Good(c, r, worker) /\ Position(c, pc[c], index[c], r)
      /\ Runs(c) \notin Auditors
  BY OfInvocation DEF CampaignInv, Controllers, Auditors
<1>1. ASSUME NEW q, q.binding = r.binding, q.records = r.records PROVE SameRecords(r, q)
  BY <1>1 DEF SameRecords
<1>2. CASE state'[c] = state[c]
  BY <1>1, <1>2
<1>3. ASSUME NEW d \in Process, Remember(d, state'[d]) \/ Save(d, state'[d]), d # c PROVE state'[c] = state[c]
  BY <1>0, <1>3 DEF Remember, Save, Types
<1>4. CASE \/ \E d \in Process : Invoke(d) \/ Interrupt(d) \/ Kill(d) \/ ObserverFails(d)
           \/ \E t \in Trial : Works0(t) \/ Dies(t) \/ WorkerFails(t) \/ Stop(t)
           \/ ChangeFile \/ ChangeRaw \/ UNCHANGED vars
  <2>1. state' = state
    BY <1>4 DEF Invoke, Interrupt, Kill, ObserverFails, NoSave, Elsewhere, Works0, Opens, Imports, Checks,
      Verifies, Fingerprints, Starts, Ends, Works, Dies, WorkerFails, Stop, ChangeFile, ChangeRaw, vars
  <2> QED BY <1>2, <2>1
<1>5. CASE \E d \in Process \ {c} : Progress(d)
  <2>1. PICK d \in Process \ {c} : Progress(d)
    BY <1>5
  <2>2. Moves(d)
    BY <1>0, <2>1, MovesAlone
  <2> QED BY <1>2, <2>2 DEF Moves
<1>6. CASE Progress(c)
  <2> USE DEF At, Save, Remember, NoSave
  <2>1. CASE Reserve(c)
    <3>1. pc[c] = "reserve" /\ r.binding = "none" /\ r.records = <<>>
      BY <1>0, <2>1 DEF Reserve, ConfirmInv, Position, Before1
    <3>2. Begun(c).binding = "none" /\ Begun(c).records = <<>>
      BY DEF Begun, Fresh
    <3>3. state'[c] = Begun(c) \/ state'[c] = r
      BY <1>0, <2>1 DEF Reserve, Types
    <3> QED BY <1>1, <3>1, <3>2, <3>3
  <2>2. CASE PilotBegins(c) \/ FullReads(c) \/ Launch(c) \/ Collected(c) \/ Escalate(c) \/ GivesUp(c)
    BY <1>2, <2>2 DEF PilotBegins, FullReads, Launch, Collected, Escalate, GivesUp
  <2>3. CASE Fail(c) \/ Finish(c)
    <3>1. state'[c] = r \/ \E b \in BOOLEAN : state'[c] = [r EXCEPT !.complete = TRUE, !.passed = b]
      BY <1>0, <2>3 DEF Fail, Finish, Types
    <3>2. ASSUME NEW b \in BOOLEAN PROVE SameRecords(r, [r EXCEPT !.complete = TRUE, !.passed = b])
      <4> DEFINE q == [r EXCEPT !.complete = TRUE, !.passed = b]
      <4>1. q.binding = r.binding /\ q.records = r.records
        BY <1>0 DEF IsReport
      <4> HIDE DEF q
      <4> QED BY <1>1, <4>1 DEF q
    <3> QED BY <1>2, <3>1, <3>2
  <2>4. CASE SeriesPrepares(c)
    <3>1. \E v : state'[c] = [r EXCEPT !.frozen = v]
      BY <1>0, <2>4 DEF SeriesPrepares, Types
    <3>2. PICK v : state'[c] = [r EXCEPT !.frozen = v]
      BY <3>1
    <3> DEFINE q == [r EXCEPT !.frozen = v]
    <3>3. q.binding = r.binding /\ q.records = r.records
      BY <1>0 DEF IsReport
    <3> HIDE DEF q
    <3> QED BY <1>1, <3>2, <3>3 DEF q
  <2>5. CASE PilotPrepares(c) \/ FullPrepares(c)
    <3> DEFINE v == Digest(report["audit"])
               w == Digest(report["pilot"])
               q1 == [r EXCEPT !.phase = v, !.frozen = "frozen"]
               q2 == [r EXCEPT !.phase = v, !.pilot = w, !.frozen = "frozen"]
    <3>1. state'[c] = r \/ state'[c] = q1 \/ state'[c] = q2
      BY <1>0, <2>5, Zenon DEF PilotPrepares, FullPrepares, Types
    <3> HIDE DEF v, w
    <3>2. q1.binding = r.binding /\ q1.records = r.records /\ q2.binding = r.binding /\ q2.records = r.records
      BY <1>0 DEF IsReport
    <3> HIDE DEF q1, q2
    <3> QED BY <1>1, <1>2, <3>1, <3>2
  <2>6. CASE Announce(c)
    <3> DEFINE rec == NewRecord(SpecOf(TrialOf(c)))
    <3>1. ~rec.validated
      BY DEF NewRecord
    <3> HIDE DEF rec
    <3>2. state'[c] = r \/ state'[c] = [r EXCEPT !.records = Append(r.records, rec)]
      BY <1>0, <2>6 DEF Announce, Types, rec
    <3> QED BY <1>2, <3>1, <3>2, RecordAdded
  <2>7. CASE TimesOut(c)
    <3> DEFINE rec == [Record(c) EXCEPT !.timedOut = TRUE]
    <3>1. pc[c] \in Trying
      BY <2>7 DEF TimesOut, Trying, Launched
    <3>2. ~rec.validated
      BY <3>1, OfTrial DEF RecordType
    <3>3. state'[c] = WithRecord(c, rec)
      BY <1>0, <2>7 DEF TimesOut, Types
    <3> HIDE DEF rec
    <3> QED BY <3>1, <3>2, <3>3, RecordKept
  <2>8. CASE Collect(c)
    <3> DEFINE rec == [Record(c) EXCEPT !.code = worker[TrialOf(c)].code, !.raw = raw[TrialOf(c)]]
    <3>1. pc[c] \in Trying
      BY <2>8 DEF Collect, Trying, Launched
    <3>2. ~rec.validated
      BY <3>1, OfTrial DEF RecordType
    <3>3. state'[c] = r \/ state'[c] = WithRecord(c, rec)
      BY <1>0, <2>8 DEF Collect, Types
    <3> HIDE DEF rec
    <3> QED BY <1>2, <3>1, <3>2, <3>3, RecordKept
  <2>9. ~Audits(c) /\ ~AuditFails(c)
    <3>1. ~AuditReads(c) /\ ~FinalReads(c) /\ ~AuditFails(c)
      BY <1>0 DEF AuditReads, FinalReads, AuditFails, Controllers
    <3>2. pc[c] \notin Auditing
      BY <1>0 DEF Position, Auditing
    <3> QED BY <3>1, <3>2 DEF Audits, Hashes, Rows, Accept, Auditing
  <2> QED BY <1>6, <2>1, <2>2, <2>3, <2>4, <2>5, <2>6, <2>7, <2>8, <2>9 DEF Progress, Controls
<1> QED BY <1>4, <1>5, <1>6 DEF Next

\* A validation confirms its record, and what was confirmed before.
LEMMA ValidationConfirms ==
    ASSUME CampaignInv, PhaseInv, ConfirmInv, NEW c \in Process, Validate(c), state'[c] # state[c]
    PROVE  /\ Reads(Runs(c), state'[c], worker, raw)
           /\ Seen(state'[c].binding, Library, file)
           /\ state[c].binding # "none" => state'[c].binding = state[c].binding
<1> USE DEF At, Save, NoSave
<1> DEFINE t == TrialOf(c)
           x == raw[t]
           w == worker[t]
           i == index[c]
           r == state[c]
           s == r.records
           b == Bound(c, x)
           rec == [Record(c) EXCEPT !.validated = TRUE, !.elapsed = x.elapsed]
           p == WithRecord(c, rec)
           q == [p EXCEPT !.binding = b]
<1>1. pc[c] = "validate" /\ pc[c] \in Trying /\ pc[c] \in Launched
  BY DEF Validate, Trying, Launched
<1>2. /\ Record(c) \in RecordType /\ t \in Trial /\ x \in RawType /\ s \in Seq(RecordType) /\ i \in DOMAIN s
      /\ Runs(c) \in Controllers /\ IsReport(r) /\ Good(c, r, worker) /\ Types
      /\ w.by = c /\ w.pc # "none"
  BY <1>1, OfTrial, OfInvocation DEF Waiting, CampaignInv
<1>3. /\ Trusted(c, x) /\ Accepts(c, x) /\ state'[c] = q
  <2>1. Types /\ ((Trusted(c, x) /\ Accepts(c, x)) \/ NoSave)
    BY <1>2, Zenon DEF Validate
  <2>2. Trusted(c, x) /\ Accepts(c, x)
    BY <2>1
  <2>3. Save(c, q)
    BY <2>2, Zenon DEF Validate
  <2> QED BY <2>1, <2>2, <2>3 DEF Types
<1>4. x.is = "passed" /\ x \in PassedRaw /\ Record(c).raw.is = "passed"
  <2>1. Waiting(c, "validate", Record(c), w, x)
    BY <1>1, OfTrial
  <2> QED BY <1>2, <1>3, <2>1 DEF Trusted, RawType, Nothing, Reserved, Failed, Waiting
<1>5. Sound(t, w, x, file)
  BY <1>2, <1>4 DEF PhaseInv, Phase
<1>6. Record(c).raw.library = w.sees /\ Edited(Record(c).raw.elapsed, x)
  BY <1>1, <1>2, <1>4 DEF ConfirmInv, Collects
<1>7. rec.validated /\ rec.raw = Record(c).raw /\ rec.elapsed = x.elapsed
  BY <1>2 DEF RecordType
<1>8. q.binding = b /\ q.records = [s EXCEPT ![i] = rec]
  <2> HIDE DEF b, rec
  <2>1. IsReport(p) /\ p.records = [s EXCEPT ![i] = rec]
    BY <1>1, TrialRecord
  <2> HIDE DEF p
  <2> QED BY <2>1 DEF IsReport
<1> HIDE DEF q, rec
<1>9. b = IF r.binding = "none" THEN x.library ELSE r.binding
  BY DEF Bound
<1>10. Runs(c) # "pilot" => b = w.sees
  BY <1>2, <1>3, <1>5 DEF Accepts, SeriesAccepts, FullAccepts, Sound, Controllers
<1>11. t[1] = Runs(c) /\ t[2] = i /\ t = <<Runs(c), i>>
  BY DEF TrialOf
<1> HIDE DEF b, t
<1>12. t[1] = "series" /\ t[2] > 1 => w.loaded = w.sees
  <2>1. Follows(t, w, r.binding)
    BY <1>2 DEF ConfirmInv
  <2> QED BY <1>2, <1>5, <1>9, <1>10, <1>11, <2>1 DEF Follows, Sound, Seen
<1>13. Confirmed(t, rec, b, w, x)
  <2>1. Edited(x.elapsed, x)
    BY <1>4 DEF PassedRaw, Edited
  <2>2. Record(c).raw.elapsed = "edited" => x.elapsed = "edited"
    BY <1>6 DEF Edited
  <2> QED BY <1>4, <1>6, <1>7, <1>10, <1>11, <1>12, <2>1, <2>2 DEF Confirmed
<1>14. ASSUME NEW k \in DOMAIN s, s[k].validated
       PROVE  Confirmed(<<Runs(c), k>>, s[k], b, worker[<<Runs(c), k>>], raw[<<Runs(c), k>>])
  <2> DEFINE u == <<Runs(c), k>>
  <2>1. u \in Trial /\ Confirmed(u, s[k], r.binding, worker[u], raw[u])
    BY <1>2, <1>14 DEF Good, ConfirmInv, Reads
  <2>2. Sound(u, worker[u], raw[u], file)
    BY <2>1 DEF PhaseInv, Phase, Confirmed
  <2>3. u[1] # "pilot" => b = worker[u].sees
    BY <1>9, <2>1, <2>2 DEF Confirmed, Sound, Seen
  <2> QED BY <2>1, <2>3 DEF Confirmed
<1>15. Reads(Runs(c), q, worker, raw)
  <2> SUFFICES ASSUME NEW k \in DOMAIN q.records, q.records[k].validated
               PROVE  Confirmed(<<Runs(c), k>>, q.records[k], q.binding, worker[<<Runs(c), k>>], raw[<<Runs(c), k>>])
    BY DEF Reads
  <2>1. CASE k = i
    BY <1>2, <1>8, <1>11, <1>13, <2>1
  <2>2. CASE k # i
    <3>1. k \in DOMAIN s /\ q.records[k] = s[k]
      BY <1>2, <1>8, <2>2
    <3> QED BY <1>8, <1>14, <3>1
  <2> QED BY <2>1, <2>2
<1>16. Seen(b, Library, file)
  BY <1>2, <1>5, <1>9 DEF ConfirmInv, Sound
<1> QED BY <1>3, <1>8, <1>9, <1>15, <1>16

\* What a controller has in memory after a step.
LEMMA ConfirmMemory ==
    ASSUME CampaignInv, PhaseInv, ConfirmInv, [Next]_vars, NEW c \in Process, Runs(c) \in Controllers
    PROVE  /\ Reads(Runs(c), state'[c], worker', raw')
           /\ state'[c].binding = "none" \/ Seen(state'[c].binding, Library, file')
           /\ state[c].binding # "none" => state'[c].binding = state[c].binding
<1>1. ASSUME NEW v, Seen(v, Library, file) PROVE Seen(v, Library, file')
  <2>1. Library \in Steady
    BY DEF Steady
  <2> QED BY <1>1, <2>1, FilesGrow DEF Seen
<1>2. CASE SameRecords(state[c], state'[c])
  <2>1. Good(c, state[c], worker) /\ Reads(Runs(c), state[c], worker, raw)
    BY OfInvocation DEF ConfirmInv
  <2>2. Reads(Runs(c), state[c], worker', raw')
    BY <2>1, ReadsStay
  <2>3. Reads(Runs(c), state'[c], worker', raw')
    BY <1>2, <2>2, SameRecordsRead
  <2>4. state'[c].binding = state[c].binding
    BY <1>2 DEF SameRecords
  <2>5. state[c].binding = "none" \/ Seen(state[c].binding, Library, file)
    BY DEF ConfirmInv
  <2> QED BY <1>1, <2>3, <2>4, <2>5
<1>3. CASE Validate(c) /\ state'[c] # state[c]
  <2>1. worker' = worker /\ raw' = raw
    BY <1>3 DEF Validate
  <2> QED BY <1>1, <1>3, <2>1, ValidationConfirms
<1>4. state'[c] = state[c] => SameRecords(state[c], state'[c])
  BY DEF SameRecords
<1> QED BY <1>2, <1>3, <1>4, MemorySteps

\* How an invocation comes to a place.
LEMMA PlaceSteps ==
    ASSUME CampaignInv, [Next]_vars, NEW c \in Process, Runs(c) \in Controllers
    PROVE  /\ pc'[c] \in {"idle", "reserve"} => pc[c] \in {"idle", "reserve"} /\ state'[c] = state[c]
           /\ pc'[c] = "validate" =>
                 \/ Collect(c)
                 \/ pc[c] = "validate" /\ index'[c] = index[c] /\ state'[c] = state[c]
<1> USE DEF At, Goto, NoSave, Raise
<1>0. Types /\ Position(c, pc[c], index[c], state[c]) /\ Runs(c) \notin Auditors
  BY OfInvocation DEF CampaignInv, Controllers, Auditors
<1>1. CASE UNCHANGED <<pc, index, state>>
  BY <1>1
<1>2. CASE \/ \E t \in Trial : Works0(t) \/ Dies(t) \/ WorkerFails(t) \/ Stop(t)
           \/ ChangeFile \/ ChangeRaw \/ UNCHANGED vars
  <2>1. UNCHANGED <<pc, index, state>>
    BY <1>2 DEF Elsewhere, Works0, Opens, Imports, Checks,
      Verifies, Fingerprints, Starts, Ends, Works, Dies, WorkerFails, Stop, ChangeFile, ChangeRaw, vars
  <2> QED BY <1>1, <2>1
<1>3. CASE \E d \in Process \ {c} : Invoke(d) \/ Progress(d) \/ Interrupt(d) \/ Kill(d) \/ ObserverFails(d)
  <2>1. PICK d \in Process \ {c} : Invoke(d) \/ Progress(d) \/ Interrupt(d) \/ Kill(d) \/ ObserverFails(d)
    BY <1>3
  <2>2. Moves(d)
    BY <1>0, <2>1, MovesAlone
  <2> QED BY <2>2 DEF Moves
<1>4. CASE Invoke(c) \/ Interrupt(c) \/ Kill(c) \/ ObserverFails(c)
  BY <1>0, <1>4 DEF Types, Invoke, Interrupt, Kill, ObserverFails, Elsewhere
<1>5. CASE Progress(c)
  <2>1. CASE Reserve(c) \/ PilotBegins(c) \/ Fail(c) \/ SeriesPrepares(c) \/ PilotPrepares(c)
             \/ FullReads(c) \/ FullPrepares(c)
    BY <1>0, <2>1 DEF Types, Reserve, PilotBegins, Fail, SeriesPrepares, PilotPrepares, FullReads, FullPrepares
  <2>2. CASE Announce(c) \/ Launch(c) \/ Collected(c) \/ TimesOut(c) \/ Escalate(c) \/ GivesUp(c)
    BY <1>0, <2>2 DEF Types, Announce, Launch, Collected, TimesOut, Escalate, GivesUp
  <2>3. CASE Validate(c) \/ Finish(c)
    BY <1>0, <2>3 DEF Types, Validate, Finish
  <2>4. CASE Collect(c)
    BY <1>0, <2>4 DEF Types, Collect
  <2>5. ~Audits(c) /\ ~AuditFails(c)
    <3>1. ~AuditReads(c) /\ ~FinalReads(c) /\ ~AuditFails(c)
      BY <1>0 DEF AuditReads, FinalReads, AuditFails, Controllers
    <3>2. pc[c] \notin Auditing
      BY <1>0 DEF Position, Auditing
    <3> QED BY <3>1, <3>2 DEF Audits, Hashes, Rows, Accept, Auditing
  <2> QED BY <1>5, <2>1, <2>2, <2>3, <2>4, <2>5 DEF Progress, Controls
<1> QED BY <1>2, <1>3, <1>4, <1>5 DEF Next

\* What is recorded of a trial that passed is what its worker saw.
LEMMA CollectConfirms ==
    ASSUME CampaignInv, PhaseInv, NEW c \in Process, Collect(c), pc'[c] = "validate"
    PROVE  /\ Collects(state'[c].records[index'[c]], worker'[<<Runs(c), index'[c]>>], raw'[<<Runs(c), index'[c]>>])
<1> USE DEF At, Goto, Save, NoSave, Idle, Raise
<1> DEFINE t == TrialOf(c)
           x == raw[t]
           w == worker[t]
           i == index[c]
           rec == [Record(c) EXCEPT !.code = w.code, !.raw = x]
           q == WithRecord(c, rec)
<1>1. pc[c] = "collect" /\ pc[c] \in Trying
  BY DEF Collect, Trying, Launched
<1>2. /\ Record(c) \in RecordType /\ t \in Trial /\ x \in RawType /\ i \in DOMAIN state[c].records
      /\ state[c].records \in Seq(RecordType) /\ Types
  BY <1>1, OfTrial DEF CampaignInv
<1>3. state'[c] = q /\ index' = index /\ worker' = worker /\ raw' = raw
  <2>1. ~Raise(c)
    BY <1>2 DEF Types
  <2>2. Save(c, q)
    BY <2>1, Zenon DEF Collect
  <2> HIDE DEF q
  <2> QED BY <1>2, <2>2 DEF Collect, Types
<1>4. rec.raw = x
  BY <1>2 DEF RecordType
<1> HIDE DEF rec
<1>5. q.records = [state[c].records EXCEPT ![i] = rec]
  BY <1>1, TrialRecord
<1> HIDE DEF q
<1>6. state'[c].records[i] = rec
  BY <1>2, <1>3, <1>5
<1>7. x.is = "passed" => x.library = w.sees /\ Edited(x.elapsed, x)
  <2>1. x.is = "passed" => x \in PassedRaw
    BY <1>2 DEF RawType, Nothing, Reserved, Failed
  <2> QED BY <1>2, <2>1 DEF PhaseInv, Phase, Sound, Edited, PassedRaw
<1> QED BY <1>3, <1>4, <1>6, <1>7 DEF Collects, TrialOf

\* A worker that goes on executes what it had loaded, or what is there now.
LEMMA LoadedSteps ==
    ASSUME CampaignInv, [Next]_vars, NEW t \in Trial
    PROVE  /\ worker'[t].loaded \in {worker[t].loaded, file[Library]}
           /\ worker[t].pc # "none" => worker'[t].by = worker[t].by
<1>0. /\ worker \in [Trial -> WorkerType] /\ worker[t] \in WorkerType
  BY DEF CampaignInv, Types
<1>1. CASE Kept(t)
  BY <1>1 DEF Kept, SamePhase
<1>2. CASE Launches(t)
  <2>1. PICK c \in Process : worker' = [worker EXCEPT ![t].pc = "born", ![t].by = c]
    BY <1>2 DEF Launches
  <2> DEFINE n == [worker[t] EXCEPT !.pc = "born", !.by = c]
  <2>2. worker'[t] = n
    BY <1>0, <2>1
  <2>3. n.loaded = worker[t].loaded
    BY <1>0 DEF WorkerType
  <2>4. worker[t].pc = "none"
    BY <1>2 DEF Launches
  <2> HIDE DEF n
  <2> QED BY <2>2, <2>3, <2>4
<1>3. ASSUME NEW status, NEW left, Exit(t, status, left)
      PROVE  worker'[t].loaded = worker[t].loaded /\ worker'[t].by = worker[t].by
  BY <1>3, ExitLeaves
<1>4. CASE Dies(t) \/ WorkerFails(t)
  BY <1>3, <1>4 DEF Dies, WorkerFails
<1>5. ASSUME NEW w, Become(t, w) PROVE worker'[t] = w
  BY <1>0, <1>5 DEF Become
<1>6. CASE Works0(t)
  <2> DEFINE o == worker[t]
             n1 == [o EXCEPT !.script = file[Harness(t[1])], !.pc = IF t[1] = "series" THEN "import" ELSE "check"]
             n2 == [o EXCEPT !.loaded = file[Library], !.pc = IF t[1] = "series" THEN "check" ELSE "read"]
             n3 == [o EXCEPT !.sees = file[Library], !.pc = IF t[1] = "series" THEN "verify" ELSE "import"]
             n4 == [o EXCEPT !.used = file[CacheOf(t)], !.corpus = "frozen", !.pc = "final"]
             n5 == [o EXCEPT !.pc = "start"]
             n6 == [o EXCEPT !.used = file'[CacheOf(t)], !.corpus = file[Corpus], !.pc = "final"]
  <2>1. /\ n1.loaded = o.loaded /\ n2.loaded = file[Library] /\ n3.loaded = o.loaded
        /\ n4.loaded = o.loaded /\ n5.loaded = o.loaded /\ n6.loaded = o.loaded
        /\ n1.by = o.by /\ n2.by = o.by /\ n3.by = o.by /\ n4.by = o.by /\ n5.by = o.by /\ n6.by = o.by
    BY <1>0 DEF WorkerType
  <2>2. CASE \E status, left : Exit(t, status, left)
    BY <1>3, <2>2
  <2>3. CASE ~\E status, left : Exit(t, status, left)
    <3>1. CASE Opens(t) \/ Imports(t) \/ Checks(t)
      <4>1. worker'[t] \in {n1, n2, n3}
        BY <1>5, <2>3, <3>1 DEF Opens, Imports, Checks
      <4> HIDE DEF n1, n2, n3
      <4> QED BY <2>1, <4>1
    <3>2. CASE Verifies(t) \/ Fingerprints(t) \/ Starts(t)
      <4>1. worker'[t] \in {n4, n5, n6}
        BY <1>5, <2>3, <3>2 DEF Verifies, Fingerprints, Starts
      <4> HIDE DEF n4, n5, n6
      <4> QED BY <2>1, <4>1
    <3>3. ~Ends(t)
      BY <2>3 DEF Ends
    <3> QED BY <1>6, <3>1, <3>2, <3>3 DEF Works0
  <2> QED BY <2>2, <2>3
<1> QED BY <1>1, <1>2, <1>4, <1>6, WorkSteps

\* A later trial of the series is launched when the library is bound.
LEMMA LaunchIsBound ==
    ASSUME CampaignInv, PhaseInv, ConfirmInv, NEW c \in Process, Launch(c), TrialOf(c)[1] = "series", TrialOf(c)[2] > 1
    PROVE  state[c].binding # "none"
<1> DEFINE r == state[c]
<1>1. pc[c] = "launch" /\ pc[c] \in Trying /\ Runs(c) = "series" /\ index[c] > 1
  BY DEF Launch, At, Trying, TrialOf
<1>2. /\ r.records \in Seq(RecordType) /\ Len(r.records) = index[c] /\ index[c] \in Nat
      /\ Good(c, r, worker) /\ Position(c, pc[c], index[c], r) /\ Runs(c) \in Controllers
  BY <1>1, OfTrial, OfInvocation
<1>3. 1 \in DOMAIN r.records /\ r.records[1].validated
  BY <1>1, <1>2 DEF Position
<1>4. <<Runs(c), 1>> \in Trial
  BY <1>2, <1>3 DEF Good
<1> DEFINE u == <<Runs(c), 1>>
<1>5. Confirmed(u, r.records[1], r.binding, worker[u], raw[u])
  BY <1>2, <1>3 DEF ConfirmInv, Reads
<1>6. Sound(u, worker[u], raw[u], file)
  BY <1>4, <1>5 DEF PhaseInv, Phase, Confirmed
<1> QED BY <1>1, <1>5, <1>6 DEF Confirmed, Sound, Seen

\* Who launched a worker, and what it was bound to.
LEMMA FollowStep ==
    ASSUME CampaignInv, PhaseInv, ConfirmInv, [Next]_vars, NEW t \in Trial, NEW c \in Process,
           worker'[t].pc # "none", worker'[t].by = c
    PROVE  Runs(c) = t[1] /\ Follows(t, worker'[t], state'[c].binding)
<1>0. t[1] \in Controllers /\ worker \in [Trial -> WorkerType]
  BY DEF Trial, CampaignInv, Types
<1>1. CASE worker[t].pc # "none"
  <2>1. worker[t].by = c /\ worker'[t].loaded \in {worker[t].loaded, file[Library]}
    BY <1>1, LoadedSteps
  <2>2. Runs(c) = t[1] /\ Follows(t, worker[t], state[c].binding)
    BY <1>1, <2>1 DEF ConfirmInv
  <2>3. /\ state[c].binding # "none" => state'[c].binding = state[c].binding
        /\ state[c].binding = "none" \/ Seen(state[c].binding, Library, file)
    BY <1>0, <2>2, ConfirmMemory DEF ConfirmInv
  <2> QED BY <1>1, <2>1, <2>2, <2>3 DEF Follows, Seen
<1>2. CASE worker[t].pc = "none"
  <2>1. PICK d \in Process : Launch(d) /\ t = TrialOf(d)
    BY <1>2, WorkerPlaces
  <2> DEFINE n == [worker[t] EXCEPT !.pc = "born", !.by = d]
  <2>2. worker' = [worker EXCEPT ![t].pc = "born", ![t].by = d] /\ state' = state
    BY <1>2, <2>1 DEF Launch, NoSave
  <2>3. worker'[t] = n
    BY <1>0, <2>2
  <2>4. n.by = d /\ n.loaded = worker[t].loaded
    BY <1>0 DEF WorkerType
  <2> HIDE DEF n
  <2>5. d = c /\ Runs(c) = t[1]
    BY <2>1, <2>3, <2>4 DEF TrialOf
  <2>6. t[1] = "series" => worker[t].loaded = "absent"
    BY <1>2 DEF PhaseInv, Phase, SeriesPhase
  <2>7. t[1] = "series" /\ t[2] > 1 => state[c].binding # "none"
    BY <2>1, <2>5, LaunchIsBound
  <2> QED BY <2>2, <2>3, <2>4, <2>5, <2>6, <2>7 DEF Follows
<1> QED BY <1>1, <1>2

LEMMA ConfirmStep == CampaignInv /\ CampaignInv' /\ PhaseInv /\ ConfirmInv /\ [Next]_vars => ConfirmInv'
<1> SUFFICES ASSUME CampaignInv, CampaignInv', PhaseInv, ConfirmInv, [Next]_vars PROVE ConfirmInv'
  OBVIOUS
<1>1. ASSUME NEW c \in Process, Runs(c) \in Controllers
      PROVE  /\ Reads(Runs(c), state'[c], worker', raw')
             /\ state'[c].binding = "none" \/ Seen(state'[c].binding, Library, file')
             /\ pc'[c] \in {"idle", "reserve"} => state'[c].binding = "none"
  BY <1>1, ConfirmMemory, PlaceSteps DEF ConfirmInv
<1>2. ASSUME NEW c \in Process, Runs(c) \in Controllers, pc'[c] = "validate"
      PROVE  Collects(state'[c].records[index'[c]], worker'[<<Runs(c), index'[c]>>], raw'[<<Runs(c), index'[c]>>])
  <2>1. CASE Collect(c)
    BY <1>2, <2>1, CollectConfirms
  <2>2. CASE pc[c] = "validate" /\ index'[c] = index[c] /\ state'[c] = state[c]
    <3> DEFINE t == TrialOf(c)
    <3>1. pc[c] \in Trying /\ pc[c] \in Launched
      BY <2>2 DEF Trying, Launched
    <3>2. t \in Trial /\ worker[t].pc = "ended" /\ Waiting(c, "validate", Record(c), worker[t], raw[t])
      BY <2>2, <3>1, OfTrial DEF Waiting
    <3>3. Kept(t) /\ Collects(Record(c), worker[t], raw[t])
      BY <1>2, <2>2, <3>2, EndedKept DEF ConfirmInv
    <3>4. worker'[t].sees = worker[t].sees
      BY <3>3 DEF Kept, SamePhase
    <3>5. raw[t].is = "passed" => (Edited(Record(c).raw.elapsed, raw[t]) => Edited(Record(c).raw.elapsed, raw'[t]))
      BY <3>2, <3>3, EditedStays
    <3> QED BY <2>2, <3>2, <3>3, <3>4, <3>5 DEF Collects, Record, TrialOf, Kept
  <2> QED BY <1>2, <2>1, <2>2, PlaceSteps
<1>3. ASSUME NEW p \in Controllers, report'[p] # Nothing
      PROVE  Reads(p, report'[p], worker', raw')
  <2>1. CASE report'[p] = report[p]
    <3>1. p \in Program /\ Filed(p, report[p], worker) /\ Reads(p, report[p], worker, raw)
      BY <1>3, <2>1 DEF CampaignInv, Program, ConfirmInv
    <3>2. Runs(report[p].by) = p /\ Good(report[p].by, report[p], worker)
      BY <1>3, <2>1, <3>1 DEF Filed
    <3> QED BY <2>1, <3>1, <3>2, ReadsStay
  <2>2. CASE report'[p] # report[p]
    <3>1. PICK c \in Process : Moves(c)
      <4>1. ASSUME NEW t \in Trial, Works0(t) \/ Dies(t) \/ WorkerFails(t) \/ Stop(t)
            PROVE  report' = report
        BY <4>1 DEF Works0, Opens, Imports, Checks, Verifies, Fingerprints, Starts, Ends, Works,
                    Dies, WorkerFails, Stop, Elsewhere
      <4>2. ASSUME ChangeFile \/ ChangeRaw \/ UNCHANGED vars
            PROVE  report' = report
        BY <4>2 DEF ChangeFile, ChangeRaw, vars
      <4>3. Types
        BY DEF CampaignInv
      <4> QED BY <2>2, <4>1, <4>2, <4>3, MovesAlone DEF Next
    <3>2. Runs(c) = p /\ report'[p] = state'[c]
      <4>1. p \in Program /\ Runs(c) \in Program
        BY ProcessRuns DEF Program
      <4>2. report = [q \in Program |-> report[q]]
        BY DEF CampaignInv, Types
      <4> QED BY <2>2, <3>1, <4>1, <4>2 DEF Moves
    <3> QED BY <1>1, <3>2
  <2> QED BY <2>1, <2>2
<1>4. ASSUME NEW t \in Trial, NEW c \in Process, worker'[t].pc # "none", worker'[t].by = c
      PROVE  Runs(c) = t[1] /\ Follows(t, worker'[t], state'[c].binding)
  BY <1>4, FollowStep
<1> QED BY <1>1, <1>2, <1>3, <1>4 DEF ConfirmInv, Record, TrialOf

LEMMA ConfirmInit == Init => ConfirmInv
<1> SUFFICES ASSUME Init PROVE ConfirmInv
  OBVIOUS
<1>1. ASSUME NEW c \in Process
      PROVE  pc[c] = "idle" /\ state[c].binding = "none" /\ state[c].records = <<>>
  BY <1>1 DEF Init, Fresh
<1>2. ASSUME NEW t \in Trial PROVE worker[t].pc = "none"
  BY <1>2 DEF Init, NoWorker
<1>3. \A p \in Controllers : report[p] = Nothing
  BY DEF Init, Program
<1> QED BY <1>1, <1>2, <1>3 DEF ConfirmInv, Reads

LEMMA ConfirmAlways == Spec => []ConfirmInv
<1>1. CampaignInv /\ CampaignInv' /\ PhaseInv /\ ConfirmInv /\ [Next]_vars => ConfirmInv'
  BY ConfirmStep
<1> QED BY <1>1, ConfirmInit, CampaignAlways, PhaseAlways, PTL DEF Spec

\* What was measured in a trial of a later block is not the first of its plan.
LEMMA PrimersAreFirst ==
    ASSUME NEW k \in DOMAIN PlanOf["series"], PlanOf["series"][k].block > 0
    PROVE  k > 1
<1>1. k \in Nat \ {0}
  BY PlanPositions DEF Controllers
<1>2. PlanOf["series"] = SeriesPlan
  BY DEF PlanOf
<1>3. k # 1
  BY <1>2, SeriesPlanType
<1> QED BY <1>1, <1>3

\* In a report that passed, every measured trial executed the library, read the cache
\* and had the corpus that it names, and all of the series or of the full campaign the
\* same library, whatever was changed or installed in between (the trials of
\* validation_worker_series.py and of the startup programs, which check before and
\* after).
THEOREM MeasuredAreTrue == Spec => []MeasuredUsedTheNamed
<1>1. CampaignInv /\ PhaseInv /\ ConfirmInv => MeasuredUsedTheNamed
  <2> SUFFICES ASSUME CampaignInv, PhaseInv, ConfirmInv,
                      NEW p \in Controllers, Passed(report[p]),
                      NEW k \in DOMAIN report[p].records, Trusts(p, k)
               PROVE  LET w == worker[<<p, k>>]  r == report[p].records[k].raw IN
                      /\ w.loaded = r.library /\ w.used = "frozen" /\ w.corpus = "frozen"
                      /\ p # "pilot" => w.loaded = report[p].binding
    BY DEF MeasuredUsedTheNamed
  <2> DEFINE q == report[p]
             t == <<p, k>>
             w == worker[t]
  <2>1. p \in Program /\ q # Nothing /\ q.passed /\ Filed(p, q, worker) /\ Reads(p, q, worker, raw)
    BY DEF Passed, CampaignInv, Program, ConfirmInv
  <2>2. Good(q.by, q, worker) /\ Runs(q.by) = p
    BY <2>1 DEF Filed
  <2>3. q.records[k].validated /\ t \in Trial
    BY <2>1, <2>2 DEF Good
  <2>4. Confirmed(t, q.records[k], q.binding, w, raw[t])
    BY <2>1, <2>3 DEF Reads
  <2>5. Sound(t, w, raw[t], file)
    BY <2>3, <2>4 DEF PhaseInv, Phase, Confirmed
  <2>6. p = "series" => k > 1
    <3>1. k \in DOMAIN PlanOf[p]
      BY <2>3 DEF Trial
    <3> QED BY <3>1, PrimersAreFirst DEF Trusts
  <2>7. t[1] = p /\ t[2] = k
    OBVIOUS
  <2> HIDE DEF t
  <2>8. w.loaded = w.sees
    BY <2>4, <2>5, <2>6, <2>7 DEF Confirmed, Sound
  <2> QED BY <2>4, <2>5, <2>7, <2>8 DEF Confirmed, Sound, t
<1> QED BY <1>1, CampaignAlways, PhaseAlways, ConfirmAlways, PTL

-----------------------------------------------------------------------------
(* What an audit summarises *)

SameTimes(r, q) ==
    Passed(q) /\ \A k \in DOMAIN r.records : r.records[k].elapsed = q.records[k].raw.elapsed

\* The rows so far are of the subject's report, and so is the one to be read.
SummaryInv ==
    /\ \A c \in Process : Runs(c) \in Auditors /\ pc[c] \in Auditing =>
          /\ SameTimes(state[c], SubjectOf(c))
          /\ pc[c] = "row" =>
                SubjectOf(c).records[index[c]].elapsed = SubjectOf(c).records[index[c]].raw.elapsed
    /\ \A a \in Auditors : Passed(report[a]) => SameTimes(report[a], report[Subject[a]])

\* A report that passed and is audited is not written any more.
LEMMA PassedStays ==
    ASSUME CampaignInv, EvidenceInv, [Next]_vars, NEW p \in {"series", "full"}, Passed(report[p])
    PROVE  report'[p] = report[p]
<1>1. ASSUME NEW t \in Trial, Works0(t) \/ Dies(t) \/ WorkerFails(t) \/ Stop(t)
      PROVE  report' = report
  BY <1>1 DEF Works0, Opens, Imports, Checks, Verifies, Fingerprints, Starts, Ends, Works,
              Dies, WorkerFails, Stop, Elsewhere
<1>2. ASSUME ChangeFile \/ ChangeRaw \/ UNCHANGED vars
      PROVE  report' = report
  BY <1>2 DEF ChangeFile, ChangeRaw, vars
<1>3. ASSUME NEW c \in Process, Moves(c), report' # report PROVE report'[p] = report[p]
  <2>1. report[p] # Nothing /\ report[p].passed
    BY DEF Passed
  <2>2. Runs(c) # p
    BY <1>3, <2>1 DEF EvidenceInv, Moves
  <2> QED BY <1>3, <2>2, ProcessRuns DEF Moves, CampaignInv, Types, Program, Controllers
<1>4. Types
  BY DEF CampaignInv
<1> QED BY <1>1, <1>2, <1>3, <1>4, MovesAlone DEF Next

\* The digest of a record that was confirmed is of the time that it took.
LEMMA HashedTimes ==
    ASSUME CampaignInv, ConfirmInv, NEW c \in Process, Hashes(c), pc'[c] = "row", Passed(SubjectOf(c))
    PROVE  SubjectOf(c).records[index[c]].elapsed = SubjectOf(c).records[index[c]].raw.elapsed
<1> DEFINE p == Subject[Runs(c)]
           k == index[c]
           q == SubjectOf(c)
           rec == q.records[k]
<1>1. Runs(c) \in Auditors /\ p \in Controllers /\ q = report[p] /\ q # Nothing
  <2>1. pc[c] \in {"hash"} /\ Position(c, pc[c], index[c], state[c])
    BY OfInvocation DEF Hashes, At
  <2>2. Runs(c) \in Auditors
    BY <2>1 DEF Position
  <2> QED BY <2>2 DEF Subject, Auditors, Controllers, SubjectOf, Passed
<1>2. k \in DOMAIN q.records /\ rec.validated /\ raw[<<p, k>>] = rec.raw
  BY DEF Hashes, Goto, Raise, CampaignInv, Types, Recorded, SameBytes
<1>3. Confirmed(<<p, k>>, rec, q.binding, worker[<<p, k>>], raw[<<p, k>>])
  BY <1>1, <1>2 DEF ConfirmInv, Reads
<1> HIDE DEF rec
<1> QED BY <1>2, <1>3 DEF Confirmed, Edited, rec

\* The next row is the one of the current record.
LEMMA RowOfRecord ==
    ASSUME CampaignInv, EvidenceInv, SummaryInv, NEW c \in Process, Runs(c) \in Auditors, Rows(c), pc'[c] = "hash"
    PROVE  SameTimes(state'[c], SubjectOf(c))
<1> DEFINE q == SubjectOf(c)
           k == index[c]
           s == state[c].records
           e == raw[<<Subject[Runs(c)], k>>].elapsed
           v == [spec |-> q.records[k].spec, elapsed |-> e]
<1>1. pc[c] = "row" /\ Types /\ IsReport(state[c]) /\ k \in Nat \ {0}
  BY OfInvocation DEF Rows, At, CampaignInv
<1>2. SameTimes(state[c], q) /\ q.records[k].elapsed = q.records[k].raw.elapsed
  BY <1>1 DEF SummaryInv, Auditing
<1>3. Len(s) = k - 1 /\ IsRows(state[c])
  BY <1>1 DEF EvidenceInv, Summary, Auditing
<1>4. state'[c] = [state[c] EXCEPT !.records = Append(@, v)]
  BY <1>1 DEF Rows, Goto, Raise, Remember, Types
<1>5. e = q.records[k].elapsed
  BY <1>1 DEF Rows, Goto, Raise, Types, AuditConsistent, FinalConsistent, SubjectOf
<1>6. v.elapsed = e
  OBVIOUS
<1> HIDE DEF v
<1>7. state'[c].records = Append(s, v)
  BY <1>1, <1>4 DEF IsReport
<1>8. PICK S : s \in Seq(S)
  BY <1>3 DEF IsRows
<1>9. s \in Seq(S \cup {v})
  BY <1>8
<1>10. /\ DOMAIN Append(s, v) = 1..k /\ Append(s, v)[k] = v
       /\ \A j \in 1..(k - 1) : j \in DOMAIN s /\ Append(s, v)[j] = s[j]
  BY <1>1, <1>3, <1>9
<1>11. ASSUME NEW j \in 1..k PROVE Append(s, v)[j].elapsed = q.records[j].raw.elapsed
  <2>1. CASE j = k
    BY <1>2, <1>5, <1>6, <1>10, <2>1
  <2>2. CASE j # k
    <3>1. j \in 1..(k - 1)
      BY <1>1, <2>2
    <3> QED BY <1>2, <1>10, <3>1 DEF SameTimes
  <2> QED BY <2>1, <2>2
<1> HIDE DEF q
<1> QED BY <1>2, <1>7, <1>10, <1>11 DEF SameTimes, q

\* What a step of an auditor does to its summary.
LEMMA SummaryMoves ==
    ASSUME CampaignInv, EvidenceInv, ConfirmInv, SummaryInv, NEW c \in Process, Runs(c) \in Auditors,
           Invoke(c) \/ Progress(c) \/ Interrupt(c) \/ Kill(c) \/ ObserverFails(c)
    PROVE  /\ pc'[c] \in Auditing =>
                 /\ SameTimes(state'[c], SubjectOf(c))
                 /\ pc'[c] = "row" => SubjectOf(c).records[index'[c]].elapsed = SubjectOf(c).records[index'[c]].raw.elapsed
           /\ report'[Runs(c)] # report[Runs(c)] /\ state'[c].passed => SameTimes(state'[c], SubjectOf(c))
<1>0. Types /\ IsReport(state[c]) /\ Summary(pc[c], index[c], state[c])
  BY OfInvocation DEF CampaignInv, EvidenceInv
<1>1. Runs(c) \notin Controllers
  BY DEF Auditors, Controllers
<1>2. pc[c] \notin {"trial", "copy"} \cup Trying
  BY <1>1, OfInvocation DEF Position
<1> USE DEF At, Goto, NoSave, Idle, Remember, Save, Raise
<1>3. CASE Invoke(c) \/ Interrupt(c) \/ Kill(c) \/ ObserverFails(c)
  BY <1>0, <1>3 DEF Types, Invoke, Interrupt, Kill, ObserverFails, Elsewhere, Auditing
<1>4. CASE Reserve(c)
  <2>1. pc'[c] \in {"prepare", "over"}
    BY <1>0, <1>4 DEF Types, Reserve
  <2>2. report' = report \/ state'[c] = Fresh(c)
    BY <1>0, <1>1, <1>4 DEF Types, Reserve, Begun
  <2> QED BY <2>1, <2>2, FreshReport DEF Auditing
<1>5. CASE AuditFails(c)
  <2> DEFINE r == [Fresh(c) EXCEPT !.complete = TRUE]
  <2>1. pc'[c] = "over" /\ state'[c] = r
    BY <1>0, <1>5 DEF Types, AuditFails
  <2>2. ~r.passed
    BY DEF Fresh
  <2> HIDE DEF r
  <2> QED BY <2>1, <2>2 DEF Auditing
<1>6. CASE AuditReads(c) \/ FinalReads(c)
  <2>1. UNCHANGED <<report, state>> /\ pc[c] = "prepare" /\ pc'[c] \in {"hash", "failing"}
    BY <1>0, <1>6 DEF Types, AuditReads, FinalReads
  <2>2. pc'[c] = "hash" => Passed(SubjectOf(c))
    BY <1>0, <1>6 DEF Types, AuditReads, FinalReads, SubjectOf, Subject
  <2>3. state[c].records = <<>>
    BY <1>0, <2>1 DEF Summary
  <2> QED BY <2>1, <2>2, <2>3 DEF SameTimes, Auditing
<1>7. CASE Hashes(c)
  <2>1. UNCHANGED <<report, state, index>> /\ pc[c] = "hash" /\ pc'[c] \in {"row", "failing"}
    BY <1>0, <1>7 DEF Types, Hashes
  <2>2. SameTimes(state[c], SubjectOf(c))
    BY <2>1 DEF SummaryInv, Auditing
  <2>3. pc'[c] = "row" =>
          SubjectOf(c).records[index[c]].elapsed = SubjectOf(c).records[index[c]].raw.elapsed
    BY <1>7, <2>2, HashedTimes DEF SameTimes
  <2> QED BY <2>1, <2>2, <2>3 DEF Auditing
<1>8. CASE Rows(c)
  <2>1. report' = report /\ pc'[c] \in {"hash", "failing"}
    BY <1>0, <1>8 DEF Types, Rows
  <2> QED BY <1>8, <2>1, RowOfRecord DEF Auditing
<1>9. CASE Accept(c)
  <2> DEFINE r == [state[c] EXCEPT !.complete = TRUE, !.passed = TRUE]
  <2>1. pc[c] = "hash" /\ pc'[c] = "over" /\ state'[c] = r
    BY <1>0, <1>9 DEF Types, Accept
  <2>2. r.records = state[c].records
    BY <1>0 DEF IsReport
  <2> HIDE DEF r
  <2>3. SameTimes(state[c], SubjectOf(c))
    BY <2>1 DEF SummaryInv, Auditing
  <2> QED BY <2>1, <2>2, <2>3 DEF SameTimes, Auditing
<1>10. ~(PilotBegins(c) \/ Fail(c) \/ Controls(c))
  <2>1. ~(PilotBegins(c) \/ Fail(c) \/ SeriesPrepares(c) \/ PilotPrepares(c) \/ FullReads(c))
    BY <1>1 DEF PilotBegins, Fail, SeriesPrepares, PilotPrepares, FullReads, Controllers
  <2>2. pc[c] \notin {"copy", "trial", "launch", "wait", "term", "kill", "collect", "validate"}
    BY <1>2 DEF Trying, Launched
  <2> QED BY <2>1, <2>2 DEF Controls, FullPrepares, Announce, Launch, Collected, TimesOut, Escalate, GivesUp, Collect, Validate, Finish
<1> QED BY <1>3, <1>4, <1>5, <1>6, <1>7, <1>8, <1>9, <1>10 DEF Progress, Audits

LEMMA SummaryStep ==
    ASSUME CampaignInv, CampaignInv', EvidenceInv, ConfirmInv, SummaryInv, [Next]_vars
    PROVE  SummaryInv'
<1>1. ASSUME NEW p \in {"series", "full"}, Passed(report[p]) PROVE report'[p] = report[p]
  BY <1>1, PassedStays
<1>2. \A a \in Auditors : Subject[a] \in {"series", "full"} /\ a \in Program
  BY DEF Auditors, Subject, Program
<1>3. ASSUME NEW r, NEW a \in Auditors, SameTimes(r, report[Subject[a]])
      PROVE  report'[Subject[a]] = report[Subject[a]]
  BY <1>1, <1>2, <1>3 DEF SameTimes
<1>4. CASE UNCHANGED <<report, state, pc, index>>
  BY <1>4 DEF SummaryInv, SubjectOf
<1>5. CASE \E c \in Process : Invoke(c) \/ Progress(c) \/ Interrupt(c) \/ Kill(c) \/ ObserverFails(c)
  <2>1. PICK c \in Process : Invoke(c) \/ Progress(c) \/ Interrupt(c) \/ Kill(c) \/ ObserverFails(c)
    BY <1>5
  <2>2. Moves(c) /\ Runs(c) \in Program /\ report = [p \in Program |-> report[p]]
    BY <2>1, MovesAlone, ProcessRuns DEF CampaignInv, Types
  <2>3. ASSUME NEW d \in Process, Runs(d) \in Auditors, pc'[d] \in Auditing
        PROVE  LET q == report'[Subject[Runs(d)]] IN
               /\ SameTimes(state'[d], q)
               /\ pc'[d] = "row" => q.records[index'[d]].elapsed = q.records[index'[d]].raw.elapsed
    <3> DEFINE q == report[Subject[Runs(d)]]
    <3>1. /\ SameTimes(state'[d], q)
          /\ pc'[d] = "row" => q.records[index'[d]].elapsed = q.records[index'[d]].raw.elapsed
      <4>1. CASE d = c
        BY <2>1, <2>3, <4>1, SummaryMoves DEF SubjectOf
      <4>2. CASE d # c
        BY <2>2, <2>3, <4>2 DEF Moves, SummaryInv, SubjectOf
      <4> QED BY <4>1, <4>2
    <3>2. report'[Subject[Runs(d)]] = q
      BY <1>3, <2>3, <3>1
    <3> HIDE DEF q
    <3> QED BY <3>1, <3>2
  <2>4. ASSUME NEW a \in Auditors, Passed(report'[a])
        PROVE  SameTimes(report'[a], report'[Subject[a]])
    <3>1. CASE report'[a] = report[a]
      <4>1. SameTimes(report[a], report[Subject[a]])
        BY <2>4, <3>1 DEF SummaryInv
      <4> QED BY <1>3, <3>1, <4>1
    <3>2. CASE report'[a] # report[a]
      <4>1. Runs(c) = a /\ report'[a] = state'[c]
        BY <1>2, <2>2, <3>2 DEF Moves
      <4>2. SameTimes(state'[c], report[Subject[a]])
        BY <2>1, <2>4, <3>2, <4>1, SummaryMoves DEF SubjectOf, Passed
      <4> QED BY <1>3, <4>1, <4>2
    <3> QED BY <3>1, <3>2
  <2> QED BY <2>3, <2>4 DEF SummaryInv, SubjectOf
<1>6. ASSUME \/ \E t \in Trial : Works0(t) \/ Dies(t) \/ WorkerFails(t) \/ Stop(t)
             \/ ChangeFile \/ ChangeRaw \/ UNCHANGED vars
      PROVE  UNCHANGED <<report, state, pc, index>>
  BY <1>6 DEF Works0, Opens, Imports, Checks, Verifies, Fingerprints, Starts, Ends, Works,
              Dies, WorkerFails, Stop, Elsewhere, ChangeFile, ChangeRaw, vars
<1> QED BY <1>4, <1>5, <1>6 DEF Next

LEMMA SummaryInit == Init => SummaryInv
<1> SUFFICES ASSUME Init PROVE SummaryInv
  OBVIOUS
<1>1. \A c \in Process : pc[c] \notin Auditing
  BY DEF Init, Auditing
<1>2. \A a \in Auditors : ~Passed(report[a])
  BY DEF Init, Passed, Program
<1> QED BY <1>1, <1>2 DEF SummaryInv

\* Every row of an accepted audit is the time in the bytes whose digest the campaign
\* recorded (main of both auditors), although the report of a trial may be edited
\* between any two of its readings.
THEOREM SummariesAreTrue == Spec => []SummaryIsCollected
<1>1. Spec => []EvidenceInv
  BY CampaignAlways, EvidenceInit, EvidenceStep, PTL DEF Spec
<1>2. CampaignInv /\ CampaignInv' /\ EvidenceInv /\ ConfirmInv /\ SummaryInv /\ [Next]_vars => SummaryInv'
  BY SummaryStep
<1>3. Spec => []SummaryInv
  BY <1>1, <1>2, CampaignAlways, ConfirmAlways, SummaryInit, PTL DEF Spec
<1>4. EvidenceInv /\ SummaryInv => SummaryIsCollected
  <2> SUFFICES ASSUME EvidenceInv, SummaryInv, NEW a \in Auditors, Passed(report[a])
               PROVE  /\ Len(report[a].records) = Len(PlanOf[Subject[a]])
                      /\ \A k \in DOMAIN report[a].records :
                            report[a].records[k].elapsed = report[Subject[a]].records[k].raw.elapsed
    BY DEF SummaryIsCollected
  <2> QED BY DEF EvidenceInv, SummaryInv, SameTimes
<1> QED BY <1>1, <1>3, <1>4, PTL

-----------------------------------------------------------------------------
(* The comparison of two wheels: its plan *)

PlannedTrial == [mode : {"miss", "hit"}, prime : BOOLEAN, version : Versions]

\* The plan: rebuilds come first, then a primer of each version, then the hits.
LEMMA PlanInBlocks ==
    /\ TrialCount \in Nat /\ TrialCount > 2 /\ 2 * Rounds + 2 < TrialCount
    /\ \A k \in Slot : k \in Nat /\ k >= 1 /\ k <= TrialCount
    /\ \A v \in Versions : PrimerOf(v) \in Slot /\ PrimerOf(v) \in {2 * Rounds + 1, 2 * Rounds + 2}
    /\ WholePlan \in Seq(PlannedTrial) /\ Len(WholePlan) = TrialCount
    /\ \A k \in Slot : WholePlan[k] \in PlannedTrial
    /\ \A k \in Slot :
          /\ k <= 2 * Rounds => WholePlan[k].mode = "miss" /\ WholePlan[k].prime = FALSE
          /\ k > 2 * Rounds => WholePlan[k].mode = "hit"
          /\ k > 2 * Rounds + 2 => WholePlan[k].prime = FALSE
    /\ \A v \in Versions : WholePlan[PrimerOf(v)].prime = TRUE /\ WholePlan[PrimerOf(v)].version = v
    /\ \A k \in {2 * Rounds + 1, 2 * Rounds + 2} : WholePlan[k].prime = TRUE
<1> DEFINE R == 2 * Rounds
<1>1. R \in Nat /\ R > 0 /\ TrialCount = 2 * R + 2 /\ TrialCount \in Nat
  BY ComparisonAssumption DEF TrialCount
<1>2. \A m \in {"miss", "hit"} :
        /\ PairsOf(m) \in Seq(PlannedTrial) /\ Len(PairsOf(m)) = R
        /\ \A k \in 1..R : PairsOf(m)[k].mode = m /\ PairsOf(m)[k].prime = FALSE
  <2> SUFFICES ASSUME NEW m \in {"miss", "hit"}
               PROVE  /\ PairsOf(m) \in Seq(PlannedTrial) /\ Len(PairsOf(m)) = R
                      /\ \A k \in 1..R : PairsOf(m)[k].mode = m /\ PairsOf(m)[k].prime = FALSE
    OBVIOUS
  <2>1. PairsOf(m) \in [1..R -> PlannedTrial]
    BY DEF PairsOf, PlannedTrial, Versions
  <2>2. \A k \in 1..R : PairsOf(m)[k].mode = m /\ PairsOf(m)[k].prime = FALSE
    BY DEF PairsOf
  <2> HIDE DEF R
  <2>3. PairsOf(m) \in Seq(PlannedTrial)
    BY <1>1, <2>1
  <2>4. Len(PairsOf(m)) = R
    BY <1>1, <2>1
  <2> QED BY <2>2, <2>3, <2>4
<1>3. /\ Priming \in Seq(PlannedTrial) /\ Len(Priming) = 2
      /\ Priming[1] = [mode |-> "hit", prime |-> TRUE, version |-> "baseline"]
      /\ Priming[2] = [mode |-> "hit", prime |-> TRUE, version |-> "candidate"]
  BY DEF Priming, PlannedTrial, Versions
<1> DEFINE A == PairsOf("miss")
<1> DEFINE B == PairsOf("hit")
<1> DEFINE N == TrialCount
<1>4. A \in Seq(PlannedTrial) /\ Len(A) = R /\ B \in Seq(PlannedTrial) /\ Len(B) = R
  BY <1>2
<1>5. \A k \in 1..R : A[k].mode = "miss" /\ A[k].prime = FALSE /\ B[k].mode = "hit" /\ B[k].prime = FALSE
  BY <1>2
<1> HIDE DEF A, B, R, N
<1>6. WholePlan = A \o Priming \o B
  BY DEF WholePlan, A, B
<1>7. /\ WholePlan \in Seq(PlannedTrial) /\ Len(WholePlan) = N
      /\ \A k \in 1..N : WholePlan[k] =
            IF k <= R THEN A[k] ELSE IF k <= R + 2 THEN Priming[k - R] ELSE B[k - R - 2]
  <2>1. N = R + 2 + R /\ N \in Nat
    BY <1>1 DEF N
  <2> DEFINE C == A \o Priming
  <2>2. /\ C \in Seq(PlannedTrial) /\ Len(C) = R + 2
        /\ \A k \in 1..(R + 2) : C[k] = IF k <= R THEN A[k] ELSE Priming[k - R]
    <3>1. /\ C \in Seq(PlannedTrial) /\ Len(C) = Len(A) + Len(Priming)
          /\ \A i \in 1..(Len(A) + Len(Priming)) : C[i] = IF i <= Len(A) THEN A[i] ELSE Priming[i - Len(A)]
      BY <1>3, <1>4, ConcatProperties, Zenon
    <3> HIDE DEF C
    <3> QED BY <3>1, <1>3, <1>4
  <2> HIDE DEF C
  <2>3. /\ C \o B \in Seq(PlannedTrial) /\ Len(C \o B) = R + 2 + R
        /\ \A k \in 1..(R + 2 + R) : (C \o B)[k] = IF k <= R + 2 THEN C[k] ELSE B[k - (R + 2)]
    <3>1. /\ C \o B \in Seq(PlannedTrial) /\ Len(C \o B) = Len(C) + Len(B)
          /\ \A i \in 1..(Len(C) + Len(B)) : (C \o B)[i] = IF i <= Len(C) THEN C[i] ELSE B[i - Len(C)]
      BY <2>2, <1>4, ConcatProperties, Zenon
    <3> QED BY <3>1, <2>2, <1>4
  <2>4. WholePlan = C \o B
    BY <1>6 DEF C
  <2>5. ASSUME NEW k \in 1..N
        PROVE  WholePlan[k] = IF k <= R THEN A[k] ELSE IF k <= R + 2 THEN Priming[k - R] ELSE B[k - R - 2]
    <3>1. k \in Nat /\ k >= 1 /\ k <= R + 2 + R /\ R \in Nat
      BY <2>1, <1>1
    <3>2. CASE k <= R + 2
      BY <3>1, <3>2, <2>2, <2>3, <2>4
    <3>3. CASE k > R + 2
      <4>1. k - (R + 2) = k - R - 2 /\ ~(k <= R)
        BY <3>1, <3>3
      <4> QED BY <3>1, <3>3, <4>1, <2>3, <2>4
    <3> QED BY <3>1, <3>2, <3>3
  <2> QED BY <2>1, <2>3, <2>4, <2>5
<1>8. \A k \in 1..N : WholePlan[k] \in PlannedTrial
  BY <1>7, ElementOfSeq
<1>9. Slot = 1..N /\ N \in Nat /\ N = 2 * R + 2 /\ R \in Nat /\ R > 0
  BY <1>1 DEF Slot, N
<1>10. \A k \in Slot :
          /\ k <= R => WholePlan[k].mode = "miss" /\ WholePlan[k].prime = FALSE
          /\ k > R => WholePlan[k].mode = "hit"
          /\ k > R + 2 => WholePlan[k].prime = FALSE
  <2> SUFFICES ASSUME NEW k \in Slot
               PROVE  /\ k <= R => WholePlan[k].mode = "miss" /\ WholePlan[k].prime = FALSE
                      /\ k > R => WholePlan[k].mode = "hit"
                      /\ k > R + 2 => WholePlan[k].prime = FALSE
    OBVIOUS
  <2>1. k \in 1..N /\ k \in Nat
    BY <1>9
  <2>2. CASE k <= R
    BY <2>1, <2>2, <1>5, <1>7, <1>9
  <2>3. CASE k > R + 2
    <3>1. k - R - 2 \in 1..R
      BY <2>1, <2>3, <1>9
    <3> QED BY <2>1, <2>3, <3>1, <1>5, <1>7, <1>9
  <2>4. CASE k = R + 1 \/ k = R + 2
    <3>1. k - R = 1 \/ k - R = 2
      BY <2>1, <2>4, <1>9
    <3>2. WholePlan[k] = Priming[k - R] /\ k > R /\ ~(k > R + 2)
      BY <2>1, <2>4, <1>7, <1>9
    <3> QED BY <3>1, <3>2, <1>3, <2>1, <1>9
  <2>5. k <= R \/ k > R + 2 \/ k = R + 1 \/ k = R + 2
    BY ONLY <2>1, <1>9
  <2> QED BY ONLY <2>2, <2>3, <2>4, <2>5
<1>11. R + 1 \in 1..N /\ R + 2 \in 1..N /\ (R + 1) - R = 1 /\ (R + 2) - R = 2 /\ ~(R + 1 <= R) /\ ~(R + 2 <= R)
  BY <1>9
<1>18. /\ WholePlan[R + 1] = [mode |-> "hit", prime |-> TRUE, version |-> "baseline"]
       /\ WholePlan[R + 2] = [mode |-> "hit", prime |-> TRUE, version |-> "candidate"]
  <2>1. WholePlan[R + 1] = Priming[(R + 1) - R] /\ WholePlan[R + 2] = Priming[(R + 2) - R]
    BY ONLY <1>7, <1>9, <1>11
  <2> QED BY <2>1, <1>3, <1>11
<1>12. PrimerOf("baseline") = R + 1 /\ PrimerOf("candidate") = R + 2
  BY DEF PrimerOf, R
<1>13. \A v \in Versions : v = "baseline" \/ v = "candidate"
  BY DEF Versions
<1>14. \A v \in Versions : PrimerOf(v) \in Slot /\ PrimerOf(v) \in {R + 1, R + 2}
  BY <1>9, <1>12, <1>13
<1>15. \A v \in Versions : WholePlan[PrimerOf(v)].prime = TRUE /\ WholePlan[PrimerOf(v)].version = v
  BY <1>12, <1>13, <1>18
<1>16. \A k \in {R + 1, R + 2} : WholePlan[k].prime = TRUE
  BY <1>18
<1>17. \A k \in Slot : k \in Nat /\ k >= 1 /\ k <= N
  BY <1>9
<1> QED BY <1>1, <1>7, <1>8, <1>9, <1>10, <1>14, <1>15, <1>16, <1>17 DEF R, N

-----------------------------------------------------------------------------
(* What every state of the comparison is made of *)

InputState == {"frozen", "changed"}
Sighted == InputState \cup {"absent"}
CacheState == [by : Nat, lib : Sighted, corpus : Sighted, whole : BOOLEAN]
CachesKept == {<<>>} \cup [Versions -> CacheState]
Written == {"none", "reference", "other"}
TrialState == [pc : {"none", "born", "describe", "clear", "construct", "confirm", "inspect", "ended"},
               loaded : Sighted, sees : Sighted, used : CacheState, hit : BOOLEAN, out : Written, code : {0, 1}]
Values == [is : {"output"}, spec : PlannedTrial, identity : Sighted, script : InputState,
           cache : CacheState, out : Written, edited : BOOLEAN]
Outputs == Values \cup {Missing}
Entries == [spec : PlannedTrial, value : Values, digest : Outputs]
Reports == [is : {"report"}, complete : BOOLEAN, failed : BOOLEAN, script : InputState,
            records : Seq(Entries), named : [Versions -> InputState]] \cup {Missing}
Launchings == [is : {"launch"}, by : Turns, complete : BOOLEAN, code : {"none", "done", "over", "dead"},
               report : Reports] \cup {Missing}
Qualifications == [is : {"qualification"}, by : Turns, complete : BOOLEAN, passed : BOOLEAN, report : Reports,
                   launch : Launchings, script : InputState \cup {"unread"}, stage : InputState \cup {"unread"},
                   caches : CachesKept, outputs : Seq(Outputs)] \cup {Missing}
Archives == [is : {"archive"}, report : Reports, outputs : [Slot -> Outputs],
             caches : [Versions -> CacheState]] \cup {Missing}
Notes == [stage : InputState, caches : CachesKept, outputs : Seq(Outputs)]

DiskTypes ==
    /\ inputs \in [Input -> InputState]
    /\ caches \in [Versions -> CacheState]
    /\ trials \in [Slot -> TrialState]
    /\ outputs \in [Slot -> Outputs]
    /\ comparison \in Reports
    /\ logged \in Turns \cup {NoParty}
    /\ turn[Comparer] \in Nat

-----------------------------------------------------------------------------
(* How far the comparison is *)

K == turn[Comparer]

HowFar ==
    /\ at[Comparer] \in {"idle", "prepare", "launch", "wait", "record", "failing", "done", "over", "dead"}
    /\ logged = NoParty => at[Comparer] = "idle"
    /\ at[Comparer] \in {"idle", "prepare"} => comparison = Missing
    /\ at[Comparer] \in {"launch", "wait", "record", "failing", "done"} => comparison # Missing
    /\ at[Comparer] \in {"wait", "record"} => K \in Slot
    /\ 1 <= K /\ K <= TrialCount + 1
    /\ comparison = Missing => K = 1 /\ \A k \in Slot : trials[k].pc = "none"
    /\ comparison # Missing =>
          /\ Len(comparison.records) + 1 = K
          /\ comparison.complete <=> at[Comparer] = "done"
          /\ at[Comparer] = "done" => K = TrialCount + 1

EndedWell(k) == trials[k].pc = "ended" /\ trials[k].code = 0
Tells(k, x) == x.identity = trials[k].loaded /\ x.out = trials[k].out

\* The trials before the current one ended well, those after it have not begun.
Phases ==
    /\ \A k \in Slot : (k < K => EndedWell(k)) /\ (k > K => trials[k].pc = "none")
    /\ at[Comparer] = "launch" => \A k \in Slot : k >= K => trials[k].pc = "none"
    /\ at[Comparer] = "record" => EndedWell(K) /\ held[Comparer] \in Values /\ Tells(K, held[Comparer])

\* What a worker has done when it is at a step.
TrialSound(k) ==
    LET w == trials[k]
        built == w.pc \in {"confirm", "inspect"} \/ EndedWell(k)
        confirmed == w.pc = "inspect" \/ EndedWell(k)
    IN  /\ w.pc # "ended" => w.code = 0
        /\ w.pc \in {"clear", "construct"} \/ built => w.sees = w.loaded
        /\ w.pc = "construct" /\ Clears(k) => ~caches[Version(k)].whole
        /\ built => w.used.lib = w.loaded
        /\ built /\ Clears(k) => w.used.by = k
        /\ built /\ ~Clears(k) /\ w.hit => w.used.by = PrimerOf(Version(k))
        /\ built => w.used.corpus = "frozen" \/ inputs[Images] = "changed"
        /\ confirmed => w.used.corpus = "frozen" /\ AsPlanned(k)

AllTrialsSound == \A k \in Slot : TrialSound(k)

\* A result is that of its worker.
Outcomes == \A k \in Slot : outputs[k] # Missing => EndedWell(k) /\ Tells(k, outputs[k])

\* The cache of a version is its primer's, unless a hit has just missed it; a worker
\* leaves the cache it used.
MissedHit(k) ==
    \/ trials[k].pc = "confirm" /\ ~trials[k].hit
    \/ trials[k].pc = "ended" /\ trials[k].code = 1
Retained ==
    /\ \A v \in Versions : PrimerOf(v) < K =>
          caches[v].by = PrimerOf(v) \/ (K \in Slot /\ Version(K) = v /\ MissedHit(K))
    /\ K \in Slot /\ (trials[K].pc \in {"confirm", "inspect"} \/ EndedWell(K)) =>
          caches[Version(K)].by = trials[K].used.by

\* A record is that of its worker, and of the version the report names.
RecordedTruly(e, k) ==
    /\ e.spec = WholePlan[k] /\ e.value.out = trials[k].out
    /\ e.value.identity = trials[k].loaded /\ e.value.identity = comparison.named[Version(k)]
Reported ==
    comparison # Missing =>
        \A k \in 1..Len(comparison.records) : RecordedTruly(comparison.records[k], k)

ComparisonCore == DiskTypes /\ HowFar /\ Phases /\ AllTrialsSound /\ Outcomes /\ Retained /\ Reported

-----------------------------------------------------------------------------
(* What the receipts and the archive hold *)

Complete == comparison # Missing /\ at[Comparer] = "done"
AllWhole(x) == x \in [Versions -> CacheState] /\ \A v \in Versions : x[v].whole

PaperTypes ==
    /\ launching \in Launchings /\ qualification \in Qualifications /\ bundle \in Archives
    /\ sealing \in [is : {"sealed"}, by : Turns] \cup {Missing}
    /\ DOMAIN at = Party /\ turn \in [Party -> Nat] /\ DOMAIN held = Party

WatchingOf(c) ==
    /\ at[c] \notin {"idle", "check", "over", "dead"} => qualification # Missing
    /\ at[c] \in {"await", "read", "caches", "rows", "digest"} => held[c] \in Notes
    /\ at[c] \in {"caches", "rows", "digest"} => Complete
    /\ at[c] \in {"rows", "digest"} => AllWhole(held[c].caches)
    /\ at[c] = "digest" => turn[c] \in Slot
SealingOf(c) ==
    /\ at[c] \in {"pack", "readback"} =>
          Complete /\ held[c] \in Archives /\ held[c] # Missing /\ AllWhole(held[c].caches)
    /\ at[c] = "readback" => bundle # Missing
Watching == \A c \in Turns : Role(c) = "watch" => WatchingOf(c)
Sealers == \A c \in Turns : Role(c) = "seal" => SealingOf(c)
PassedWhole == qualification # Missing /\ qualification.passed => AllWhole(qualification.caches)
Archived ==
    /\ bundle # Missing =>
          /\ Complete /\ bundle.report = comparison
          /\ \A v \in Versions : bundle.caches[v].by = PrimerOf(v)
    /\ sealing # Missing => bundle # Missing /\ AllWhole(bundle.caches)

ComparisonTrail == PaperTypes /\ Watching /\ Sealers /\ PassedWhole /\ Archived

-----------------------------------------------------------------------------
(* The comparison stands still *)

Silent == /\ UNCHANGED <<inputs, caches, trials, outputs, comparison, logged>>
          /\ at'[Comparer] = at[Comparer] /\ turn'[Comparer] = turn[Comparer]
          /\ held'[Comparer] = held[Comparer]

LEMMA CoreKept == ASSUME ComparisonCore, Silent PROVE ComparisonCore'
<1> USE DEF ComparisonCore, Silent, K
<1>1. DiskTypes' BY DEF DiskTypes
<1>2. HowFar' BY DEF HowFar
<1>3. Phases' BY DEF Phases, EndedWell, Tells
<1>4. AllTrialsSound' BY DEF AllTrialsSound, TrialSound, EndedWell, AsPlanned
<1>5. Outcomes' BY DEF Outcomes, EndedWell, Tells
<1>6. Retained' BY DEF Retained, MissedHit, EndedWell
<1>7. Reported' BY DEF Reported, RecordedTruly
<1> QED BY <1>1, <1>2, <1>3, <1>4, <1>5, <1>6, <1>7

\* The steps of the programs around the comparison.
LEMMA Programs ==
    /\ Comparer \in Party /\ Role(Comparer) = "compare"
    /\ \A c \in Turns : c # Comparer /\ Role(c) \in {"launch", "watch", "seal"} /\ c \in Party
BY DEF Turns, Comparer, Party, Role

LEMMA InitCore == ComparisonInit => ComparisonCore /\ ComparisonTrail
<1> SUFFICES ASSUME ComparisonInit PROVE ComparisonCore /\ ComparisonTrail
  OBVIOUS
<1>1. Comparer \in Party /\ at[Comparer] = "idle" /\ K = 1 /\ \A c \in Turns : at[c] = "idle" /\ Role(c) # "compare"
  BY DEF ComparisonInit, K, Party, Turns, Role, Comparer
<1>2. \A k \in Slot : trials[k] = Unborn
  BY DEF ComparisonInit
<1> USE <1>1, <1>2 DEF ComparisonInit
<1>3. DiskTypes
  BY DEF DiskTypes, InputState, CacheState, NoCache, TrialState, Unborn, Sighted, Written, Outputs, Reports, K
<1>4. HowFar
  BY PlanInBlocks DEF HowFar, Unborn, Missing
<1>5. Phases
  BY PlanInBlocks DEF Phases, Unborn
<1>6. AllTrialsSound
  BY DEF AllTrialsSound, TrialSound, EndedWell, Unborn
<1>7. Outcomes
  BY DEF Outcomes
<1>8. Retained
  BY PlanInBlocks DEF Retained, EndedWell, Unborn
<1>9. Reported
  BY DEF Reported
<1>10. ComparisonTrail
  BY DEF ComparisonTrail, PaperTypes, Watching, Sealers, PassedWhole, Archived, WatchingOf, SealingOf, Launchings, Qualifications, Archives
<1> QED BY <1>3, <1>4, <1>5, <1>6, <1>7, <1>8, <1>9, <1>10 DEF ComparisonCore

-----------------------------------------------------------------------------
(* Steps that leave the comparison as it is *)

\* A program's own step.
OwnStep(c) ==
    \/ Begins(c) \/ LaunchChecks(c) \/ Announces(c) \/ Returns(c) \/ Confirms(c)
    \/ Watches(c) \/ Seals(c)

LEMMA OwnStepIsSilent ==
    ASSUME PaperTypes, NEW c \in Turns, OwnStep(c)
    PROVE  Silent /\ (\E p : at' = [at EXCEPT ![c] = p]) /\ (\A d \in Party : d # c => held'[d] = held[d])
           /\ DOMAIN held' = Party /\ turn' \in [Party -> Nat]
<1> USE Programs DEF PaperTypes, Goes, Holds, KeepsTurn, NoPaper, OnlyLaunching, OnlyQualification, disk, papers
<1> DEFINE Goal == Silent /\ (\E p : at' = [at EXCEPT ![c] = p]) /\ (\A d \in Party : d # c => held'[d] = held[d])
                   /\ DOMAIN held' = Party /\ turn' \in [Party -> Nat]
<1>1. CASE Begins(c) BY <1>1 DEF Begins, Silent
<1>2. CASE LaunchChecks(c) BY <1>2 DEF LaunchChecks, Silent
<1>3. CASE Announces(c) BY <1>3 DEF Announces, Silent
<1>4. CASE Returns(c) BY <1>4 DEF Returns, Silent
<1>5. CASE Confirms(c) BY <1>5 DEF Confirms, Silent
<1>6. CASE WatchReserves(c) BY <1>6 DEF WatchReserves, Silent
<1>7. CASE Looks(c) BY <1>7 DEF Looks, Silent
<1>8. CASE Awaits(c) BY <1>8 DEF Awaits, Silent
<1>9. CASE ReadsReceipts(c) BY <1>9 DEF ReadsReceipts, Silent
<1>10. CASE AuditsCaches(c) BY <1>10 DEF AuditsCaches, Silent
<1>11. CASE AuditsRow(c) BY <1>11 DEF AuditsRow, Silent
<1>12. CASE Digests(c)
  <2>1. turn[c] + 1 \in Nat /\ turn' = [turn EXCEPT ![c] = turn[c] + 1]
    BY <1>12 DEF Digests
  <2>2. turn' \in [Party -> Nat] /\ turn'[Comparer] = turn[Comparer]
    BY <2>1
  <2> DEFINE x == [held[c] EXCEPT !.outputs = Append(@, outputs[turn[c]])]
  <2>3. held' = [held EXCEPT ![c] = x] /\ at' = [at EXCEPT ![c] = "rows"] /\ UNCHANGED <<disk, papers>>
    BY <1>12 DEF Digests
  <2> HIDE DEF x
  <2> QED BY <2>2, <2>3 DEF Silent
<1>13. CASE Concludes(c) BY <1>13 DEF Concludes, Silent
<1>14. CASE WatchFails(c) BY <1>14 DEF WatchFails, Silent
<1>15. CASE Gathers(c) BY <1>15 DEF Gathers, Silent
<1>16. CASE Packs(c) BY <1>16 DEF Packs, Silent
<1>17. CASE ReadsBack(c) BY <1>17 DEF ReadsBack, Silent
<1> QED
  BY <1>1, <1>2, <1>3, <1>4, <1>5, <1>6, <1>7, <1>8, <1>9, <1>10, <1>11, <1>12, <1>13, <1>14, <1>15, <1>16, <1>17
     DEF OwnStep, Watches, Seals

-----------------------------------------------------------------------------
(* The comparison itself *)

\* The worker that runs is that of the current trial.
LEMMA OneRuns ==
    ASSUME ComparisonCore, NEW k \in Slot, Running(k)
    PROVE  /\ k = K /\ comparison # Missing /\ at[Comparer] \in {"wait", "failing", "over", "dead"}
           /\ outputs[k] = Missing
<1>1. k = K
  BY PlanInBlocks DEF ComparisonCore, DiskTypes, Phases, Running, EndedWell, K
<1>2. comparison # Missing
  BY DEF ComparisonCore, HowFar, Running
<1>3. at[Comparer] \in {"wait", "failing", "over", "dead"}
  BY <1>1, <1>2, PlanInBlocks DEF ComparisonCore, DiskTypes, HowFar, Phases, Running, EndedWell, K
<1>4. outputs[k] = Missing
  BY DEF ComparisonCore, Outcomes, Running, EndedWell
<1> QED BY <1>1, <1>2, <1>3, <1>4

\* The launcher starts it once.
LEMMA OpensLogCore ==
    ASSUME ComparisonCore, PaperTypes, NEW c \in Turns, OpensLog(c)
    PROVE  ComparisonCore'
<1> USE Programs DEF PaperTypes, Goes, KeepsTurn, disk
<1>1. CASE logged # NoParty
  <2>1. Silent
    BY <1>1 DEF OpensLog, Silent
  <2> QED BY <2>1, CoreKept
<1>2. CASE logged = NoParty
  <2> USE <1>2 DEF ComparisonCore, OpensLog, K
  <2>1. at[Comparer] = "idle" /\ comparison = Missing /\ at'[Comparer] = "prepare" /\ logged' = c /\ logged' # NoParty
    BY DEF HowFar, NoParty, Turns
  <2>2. UNCHANGED <<inputs, caches, trials, outputs, comparison, turn, held>>
    OBVIOUS
  <2>3. DiskTypes' BY <2>1, <2>2 DEF DiskTypes
  <2>4. HowFar' BY <2>1, <2>2 DEF HowFar
  <2>5. Phases' BY <2>1, <2>2 DEF Phases, EndedWell, Tells
  <2>6. AllTrialsSound' BY <2>1, <2>2 DEF AllTrialsSound, TrialSound, EndedWell, AsPlanned
  <2>7. Outcomes' BY <2>1, <2>2 DEF Outcomes, EndedWell, Tells
  <2>8. Retained' BY <2>1, <2>2 DEF Retained, MissedHit, EndedWell
  <2>9. Reported' BY <2>1, <2>2 DEF Reported, RecordedTruly
  <2> QED BY <2>3, <2>4, <2>5, <2>6, <2>7, <2>8, <2>9
<1> QED BY <1>1, <1>2

\* What the other trials and the records are keeps when one trial or the report moves on.
LEMMA PreparesCore ==
    ASSUME ComparisonCore, PaperTypes, Prepares
    PROVE  ComparisonCore'
<1> USE Programs DEF PaperTypes, Goes, KeepsTurn, disk, ComparisonCore, Prepares, K, OnlyComparison
<1>1. comparison = Missing
  BY DEF HowFar
<1>2. UNCHANGED <<inputs, caches, trials, outputs, turn, held, logged>> /\ at'[Comparer] = "launch"
  BY <1>1
<1>3. /\ comparison' = [is |-> "report", complete |-> FALSE, failed |-> FALSE,
                        script |-> inputs[Wrapper], records |-> <<>>,
                        named |-> [v \in Versions |-> inputs[IdentityOf(v)]]]
      /\ comparison' # Missing
  BY <1>1 DEF Missing
<1>4. DiskTypes'
  <2>1. inputs[Wrapper] \in InputState /\ [v \in Versions |-> inputs[IdentityOf(v)]] \in [Versions -> InputState]
    BY DEF DiskTypes, Input
  <2>2. <<>> \in Seq(Entries)
    OBVIOUS
  <2> QED BY <1>2, <1>3, <2>1, <2>2 DEF DiskTypes, Reports
<1>5. K = 1 /\ \A k \in Slot : trials[k].pc = "none"
  BY <1>1 DEF HowFar
<1>6. HowFar' BY <1>2, <1>3, <1>5, PlanInBlocks DEF HowFar
<1>7. Phases' BY <1>2, <1>3, <1>5 DEF Phases, EndedWell, Tells
<1>8. AllTrialsSound' BY <1>2 DEF AllTrialsSound, TrialSound, EndedWell, AsPlanned
<1>9. Outcomes' BY <1>2 DEF Outcomes, EndedWell, Tells
<1>10. Retained' BY <1>2 DEF Retained, MissedHit, EndedWell
<1>11. Reported' BY <1>3 DEF Reported
<1> QED BY <1>4, <1>6, <1>7, <1>8, <1>9, <1>10, <1>11

LEMMA LaunchesTrialCore ==
    ASSUME ComparisonCore, PaperTypes, LaunchesTrial
    PROVE  ComparisonCore'
<1> USE Programs DEF PaperTypes, Goes, ComparisonCore, LaunchesTrial, NoPaper, papers
<1> DEFINE k == turn[Comparer]
<1> DEFINE w == [trials[k] EXCEPT !.pc = "born"]
<1>1. k \in Slot /\ k = K /\ comparison # Missing
  BY DEF HowFar, K
<1>2. /\ UNCHANGED <<inputs, caches, outputs, turn, held, logged, comparison>>
      /\ at[Comparer] = "launch" /\ at'[Comparer] = "wait" /\ K' = K
  BY DEF K
<1>3. trials' = [trials EXCEPT ![k] = w] /\ w \in TrialState /\ w.pc = "born" /\ trials[k].pc = "none" /\ w.code = trials[k].code
  <2>1. trials[k].pc = "none"
    BY <1>1, <1>2, PlanInBlocks DEF Phases, K
  <2>2. trials' = [trials EXCEPT ![k] = w]
    OBVIOUS
  <2>3. trials[k] \in TrialState
    BY <1>1 DEF DiskTypes
  <2>4. w \in TrialState /\ w.pc = "born" /\ w.code = trials[k].code
    BY <2>3 DEF TrialState
  <2> QED BY <2>1, <2>2, <2>4
<1> HIDE DEF k, w
<1>4. trials'[k] = w /\ \A j \in Slot : j # k => trials'[j] = trials[j]
  BY <1>1, <1>3 DEF DiskTypes
<1>5. DiskTypes' BY <1>1, <1>2, <1>3 DEF DiskTypes
<1>6. HowFar' BY <1>1, <1>2, <1>4 DEF HowFar
<1>7. Phases'
  BY <1>1, <1>2, <1>4, PlanInBlocks DEF Phases, EndedWell, Tells, DiskTypes, K
<1>8. AllTrialsSound' BY <1>1, <1>2, <1>3, <1>4 DEF AllTrialsSound, TrialSound, EndedWell, AsPlanned
<1>9. Outcomes' BY <1>2, <1>3, <1>4 DEF Outcomes, EndedWell, Tells
<1>10. Retained' BY <1>1, <1>2, <1>3, <1>4 DEF Retained, MissedHit, EndedWell
<1>11. Reported'
  <2> SUFFICES ASSUME NEW j \in 1..Len(comparison.records) PROVE RecordedTruly(comparison.records[j], j)'
    BY <1>1, <1>2 DEF Reported
  <2>1. j \in Slot /\ j # k
    BY <1>1, <1>2, PlanInBlocks DEF HowFar, DiskTypes, K, Slot
  <2> QED BY <2>1, <1>1, <1>2, <1>4 DEF Reported, RecordedTruly
<1> QED BY <1>5, <1>6, <1>7, <1>8, <1>9, <1>10, <1>11

\* The trials stand still, and so does the report: what is left of ComparisonCore is its progress.
LEMMA OnlyMoved ==
    ASSUME ComparisonCore, UNCHANGED <<inputs, caches, trials, outputs, comparison, logged>>,
           turn'[Comparer] = turn[Comparer], HowFar', Phases'
    PROVE  ComparisonCore'
<1> USE DEF ComparisonCore, K
<1>1. DiskTypes' BY DEF DiskTypes
<1>2. AllTrialsSound' BY DEF AllTrialsSound, TrialSound, EndedWell, AsPlanned
<1>3. Outcomes' BY DEF Outcomes, EndedWell, Tells
<1>4. Retained' BY DEF Retained, MissedHit, EndedWell
<1>5. Reported' BY DEF Reported, RecordedTruly
<1> QED BY <1>1, <1>2, <1>3, <1>4, <1>5

LEMMA CollectsTrialCore ==
    ASSUME ComparisonCore, PaperTypes, CollectsTrial
    PROVE  ComparisonCore'
<1> USE Programs DEF PaperTypes, Goes, Holds, KeepsTurn, disk, ComparisonCore, CollectsTrial, NoPaper, papers
<1> DEFINE k == turn[Comparer]
<1>1. k \in Slot /\ k = K /\ K' = K /\ comparison # Missing
  BY DEF HowFar, K
<1>2. /\ UNCHANGED <<inputs, caches, trials, outputs, turn, logged, comparison>>
      /\ at[Comparer] = "wait" /\ at'[Comparer] \in {"record", "failing"}
  OBVIOUS
<1>3. HowFar'
  BY <1>1, <1>2 DEF HowFar, K
<1>4. at'[Comparer] = "record" => EndedWell(K) /\ held'[Comparer] = outputs[K] /\ outputs[K] # Missing
  BY <1>1 DEF EndedWell, K
<1>5. at'[Comparer] = "record" => held'[Comparer] \in Values /\ Tells(K, held'[Comparer])
  BY <1>1, <1>4 DEF Outcomes, DiskTypes, Outputs
<1>6. Phases'
  BY <1>1, <1>2, <1>4, <1>5 DEF Phases, EndedWell, Tells, K
<1> QED BY <1>2, <1>3, <1>6, OnlyMoved

LEMMA SavesFailureCore ==
    ASSUME ComparisonCore, PaperTypes, SavesFailure
    PROVE  ComparisonCore'
<1> USE Programs DEF PaperTypes, Goes, KeepsTurn, disk, ComparisonCore, SavesFailure, OnlyComparison
<1> DEFINE r == [comparison EXCEPT !.failed = TRUE]
<1>1. comparison # Missing /\ comparison \in Reports /\ at[Comparer] = "failing"
  BY DEF HowFar, DiskTypes
<1>2. r \in Reports /\ r # Missing /\ r.records = comparison.records /\ r.named = comparison.named
      /\ r.complete = comparison.complete
  BY <1>1 DEF Reports, Missing
<1>3. comparison' = r /\ at'[Comparer] = "over" /\ UNCHANGED <<inputs, caches, trials, outputs, turn, logged, held>>
  OBVIOUS
<1> HIDE DEF r
<1> USE DEF K
<1>4. DiskTypes' BY <1>2, <1>3 DEF DiskTypes
<1>5. HowFar' BY <1>1, <1>2, <1>3 DEF HowFar
<1>6. Phases' BY <1>1, <1>3 DEF Phases, EndedWell, Tells
<1>7. AllTrialsSound' BY <1>3 DEF AllTrialsSound, TrialSound, EndedWell, AsPlanned
<1>8. Outcomes' BY <1>3 DEF Outcomes, EndedWell, Tells
<1>9. Retained' BY <1>3 DEF Retained, MissedHit, EndedWell
<1>10. Reported' BY <1>1, <1>2, <1>3 DEF Reported, RecordedTruly
<1> QED BY <1>4, <1>5, <1>6, <1>7, <1>8, <1>9, <1>10

LEMMA CompletesCore ==
    ASSUME ComparisonCore, PaperTypes, Completes
    PROVE  ComparisonCore'
<1> USE Programs DEF PaperTypes, Goes, KeepsTurn, disk, ComparisonCore, Completes, OnlyComparison
<1> DEFINE r == [comparison EXCEPT !.complete = TRUE]
<1>1. comparison # Missing /\ comparison \in Reports /\ at[Comparer] = "launch"
  BY DEF HowFar, DiskTypes
<1>2. r \in Reports /\ r # Missing /\ r.records = comparison.records /\ r.named = comparison.named /\ r.complete = TRUE
  BY <1>1 DEF Reports, Missing
<1>3. comparison' = r /\ at'[Comparer] = "done" /\ UNCHANGED <<inputs, caches, trials, outputs, turn, logged, held>>
  OBVIOUS
<1>4. turn[Comparer] = TrialCount + 1
  OBVIOUS
<1> HIDE DEF r
<1> USE DEF K
<1>5. DiskTypes' BY <1>2, <1>3 DEF DiskTypes
<1>6. HowFar' BY <1>1, <1>2, <1>3, <1>4 DEF HowFar
<1>7. Phases' BY <1>1, <1>3 DEF Phases, EndedWell, Tells
<1>8. AllTrialsSound' BY <1>3 DEF AllTrialsSound, TrialSound, EndedWell, AsPlanned
<1>9. Outcomes' BY <1>3 DEF Outcomes, EndedWell, Tells
<1>10. Retained' BY <1>3 DEF Retained, MissedHit, EndedWell
<1>11. Reported' BY <1>1, <1>2, <1>3 DEF Reported, RecordedTruly
<1> QED BY <1>5, <1>6, <1>7, <1>8, <1>9, <1>10, <1>11

\* A record is added for the trial that ended.
LEMMA RecordsTrialCore ==
    ASSUME ComparisonCore, PaperTypes, RecordsTrial
    PROVE  ComparisonCore'
<1> USE Programs DEF PaperTypes, Goes, ComparisonCore, OnlyComparison, disk
<1> DEFINE k == turn[Comparer]
<1> DEFINE x == held[Comparer]
<1> DEFINE e == Entry(k, x)
<1> DEFINE r == [comparison EXCEPT !.records = Append(@, e)]
<1>1. /\ at[Comparer] = "record" /\ k = K /\ k \in Slot /\ comparison # Missing /\ comparison \in Reports
      /\ EndedWell(k) /\ x \in Values /\ Tells(k, x)
      /\ UNCHANGED <<inputs, caches, trials, outputs, held, logged>>
  BY DEF RecordsTrial, HowFar, Phases, DiskTypes, K
<1>2. CASE ~AsAnchored(x, k, comparison)
  <2>1. UNCHANGED <<comparison, turn>> /\ at'[Comparer] = "failing"
    BY <1>2 DEF RecordsTrial
  <2>2. HowFar' /\ Phases'
    BY <1>1, <2>1 DEF HowFar, Phases, EndedWell, Tells, K
  <2> QED BY <1>1, <2>1, <2>2, OnlyMoved
<1>3. CASE AsAnchored(x, k, comparison)
  <2>1. /\ comparison' = r /\ turn' = [turn EXCEPT ![Comparer] = k + 1]
        /\ at'[Comparer] \in {"launch", "failing"}
    BY <1>1, <1>3 DEF RecordsTrial
  <2>2. e \in Entries /\ e.spec = WholePlan[k] /\ e.value = x
    BY <1>1, PlanInBlocks DEF Entry, Entries, DiskTypes
  <2>3. x.identity = comparison.named[Version(k)]
    BY <1>3 DEF AsAnchored, Version
  <2>4. comparison.records \in Seq(Entries) /\ Len(comparison.records) \in Nat /\ Len(comparison.records) + 1 = k
    BY <1>1 DEF Reports, HowFar, K
  <2> HIDE DEF e, x
  <2> DEFINE old == comparison.records
  <2> DEFINE new == Append(old, e)
  <2>5. /\ r.records = new /\ r.named = comparison.named /\ r.complete = comparison.complete
        /\ r = [comparison EXCEPT !.records = new]
    BY <1>1 DEF Reports
  <2>6. old \in Seq(Entries) /\ Len(old) \in Nat /\ Len(old) + 1 = k
    BY <2>4
  <2>7. new \in Seq(Entries) /\ Len(new) = Len(old) + 1 /\ new[Len(old) + 1] = e
        /\ \A j \in 1..Len(old) : new[j] = old[j]
    <3> HIDE DEF old
    <3> QED BY <2>2, <2>6
  <2> HIDE DEF new
  <2>8. r \in Reports /\ r # Missing
    BY <1>1, <2>5, <2>7 DEF Reports, Missing
  <2> HIDE DEF r
  <2>9. turn'[Comparer] = k + 1 /\ k \in Nat /\ k + 1 \in Nat /\ k >= 1 /\ k <= TrialCount /\ TrialCount \in Nat
    BY <1>1, <2>1, PlanInBlocks
  <2> HIDE DEF k
  <2>10. DiskTypes' BY <1>1, <2>1, <2>8, <2>9 DEF DiskTypes
  <2>11. HowFar'
    <3>1. Len(comparison'.records) + 1 = turn'[Comparer]
      BY <2>1, <2>5, <2>6, <2>7, <2>9
    <3>2. comparison.complete = FALSE
      BY <1>1 DEF HowFar, Reports
    <3> QED BY <1>1, <2>1, <2>5, <2>8, <2>9, <3>1, <3>2 DEF HowFar, K
  <2>12. \A j \in Slot : j > k => trials[j].pc = "none"
    BY <1>1 DEF Phases, K
  <2>13. Phases'
    BY <1>1, <2>1, <2>9, <2>12, PlanInBlocks DEF Phases, EndedWell, Tells, K
  <2>14. AllTrialsSound' BY <1>1 DEF AllTrialsSound, TrialSound, EndedWell, AsPlanned
  <2>15. Outcomes' BY <1>1 DEF Outcomes, EndedWell, Tells
  <2>16. \A v \in Versions : PrimerOf(v) < k + 1 => caches[v].by = PrimerOf(v)
    <3> SUFFICES ASSUME NEW v \in Versions, PrimerOf(v) < k + 1 PROVE caches[v].by = PrimerOf(v)
      OBVIOUS
    <3>1. PrimerOf(v) \in Slot /\ PrimerOf(v) \in Nat
      BY PlanInBlocks
    <3>2. CASE PrimerOf(v) = k
      <4>1. Clears(k) /\ Version(k) = v
        BY <3>2, PlanInBlocks DEF Clears, Version
      <4>2. trials[k].used.by = k
        BY <1>1, <4>1 DEF AllTrialsSound, TrialSound
      <4> QED BY <1>1, <3>2, <4>1, <4>2 DEF Retained
    <3>3. CASE PrimerOf(v) < k
      BY <1>1, <3>3 DEF Retained, MissedHit, EndedWell
    <3> QED BY <2>9, <3>1, <3>2, <3>3
  <2>17. k + 1 \in Slot => trials[k + 1].pc = "none"
    BY <2>9, <2>12
  <2>18. Retained'
    BY <1>1, <2>9, <2>16, <2>17 DEF Retained, EndedWell, K
  <2>19. Reported'
    <3>1. ASSUME NEW j \in 1..Len(new) PROVE RecordedTruly(new[j], j)
      <4>1. CASE j = k
        <5>1. RecordedTruly(e, k)
          BY <1>1, <2>2, <2>3 DEF RecordedTruly, Tells
        <5> QED BY <5>1, <4>1, <2>6, <2>7
      <4>2. CASE j # k
        <5>1. j \in 1..Len(old) /\ new[j] = old[j]
          BY <4>2, <2>6, <2>7
        <5> QED BY <1>1, <5>1 DEF Reported
      <4> QED BY <4>1, <4>2
    <3>2. comparison'.records = new /\ comparison'.named = comparison.named /\ trials' = trials
      BY <1>1, <2>1, <2>5
    <3> QED BY <3>1, <3>2 DEF Reported, RecordedTruly
  <2> QED BY <2>10, <2>11, <2>13, <2>14, <2>15, <2>18, <2>19
<1> QED BY <1>2, <1>3

-----------------------------------------------------------------------------
(* A worker's step *)

\* The rest of ComparisonCore follows when a step of the worker of slot k leaves that worker
\* sound, and the cache of its version where it belongs.
LEMMA WorkerCore ==
    ASSUME ComparisonCore, PaperTypes, NEW k \in Slot, Running(k), NEW w \in TrialState, w.pc # "none",
           trials' = [trials EXCEPT ![k] = w],
           UNCHANGED <<inputs, comparison, logged>>,
           at'[Comparer] = at[Comparer] \/ (at[Comparer] = "wait" /\ at'[Comparer] = "failing"),
           turn'[Comparer] = turn[Comparer], held'[Comparer] = held[Comparer],
           caches' \in [Versions -> CacheState],
           \A v \in Versions : v # Version(k) => caches'[v] = caches[v],
           \/ outputs' = outputs
           \/ /\ w.pc = "ended" /\ w.code = 0
              /\ \E x \in Values : /\ outputs' = [outputs EXCEPT ![k] = x]
                                   /\ x.identity = w.loaded /\ x.out = w.out,
           TrialSound(k)',
           PrimerOf(Version(k)) < k =>
               \/ caches'[Version(k)].by = PrimerOf(Version(k))
               \/ w.pc = "confirm" /\ ~w.hit
               \/ w.pc = "ended" /\ w.code = 1,
           w.pc \in {"confirm", "inspect"} \/ (w.pc = "ended" /\ w.code = 0) => caches'[Version(k)].by = w.used.by
    PROVE  ComparisonCore'
<1>1. k = K /\ K' = K /\ comparison # Missing /\ at[Comparer] \in {"wait", "failing", "over", "dead"} /\ outputs[k] = Missing
  BY OneRuns DEF K
<1>2. trials'[k] = w /\ \A j \in Slot : j # k => trials'[j] = trials[j]
  BY DEF ComparisonCore, DiskTypes
<1>3. DiskTypes'
  BY DEF ComparisonCore, DiskTypes, Outputs
<1>4. HowFar'
  BY <1>1 DEF ComparisonCore, HowFar
<1>5. Phases'
  BY <1>1, <1>2, PlanInBlocks DEF ComparisonCore, Phases, EndedWell, Tells, DiskTypes
<1>6. AllTrialsSound'
  <2> SUFFICES ASSUME NEW j \in Slot, j # k PROVE TrialSound(j)'
    BY DEF AllTrialsSound
  <2>1. trials'[j] = trials[j] /\ trials[j].pc \in {"none", "ended"}
    BY <1>1, <1>2, OneRuns DEF Running
  <2>2. TrialSound(j)
    BY DEF ComparisonCore, AllTrialsSound
  <2> QED BY <2>1, <2>2 DEF TrialSound, EndedWell, AsPlanned
<1>7. Outcomes'
  <2> SUFFICES ASSUME NEW j \in Slot, outputs'[j] # Missing PROVE EndedWell(j)' /\ Tells(j, outputs[j])'
    BY DEF Outcomes
  <2>1. CASE j # k
    <3>1. outputs'[j] = outputs[j] /\ trials'[j] = trials[j]
      BY <2>1, <1>2 DEF ComparisonCore, DiskTypes
    <3> QED BY <3>1 DEF ComparisonCore, Outcomes, EndedWell, Tells
  <2>2. CASE j = k
    BY <2>2, <1>1, <1>2 DEF ComparisonCore, DiskTypes, EndedWell, Tells
  <2> QED BY <2>1, <2>2
<1>8. Retained'
  <2>1. ASSUME NEW v \in Versions, PrimerOf(v) < K, v # Version(k)
        PROVE  caches'[v].by = PrimerOf(v)
    BY <1>1, <2>1 DEF ComparisonCore, Retained
  <2> QED BY <1>1, <1>2, <2>1 DEF Retained, MissedHit, EndedWell
<1>9. Reported'
  <2> SUFFICES ASSUME NEW j \in 1..Len(comparison.records) PROVE RecordedTruly(comparison.records[j], j)'
    BY <1>1 DEF Reported
  <2>1. j \in Slot /\ j # k
    BY <1>1, PlanInBlocks DEF ComparisonCore, HowFar, DiskTypes, K, Slot, Reports
  <2> QED BY <2>1, <1>1, <1>2 DEF ComparisonCore, Reported, RecordedTruly
<1> QED BY <1>3, <1>4, <1>5, <1>6, <1>7, <1>8, <1>9 DEF ComparisonCore

\* A worker fails.
LEMMA QuitsCore ==
    ASSUME ComparisonCore, PaperTypes, NEW k \in Slot, Running(k), Quits(k),
           UNCHANGED <<inputs, comparison, logged, caches, outputs>>,
           at'[Comparer] = at[Comparer] \/ (at[Comparer] = "wait" /\ at'[Comparer] = "failing"),
           turn'[Comparer] = turn[Comparer], held'[Comparer] = held[Comparer]
    PROVE  ComparisonCore'
<1> DEFINE w == [trials[k] EXCEPT !.pc = "ended", !.code = 1]
<1>1. trials[k] \in TrialState /\ caches \in [Versions -> CacheState]
  BY DEF ComparisonCore, DiskTypes
<1>2. w \in TrialState /\ w.pc = "ended" /\ w.code = 1
  BY <1>1 DEF TrialState
<1>3. trials' = [trials EXCEPT ![k] = w] /\ trials'[k] = w
  BY DEF Quits, Turned, ComparisonCore, DiskTypes
<1> HIDE DEF w
<1>4. TrialSound(k)'
  BY <1>2, <1>3 DEF TrialSound, EndedWell
<1>5. ~(w.pc \in {"confirm", "inspect"} \/ (w.pc = "ended" /\ w.code = 0)) /\ w.pc # "none"
  BY <1>2
<1>6. caches' \in [Versions -> CacheState] /\ \A v \in Versions : v # Version(k) => caches'[v] = caches[v]
  BY <1>1
<1> QED BY <1>2, <1>3, <1>4, <1>5, <1>6, WorkerCore

\* A step of a worker leaves the comparison where it is.
LEMMA StepOfWorker ==
    ASSUME ComparisonCore, NEW k \in Slot, NEW step, Proceeds(k, step), step \notin {"none", "ended"}
    PROVE  /\ Running(k) /\ trials[k].pc = step /\ trials[k] \in TrialState /\ k = K
           /\ UNCHANGED <<inputs, comparison, logged, at, turn, held>>
           /\ at'[Comparer] = at[Comparer] /\ turn'[Comparer] = turn[Comparer] /\ held'[Comparer] = held[Comparer]
           /\ caches \in [Versions -> CacheState] /\ Version(k) \in Versions /\ trials \in [Slot -> TrialState]
           /\ inputs \in [Input -> InputState] /\ TrialSound(k)
           /\ Images \in Input /\ Installed(Version(k)) \in Input /\ IdentityOf(Version(k)) \in Input
<1>1. Running(k) /\ trials[k].pc = step
  BY DEF Proceeds, Running
<1>2. Version(k) \in Versions
  BY PlanInBlocks DEF Version, PlannedTrial
<1> QED BY <1>1, <1>2, OneRuns DEF Proceeds, NoPaper, papers, ComparisonCore, DiskTypes, AllTrialsSound, Input

LEMMA LoadsCore ==
    ASSUME ComparisonCore, PaperTypes, NEW k \in Slot, Loads(k)
    PROVE  ComparisonCore'
<1> DEFINE w == [trials[k] EXCEPT !.loaded = inputs[Installed(Version(k))], !.pc = "describe"]
<1>1. /\ Running(k) /\ trials[k].pc = "born" /\ trials[k] \in TrialState /\ k = K /\ TrialSound(k)
      /\ UNCHANGED <<inputs, comparison, logged>> /\ inputs[Installed(Version(k))] \in InputState
      /\ at'[Comparer] = at[Comparer] /\ turn'[Comparer] = turn[Comparer] /\ held'[Comparer] = held[Comparer]
      /\ caches \in [Versions -> CacheState] /\ Version(k) \in Versions /\ trials \in [Slot -> TrialState]
  BY StepOfWorker DEF Loads
<1>2. caches' = caches /\ outputs' = outputs
  BY DEF Loads
<1>3. w \in TrialState /\ w.pc = "describe" /\ w.code = 0
  BY <1>1 DEF TrialState, Sighted, TrialSound
<1>4. trials' = [trials EXCEPT ![k] = w] /\ trials'[k] = w
  BY <1>1 DEF Loads, Turned
<1> HIDE DEF w
<1>5. TrialSound(k)'
  BY <1>3, <1>4 DEF TrialSound, EndedWell
<1>6. PrimerOf(Version(k)) < k => caches'[Version(k)].by = PrimerOf(Version(k))
  BY <1>1, <1>2 DEF ComparisonCore, Retained, MissedHit
<1> QED BY <1>1, <1>2, <1>3, <1>4, <1>5, <1>6, WorkerCore


LEMMA DescribesCore ==
    ASSUME ComparisonCore, PaperTypes, NEW k \in Slot, Describes(k)
    PROVE  ComparisonCore'
<1> DEFINE named == inputs[IdentityOf(Version(k))]
<1> DEFINE w == [trials[k] EXCEPT !.sees = named, !.pc = "clear"]
<1>1. /\ Running(k) /\ trials[k].pc = "describe" /\ trials[k] \in TrialState /\ k = K /\ TrialSound(k)
      /\ UNCHANGED <<inputs, comparison, logged>> /\ named \in InputState
      /\ at'[Comparer] = at[Comparer] /\ turn'[Comparer] = turn[Comparer] /\ held'[Comparer] = held[Comparer]
      /\ caches \in [Versions -> CacheState] /\ Version(k) \in Versions /\ trials \in [Slot -> TrialState]
  BY StepOfWorker DEF Describes
<1>2. caches' = caches /\ outputs' = outputs
  BY DEF Describes
<1>3. CASE Quits(k)
  BY <1>1, <1>2, <1>3, QuitsCore
<1>4. CASE trials[k].loaded = named /\ Turned(k, w)
  <2>1. w \in TrialState /\ w.pc = "clear" /\ w.sees = w.loaded /\ w.code = 0
    BY <1>1, <1>4 DEF TrialState, Sighted, TrialSound
  <2>2. trials' = [trials EXCEPT ![k] = w] /\ trials'[k] = w
    BY <1>1, <1>4 DEF Turned
  <2> HIDE DEF w
  <2>3. TrialSound(k)'
    BY <2>1, <2>2 DEF TrialSound, EndedWell
  <2>4. PrimerOf(Version(k)) < k => caches'[Version(k)].by = PrimerOf(Version(k))
    BY <1>1, <1>2 DEF ComparisonCore, Retained, MissedHit
  <2> QED BY <1>1, <1>2, <2>1, <2>2, <2>3, <2>4, WorkerCore
<1> QED BY <1>3, <1>4 DEF Describes


LEMMA ClearsCacheCore ==
    ASSUME ComparisonCore, PaperTypes, NEW k \in Slot, ClearsCache(k)
    PROVE  ComparisonCore'
<1> DEFINE v == Version(k)
<1> DEFINE w == [trials[k] EXCEPT !.pc = "construct"]
<1>1. /\ Running(k) /\ trials[k].pc = "clear" /\ trials[k] \in TrialState /\ k = K
      /\ UNCHANGED <<inputs, comparison, logged>> /\ TrialSound(k)
      /\ at'[Comparer] = at[Comparer] /\ turn'[Comparer] = turn[Comparer] /\ held'[Comparer] = held[Comparer]
      /\ caches \in [Versions -> CacheState] /\ v \in Versions /\ trials \in [Slot -> TrialState]
  BY StepOfWorker DEF ClearsCache
<1>2. outputs' = outputs
  BY DEF ClearsCache
<1>3. CASE Quits(k) /\ caches' = caches
  BY <1>1, <1>2, <1>3, QuitsCore
<1>4. CASE Turned(k, w) /\ caches' = [caches EXCEPT ![v] = IF Clears(k) THEN NoCache ELSE @]
  <2>1. w \in TrialState /\ w.pc = "construct" /\ w.sees = w.loaded /\ w.code = 0
    BY <1>1 DEF TrialState, TrialSound
  <2>2. trials' = [trials EXCEPT ![k] = w] /\ trials'[k] = w
    BY <1>1, <1>4 DEF Turned
  <2>3. NoCache \in CacheState /\ ~NoCache.whole
    BY DEF NoCache, CacheState, Sighted
  <2>4. /\ caches' \in [Versions -> CacheState] /\ \A u \in Versions : u # v => caches'[u] = caches[u]
        /\ Clears(k) => ~caches'[v].whole
        /\ ~Clears(k) => caches'[v] = caches[v]
    BY <1>1, <1>4, <2>3
  <2> HIDE DEF w
  <2>5. TrialSound(k)'
    BY <2>1, <2>2, <2>4 DEF TrialSound, EndedWell
  <2>6. PrimerOf(v) < k => ~Clears(k)
    <3>1. PrimerOf(v) < k => k > 2 * Rounds + 1 /\ (k = 2 * Rounds + 2 => PrimerOf(v) = 2 * Rounds + 1)
      BY <1>1, PlanInBlocks, ComparisonAssumption
    <3>2. k = 2 * Rounds + 2 => PrimerOf(v) = k
      BY PlanInBlocks, ComparisonAssumption DEF PrimerOf, Version, Versions
    <3>3. PrimerOf(v) < k => k > 2 * Rounds + 2
      BY <3>1, <3>2, PlanInBlocks, ComparisonAssumption
    <3> QED BY <3>3, PlanInBlocks, ComparisonAssumption DEF Clears
  <2>7. PrimerOf(v) < k => caches'[v].by = PrimerOf(v)
    BY <1>1, <2>4, <2>6 DEF ComparisonCore, Retained, MissedHit
  <2> QED BY <1>1, <1>2, <2>1, <2>2, <2>4, <2>5, <2>7, WorkerCore
<1> QED BY <1>3, <1>4 DEF ClearsCache

LEMMA ConstructsDatasetCore ==
    ASSUME ComparisonCore, PaperTypes, NEW k \in Slot, ConstructsDataset(k)
    PROVE  ComparisonCore'
<1> DEFINE v == Version(k)
<1> DEFINE t == trials[k]
<1> DEFINE old == caches[v]
<1> DEFINE new == IF Serves(old, t.loaded) THEN old
                  ELSE [by |-> k, lib |-> t.loaded, corpus |-> inputs[Images], whole |-> TRUE]
<1>1. /\ Running(k) /\ t.pc = "construct" /\ t \in TrialState /\ k = K
      /\ UNCHANGED <<inputs, comparison, logged>> /\ TrialSound(k) /\ inputs[Images] \in InputState
      /\ at'[Comparer] = at[Comparer] /\ turn'[Comparer] = turn[Comparer] /\ held'[Comparer] = held[Comparer]
      /\ caches \in [Versions -> CacheState] /\ v \in Versions /\ trials \in [Slot -> TrialState]
  BY StepOfWorker DEF ConstructsDataset
<1>2. outputs' = outputs /\ caches' = [caches EXCEPT ![v] = new]
  BY DEF ConstructsDataset
<1>3. PICK out \in OutOf(new) :
        Turned(k, [t EXCEPT !.used = new, !.hit = Serves(old, t.loaded), !.out = out, !.pc = "confirm"])
  BY DEF ConstructsDataset
<1> DEFINE w == [t EXCEPT !.used = new, !.hit = Serves(old, t.loaded), !.out = out, !.pc = "confirm"]
<1>4. Serves(old, t.loaded) \in BOOLEAN
  BY <1>1 DEF Serves, CacheState
<1>5. /\ new \in CacheState /\ new.lib = t.loaded
      /\ new.corpus = "frozen" \/ inputs[Images] = "changed"
      /\ Serves(old, t.loaded) => new = old
      /\ ~Serves(old, t.loaded) => new.by = k
  BY <1>1, PlanInBlocks DEF Serves, CacheState, TrialState, InputState, Sighted
<1>6. out \in Written
  BY <1>3 DEF OutOf, Written
<1> HIDE DEF new
<1>7. w \in TrialState /\ w.pc = "confirm" /\ w.used = new /\ (w.hit <=> Serves(old, t.loaded)) /\ w.loaded = t.loaded
      /\ w.sees = t.sees /\ w.code = 0
  BY <1>1, <1>4, <1>5, <1>6 DEF TrialState, TrialSound
<1>8. trials' = [trials EXCEPT ![k] = w] /\ trials'[k] = w
  BY <1>1, <1>3 DEF Turned
<1>9. /\ caches' \in [Versions -> CacheState] /\ \A u \in Versions : u # v => caches'[u] = caches[u]
      /\ caches'[v] = new
  BY <1>1, <1>2, <1>5
<1> HIDE DEF w
<1>10. t.sees = t.loaded /\ (Clears(k) => ~old.whole)
  BY <1>1 DEF TrialSound
<1>11. Clears(k) => ~Serves(old, t.loaded)
  BY <1>10 DEF Serves
<1>12. PrimerOf(v) < k => old.by = PrimerOf(v)
  BY <1>1 DEF ComparisonCore, Retained, MissedHit
<1>13. ~Clears(k) => PrimerOf(v) < k
  <2>1. ~Clears(k) => k > 2 * Rounds + 2
    BY PlanInBlocks, ComparisonAssumption DEF Clears
  <2>2. PrimerOf(v) <= 2 * Rounds + 2 /\ PrimerOf(v) \in Nat /\ k \in Nat /\ 2 * Rounds + 2 \in Nat
    BY <1>1, PlanInBlocks, ComparisonAssumption
  <2> QED BY <2>1, <2>2
<1>14. TrialSound(k)'
  BY <1>1, <1>5, <1>7, <1>8, <1>10, <1>11, <1>12, <1>13 DEF TrialSound, EndedWell
<1>15. PrimerOf(v) < k => caches'[v].by = PrimerOf(v) \/ (w.pc = "confirm" /\ ~w.hit)
  BY <1>5, <1>7, <1>9, <1>12
<1>16. caches'[v].by = w.used.by
  BY <1>7, <1>9
<1> QED BY <1>1, <1>2, <1>7, <1>8, <1>9, <1>14, <1>15, <1>16, WorkerCore


LEMMA ConfirmsTrialCore ==
    ASSUME ComparisonCore, PaperTypes, NEW k \in Slot, ConfirmsTrial(k)
    PROVE  ComparisonCore'
<1> DEFINE v == Version(k)
<1> DEFINE t == trials[k]
<1> DEFINE w == [t EXCEPT !.pc = "inspect"]
<1>1. /\ Running(k) /\ t.pc = "confirm" /\ t \in TrialState /\ k = K
      /\ UNCHANGED <<inputs, comparison, logged>> /\ TrialSound(k) /\ inputs[Images] \in InputState
      /\ at'[Comparer] = at[Comparer] /\ turn'[Comparer] = turn[Comparer] /\ held'[Comparer] = held[Comparer]
      /\ caches \in [Versions -> CacheState] /\ v \in Versions /\ trials \in [Slot -> TrialState]
  BY StepOfWorker DEF ConfirmsTrial
<1>2. outputs' = outputs /\ caches' = caches
  BY DEF ConfirmsTrial
<1>3. CASE Quits(k)
  BY <1>1, <1>2, <1>3, QuitsCore
<1>4. CASE inputs[Images] = "frozen" /\ AsPlanned(k) /\ Turned(k, w)
  <2>1. /\ w \in TrialState /\ w.pc = "inspect" /\ w.used = t.used /\ w.hit = t.hit /\ w.loaded = t.loaded
        /\ w.sees = t.sees /\ w.code = 0
    BY <1>1 DEF TrialState, TrialSound
  <2>2. trials' = [trials EXCEPT ![k] = w] /\ trials'[k] = w
    BY <1>1, <1>4 DEF Turned
  <2> HIDE DEF w
  <2>3. TrialSound(k)'
    BY <1>1, <1>4, <2>1, <2>2 DEF TrialSound, EndedWell, AsPlanned
  <2>4. PrimerOf(v) < k => caches'[v].by = PrimerOf(v)
    <3> SUFFICES ASSUME PrimerOf(v) < k PROVE caches'[v].by = PrimerOf(v)
      OBVIOUS
    <3>1. caches[v].by = PrimerOf(v) \/ ~t.hit
      BY <1>1 DEF ComparisonCore, Retained, MissedHit
    <3>2. k > 2 * Rounds + 2
      <4>1. k > 2 * Rounds + 1 /\ (k = 2 * Rounds + 2 => PrimerOf(v) = 2 * Rounds + 1)
        BY <1>1, PlanInBlocks, ComparisonAssumption
      <4>2. k = 2 * Rounds + 2 => PrimerOf(v) = k
        BY PlanInBlocks, ComparisonAssumption DEF PrimerOf, Version, Versions
      <4> QED BY <4>1, <4>2, PlanInBlocks, ComparisonAssumption
    <3>3. t.hit
      BY <1>4, <3>2, PlanInBlocks, ComparisonAssumption DEF AsPlanned
    <3> QED BY <1>2, <3>1, <3>3
  <2>5. caches'[v].by = w.used.by
    BY <1>1, <1>2, <2>1 DEF ComparisonCore, Retained
  <2> QED BY <1>1, <1>2, <2>1, <2>2, <2>3, <2>4, <2>5, WorkerCore
<1> QED BY <1>3, <1>4 DEF ConfirmsTrial


LEMMA InspectsCore ==
    ASSUME ComparisonCore, PaperTypes, NEW k \in Slot, Inspects(k)
    PROVE  ComparisonCore'
<1> DEFINE v == Version(k)
<1> DEFINE t == trials[k]
<1> DEFINE w == [t EXCEPT !.pc = "ended"]
<1> DEFINE x == Left(k)
<1>1. /\ Running(k) /\ t.pc = "inspect" /\ t \in TrialState /\ k = K
      /\ UNCHANGED <<inputs, comparison, logged>> /\ TrialSound(k) /\ inputs[Wrapper] \in InputState
      /\ at'[Comparer] = at[Comparer] /\ turn'[Comparer] = turn[Comparer] /\ held'[Comparer] = held[Comparer]
      /\ caches \in [Versions -> CacheState] /\ v \in Versions /\ trials \in [Slot -> TrialState]
  BY StepOfWorker DEF Inspects, Input
<1>2. caches' = caches
  BY DEF Inspects
<1>3. CASE Quits(k) /\ outputs' = outputs
  BY <1>1, <1>2, <1>3, QuitsCore
<1>4. CASE Turned(k, w) /\ outputs' = [outputs EXCEPT ![k] = x]
  <2>1. /\ w \in TrialState /\ w.pc = "ended" /\ w.used = t.used /\ w.hit = t.hit /\ w.loaded = t.loaded
        /\ w.sees = t.sees /\ w.code = 0 /\ w.out = t.out
    BY <1>1 DEF TrialState, TrialSound
  <2>2. trials' = [trials EXCEPT ![k] = w] /\ trials'[k] = w
    BY <1>1, <1>4 DEF Turned
  <2>3. t.sees = t.loaded
    BY <1>1 DEF TrialSound
  <2>4. x \in Values /\ x.identity = t.sees /\ x.out = t.out
    <3>1. BytesOf(caches[v]) \in CacheState
      BY <1>1 DEF BytesOf, CacheState
    <3> QED BY <3>1, <1>1, PlanInBlocks DEF Left, Values, TrialState
  <2> HIDE DEF w, x
  <2>5. TrialSound(k)'
    BY <1>1, <2>1, <2>2, <2>3 DEF TrialSound, EndedWell, AsPlanned
  <2>6. PrimerOf(v) < k => caches'[v].by = PrimerOf(v)
    BY <1>1, <1>2 DEF ComparisonCore, Retained, MissedHit
  <2>7. caches'[v].by = w.used.by
    BY <1>1, <1>2, <2>1 DEF ComparisonCore, Retained
  <2>8. \E y \in Values : outputs' = [outputs EXCEPT ![k] = y] /\ y.identity = w.loaded /\ y.out = w.out
    BY <1>4, <2>1, <2>3, <2>4
  <2>9. caches' \in [Versions -> CacheState] /\ \A u \in Versions : u # v => caches'[u] = caches[u]
    BY <1>1, <1>2
  <2> QED BY <1>1, <2>1, <2>2, <2>5, <2>6, <2>7, <2>8, <2>9, WorkerCore
<1> QED BY <1>3, <1>4 DEF Inspects

-----------------------------------------------------------------------------
(* Mishaps *)

LEMMA TrialFailsCore ==
    ASSUME ComparisonCore, PaperTypes, NEW k \in Slot, TrialFails(k)
    PROVE  ComparisonCore'
<1>1. Running(k) /\ Quits(k) /\ UNCHANGED <<inputs, comparison, logged, caches, outputs, at, turn, held>>
  BY DEF TrialFails, NoPaper, papers
<1> QED BY <1>1, QuitsCore

LEMMA InterruptsCore ==
    ASSUME ComparisonCore, PaperTypes, NEW c \in Party, Interrupts(c)
    PROVE  ComparisonCore'
<1> USE Programs DEF PaperTypes, NoPaper, papers, Goes
<1>1. UNCHANGED <<inputs, comparison, logged, caches, outputs, turn, held>> /\ Live(c) /\ at[c] \notin {"check", "failing"}
  BY DEF Interrupts
<1>2. c \in Turns \/ c = Comparer
  BY DEF Party
<1>3. CASE c = Comparer
  <2>1. /\ at[Comparer] \in {"launch", "wait", "record"} /\ at'[Comparer] = "failing" /\ comparison # Missing
        /\ trials' = [k \in Slot |-> IF k = turn[c] /\ at[c] = "wait" /\ Running(k)
                                     THEN [trials[k] EXCEPT !.pc = "ended", !.code = 1] ELSE trials[k]]
    BY <1>1, <1>3 DEF Interrupts, Live, Finished, ComparisonCore, HowFar
  <2>2. trials \in [Slot -> TrialState]
    BY DEF ComparisonCore, DiskTypes
  <2>3. CASE K \in Slot /\ at[c] = "wait" /\ Running(K)
    <3>1. trials' = [trials EXCEPT ![K] = [trials[K] EXCEPT !.pc = "ended", !.code = 1]]
      BY <1>3, <2>1, <2>2, <2>3 DEF K
    <3>2. Quits(K)
      BY <3>1 DEF Quits, Turned
    <3> QED BY <1>1, <1>3, <2>1, <2>3, <3>2, QuitsCore
  <2>4. CASE ~(K \in Slot /\ at[c] = "wait" /\ Running(K))
    <3>1. trials' = trials
      BY <1>3, <2>1, <2>2, <2>4 DEF K
    <3>2. HowFar' /\ Phases'
      BY <1>1, <2>1, <3>1 DEF ComparisonCore, HowFar, Phases, EndedWell, Tells, K
    <3> QED BY <1>1, <3>1, <3>2, OnlyMoved
  <2> QED BY <2>3, <2>4
<1>4. CASE c \in Turns
  <2>1. trials' = trials
    BY <1>4 DEF Interrupts
  <2>2. CASE at'[Comparer] = at[Comparer]
    BY <1>1, <2>1, <2>2, CoreKept DEF Silent
  <2>3. CASE at'[Comparer] # at[Comparer]
    <3>1. Live(Comparer) /\ at'[Comparer] = "dead"
      BY <1>4, <2>3 DEF Interrupts
    <3>2. HowFar' /\ Phases'
      BY <1>1, <2>1, <3>1 DEF ComparisonCore, HowFar, Phases, EndedWell, Tells, K, Live, Finished
    <3> QED BY <1>1, <2>1, <3>2, OnlyMoved
  <2> QED BY <2>2, <2>3
<1> QED BY <1>2, <1>3, <1>4

LEMMA KilledCore ==
    ASSUME ComparisonCore, PaperTypes, NEW c \in Party, Killed(c)
    PROVE  ComparisonCore'
<1> USE Programs DEF PaperTypes, NoPaper, papers, Goes, disk
<1>1. UNCHANGED <<inputs, comparison, logged, caches, trials, outputs, turn, held>> /\ Live(c) /\ at' = [at EXCEPT ![c] = "dead"]
  BY DEF Killed
<1>2. CASE c = Comparer
  <2>1. HowFar' /\ Phases'
    BY <1>1, <1>2 DEF ComparisonCore, HowFar, Phases, EndedWell, Tells, K, Live, Finished
  <2> QED BY <1>1, <2>1, OnlyMoved
<1>3. CASE c # Comparer
  BY <1>1, <1>3, CoreKept DEF Silent
<1> QED BY <1>2, <1>3

LEMMA FileMishapCore ==
    ASSUME ComparisonCore, PaperTypes,
           \/ ChangesInput
           \/ \E v \in Versions : DamagesCache(v)
           \/ \E k \in Slot : EditsOutput(k)
    PROVE  ComparisonCore'
<1> USE DEF ComparisonCore, NoPaper, papers, K
<1>1. CASE ChangesInput
  <2>1. UNCHANGED <<comparison, logged, caches, trials, outputs, at, turn, held>>
    BY <1>1 DEF ChangesInput
  <2>2. PICK fs : inputs' = [f \in Input |-> IF f \in fs THEN "changed" ELSE inputs[f]]
    BY <1>1 DEF ChangesInput
  <2>3. DiskTypes' BY <2>1, <2>2 DEF DiskTypes, InputState
  <2>4. HowFar' BY <2>1 DEF HowFar
  <2>5. Phases' BY <2>1 DEF Phases, EndedWell, Tells
  <2>6. inputs[Images] = "changed" => inputs'[Images] = "changed"
    BY <2>2 DEF Input
  <2>7. AllTrialsSound' BY <2>1, <2>6 DEF AllTrialsSound, TrialSound, EndedWell, AsPlanned
  <2>8. Outcomes' BY <2>1 DEF Outcomes, EndedWell, Tells
  <2>9. Retained' BY <2>1 DEF Retained, MissedHit, EndedWell
  <2>10. Reported' BY <2>1 DEF Reported, RecordedTruly
  <2> QED BY <2>3, <2>4, <2>5, <2>7, <2>8, <2>9, <2>10
<1>2. ASSUME NEW v \in Versions, DamagesCache(v) PROVE ComparisonCore'
  <2>1. UNCHANGED <<comparison, logged, inputs, trials, outputs, at, turn, held>>
    BY <1>2 DEF DamagesCache
  <2> DEFINE x == [caches[v] EXCEPT !.whole = FALSE]
  <2>2. caches' = [caches EXCEPT ![v] = x] /\ caches[v] \in CacheState
    BY <1>2 DEF DamagesCache, DiskTypes
  <2>3. x \in CacheState /\ x.by = caches[v].by /\ ~x.whole
    BY <2>2 DEF CacheState
  <2> HIDE DEF x
  <2>4. /\ caches' \in [Versions -> CacheState]
        /\ \A u \in Versions : caches'[u].by = caches[u].by /\ (~caches[u].whole => ~caches'[u].whole)
    BY <2>2, <2>3 DEF DiskTypes
  <2>5. \A k \in Slot : Version(k) \in Versions
    BY PlanInBlocks DEF Version, PlannedTrial
  <2>6. DiskTypes' BY <2>1, <2>4 DEF DiskTypes
  <2>7. HowFar' BY <2>1 DEF HowFar
  <2>8. Phases' BY <2>1 DEF Phases, EndedWell, Tells
  <2>9. AllTrialsSound' BY <2>1, <2>4, <2>5 DEF AllTrialsSound, TrialSound, EndedWell, AsPlanned
  <2>10. Outcomes' BY <2>1 DEF Outcomes, EndedWell, Tells
  <2>11. Retained' BY <2>1, <2>4, <2>5 DEF Retained, MissedHit, EndedWell
  <2>12. Reported' BY <2>1 DEF Reported, RecordedTruly
  <2> QED BY <2>6, <2>7, <2>8, <2>9, <2>10, <2>11, <2>12
<1>3. ASSUME NEW k \in Slot, EditsOutput(k) PROVE ComparisonCore'
  <2>1. UNCHANGED <<comparison, logged, inputs, trials, caches, at, turn, held>> /\ outputs[k] # Missing
    BY <1>3 DEF EditsOutput
  <2> DEFINE x == [outputs[k] EXCEPT !.edited = TRUE]
  <2>2. outputs' = [outputs EXCEPT ![k] = x] /\ outputs[k] \in Values
    BY <1>3, <2>1 DEF EditsOutput, DiskTypes, Outputs
  <2>3. x \in Values /\ x.identity = outputs[k].identity /\ x.out = outputs[k].out
    BY <2>2 DEF Values
  <2> HIDE DEF x
  <2>4. DiskTypes' BY <2>1, <2>2, <2>3 DEF DiskTypes, Outputs
  <2>5. HowFar' BY <2>1 DEF HowFar
  <2>6. Phases' BY <2>1 DEF Phases, EndedWell, Tells
  <2>7. AllTrialsSound' BY <2>1 DEF AllTrialsSound, TrialSound, EndedWell, AsPlanned
  <2>8. Outcomes' BY <2>1, <2>2, <2>3 DEF Outcomes, EndedWell, Tells, DiskTypes
  <2>9. Retained' BY <2>1 DEF Retained, MissedHit, EndedWell
  <2>10. Reported' BY <2>1 DEF Reported, RecordedTruly
  <2> QED BY <2>4, <2>5, <2>6, <2>7, <2>8, <2>9, <2>10
<1> QED BY <1>1, <1>2, <1>3

LEMMA CoreStep == ComparisonCore /\ PaperTypes /\ [ComparisonNext]_comparisonVars => ComparisonCore'
<1> SUFFICES ASSUME ComparisonCore, PaperTypes, [ComparisonNext]_comparisonVars PROVE ComparisonCore'
  OBVIOUS
<1>1. CASE UNCHANGED comparisonVars
  BY <1>1, CoreKept DEF comparisonVars, disk, papers, Silent
<1>2. CASE Compares
  BY <1>2, PreparesCore, LaunchesTrialCore, CollectsTrialCore, RecordsTrialCore, CompletesCore, SavesFailureCore
     DEF Compares
<1>3. ASSUME NEW c \in Turns, Begins(c) \/ LaunchSteps(c) \/ Watches(c) \/ Seals(c) PROVE ComparisonCore'
  <2>1. CASE OpensLog(c)
    BY <2>1, OpensLogCore
  <2>2. CASE OwnStep(c)
    BY <2>2, OwnStepIsSilent, CoreKept
  <2> QED BY <1>3, <2>1, <2>2 DEF LaunchSteps, OwnStep
<1>4. ASSUME NEW c \in Party, Interrupts(c) \/ Killed(c) PROVE ComparisonCore'
  BY <1>4, InterruptsCore, KilledCore
<1>5. ASSUME NEW k \in Slot, Measures(k) \/ TrialFails(k) PROVE ComparisonCore'
  BY <1>5, LoadsCore, DescribesCore, ClearsCacheCore, ConstructsDatasetCore, ConfirmsTrialCore, InspectsCore,
     TrialFailsCore DEF Measures
<1>6. CASE ChangesInput \/ (\E v \in Versions : DamagesCache(v)) \/ (\E k \in Slot : EditsOutput(k))
  BY <1>6, FileMishapCore
<1> QED BY <1>1, <1>2, <1>3, <1>4, <1>5, <1>6 DEF ComparisonNext

-----------------------------------------------------------------------------
(* The receipts *)

\* What is complete stays as it is.
Settles == Complete => comparison' = comparison /\ at'[Comparer] = "done"

\* A step that writes no qualification and no archive, and moves a watcher or a sealer to
\* its beginning or its end at most.
LEMMA FarFromPapers ==
    ASSUME ComparisonTrail, launching' \in Launchings, UNCHANGED <<qualification, bundle, sealing>>,
           DOMAIN at' = Party, turn' \in [Party -> Nat], DOMAIN held' = Party,
           \A d \in Turns : Role(d) \in {"watch", "seal"} =>
               /\ \/ at'[d] = at[d] \/ at'[d] \in {"check", "over", "dead"}
                  \/ at'[d] = "failing" /\ at[d] \notin {"idle", "check", "over", "dead"}
               /\ held'[d] = held[d] /\ turn'[d] = turn[d],
           Settles
    PROVE  ComparisonTrail'
<1> USE DEF ComparisonTrail, Settles
<1>1. PaperTypes' BY DEF PaperTypes
<1>2. Complete => Complete' BY DEF Complete
<1>3. Watching' BY <1>2 DEF Watching, WatchingOf
<1>4. Sealers' BY <1>2 DEF Sealers, SealingOf
<1>5. PassedWhole' BY DEF PassedWhole
<1>6. Archived' BY <1>2 DEF Archived
<1> QED BY <1>1, <1>3, <1>4, <1>5, <1>6

LEMMA LauncherTrail ==
    ASSUME ComparisonCore, ComparisonTrail, NEW c \in Turns, Begins(c) \/ LaunchSteps(c)
    PROVE  ComparisonTrail'
<1> USE Programs DEF ComparisonTrail, PaperTypes, Goes, KeepsTurn, disk, papers, NoPaper, OnlyLaunching
<1>1. UNCHANGED <<qualification, bundle, sealing, comparison, turn, held>>
  BY DEF Begins, LaunchSteps, LaunchChecks, Announces, OpensLog, Returns, Confirms
<1>2. DOMAIN at' = Party
  BY DEF Begins, LaunchSteps, LaunchChecks, Announces, OpensLog, Returns, Confirms
<1>3. \A d \in Turns : Role(d) \in {"watch", "seal"} => at'[d] = at[d] \/ at'[d] = "check"
  <2>1. CASE Begins(c) BY <2>1 DEF Begins
  <2>2. CASE LaunchSteps(c)
    BY <2>2 DEF LaunchSteps, LaunchChecks, Announces, OpensLog, Returns, Confirms, Is
  <2> QED BY <2>1, <2>2
<1>4. Settles
  BY <1>1 DEF Settles, Complete, ComparisonCore, HowFar, Begins, LaunchSteps, LaunchChecks, Announces, OpensLog, Returns, Confirms
<1>5. launching' \in Launchings
  <2>1. comparison \in Reports /\ Missing \in Reports
    BY DEF ComparisonCore, DiskTypes, Reports
  <2>2. Receipt(c) \in [is : {"launch"}, by : Turns, complete : BOOLEAN, code : {"none", "done", "over", "dead"},
                      report : Reports]
    BY <2>1 DEF Receipt
  <2> DEFINE R == [is : {"launch"}, by : Turns, complete : BOOLEAN, code : {"none", "done", "over", "dead"},
                   report : Reports]
  <2>3. CASE Announces(c)
    BY <2>2, <2>3 DEF Announces, Launchings
  <2>4. CASE Returns(c)
    <3>1. [Receipt(c) EXCEPT !.code = at[Comparer]] \in R
      BY <2>2, <2>4 DEF Returns
    <3> QED BY <2>4, <3>1 DEF Returns, Launchings
  <2>5. CASE Confirms(c)
    <3>1. [Receipt(c) EXCEPT !.code = "done", !.complete = TRUE, !.report = comparison] \in R
      BY <2>1, <2>2
    <3> QED BY <2>5, <3>1 DEF Confirms, Launchings
  <2> QED BY <2>3, <2>4, <2>5 DEF Begins, LaunchSteps, LaunchChecks, OpensLog
<1> QED BY <1>1, <1>2, <1>3, <1>4, <1>5, FarFromPapers

LEMMA ComparerTrail ==
    ASSUME ComparisonCore, ComparisonTrail, Compares
    PROVE  ComparisonTrail'
<1> USE Programs DEF ComparisonTrail, PaperTypes, Goes, Holds, KeepsTurn, disk, papers, NoPaper, OnlyComparison
<1>1. UNCHANGED <<launching, qualification, bundle, sealing>> /\ ~Complete
  BY DEF Compares, Prepares, LaunchesTrial, CollectsTrial, RecordsTrial, Completes, SavesFailure, Complete
<1>2. /\ DOMAIN at' = Party /\ DOMAIN held' = Party /\ turn' \in [Party -> Nat]
      /\ \A d \in Turns : at'[d] = at[d] /\ held'[d] = held[d] /\ turn'[d] = turn[d]
  <2>1. CASE Prepares BY <2>1 DEF Prepares
  <2>2. CASE LaunchesTrial BY <2>2 DEF LaunchesTrial
  <2>3. CASE CollectsTrial BY <2>3 DEF CollectsTrial
  <2>4. CASE RecordsTrial
    <3>1. turn[Comparer] + 1 \in Nat
      OBVIOUS
    <3> QED BY <2>4, <3>1 DEF RecordsTrial
  <2>5. CASE Completes BY <2>5 DEF Completes
  <2>6. CASE SavesFailure BY <2>6 DEF SavesFailure
  <2> QED BY <2>1, <2>2, <2>3, <2>4, <2>5, <2>6 DEF Compares
<1> QED BY <1>1, <1>2, FarFromPapers DEF Settles

LEMMA MishapTrail ==
    ASSUME ComparisonCore, ComparisonTrail,
           \/ \E k \in Slot : Measures(k) \/ TrialFails(k) \/ EditsOutput(k)
           \/ ChangesInput \/ \E v \in Versions : DamagesCache(v)
    PROVE  ComparisonTrail'
<1>1. UNCHANGED <<launching, qualification, bundle, sealing, comparison, at, turn, held>>
  BY DEF Measures, Loads, Describes, ClearsCache, ConstructsDataset, ConfirmsTrial, Inspects, Proceeds,
         TrialFails, EditsOutput, ChangesInput, DamagesCache, NoPaper, papers
<1> QED BY <1>1, FarFromPapers DEF Settles, Complete, ComparisonTrail, PaperTypes

LEMMA EndsTrail ==
    ASSUME ComparisonCore, ComparisonTrail, NEW c \in Party, Interrupts(c) \/ Killed(c)
    PROVE  ComparisonTrail'
<1> USE Programs DEF ComparisonTrail, PaperTypes, Goes, NoPaper, papers, disk
<1>1. UNCHANGED <<launching, qualification, bundle, sealing, comparison, turn, held>> /\ Live(c)
  BY DEF Interrupts, Killed
<1>2. DOMAIN at' = Party
  BY DEF Interrupts, Killed
<1>3. \A d \in Turns : Role(d) \in {"watch", "seal"} =>
        \/ at'[d] = at[d] \/ at'[d] \in {"over", "dead"}
        \/ at'[d] = "failing" /\ at[d] \notin {"idle", "check", "over", "dead"}
  BY <1>1 DEF Interrupts, Killed, Live, Finished
<1>4. Settles
  BY <1>1 DEF Settles, Complete, Interrupts, Killed, Live, Finished
<1> QED BY <1>1, <1>2, <1>3, <1>4, FarFromPapers

\* A step of a watcher or a sealer: the others' papers are as they were.
LEMMA OwnTrail ==
    ASSUME ComparisonTrail, NEW c \in Turns, OwnStep(c), launching' = launching,
           qualification' \in Qualifications, bundle' \in Archives, sealing' \in [is : {"sealed"}, by : Turns] \cup {Missing},
           qualification # Missing => qualification' # Missing, bundle # Missing => bundle' # Missing,
           \A d \in Turns : d # c => turn'[d] = turn[d],
           Role(c) = "watch" => WatchingOf(c)', Role(c) = "seal" => SealingOf(c)',
           PassedWhole', Archived'
    PROVE  ComparisonTrail'
<1> USE DEF ComparisonTrail
<1>1. /\ Silent /\ (\E p : at' = [at EXCEPT ![c] = p]) /\ (\A d \in Party : d # c => held'[d] = held[d])
      /\ DOMAIN held' = Party /\ turn' \in [Party -> Nat]
  BY OwnStepIsSilent
<1>2. DOMAIN at' = Party /\ \A d \in Turns : d # c => at'[d] = at[d] /\ held'[d] = held[d]
  BY <1>1, Programs DEF PaperTypes
<1>3. PaperTypes' BY <1>1, <1>2 DEF PaperTypes
<1>4. Complete' <=> Complete BY <1>1 DEF Silent, Complete
<1>5. Watching' BY <1>2, <1>4 DEF Watching, WatchingOf
<1>6. Sealers' BY <1>2, <1>4 DEF Sealers, SealingOf
<1> QED BY <1>3, <1>5, <1>6

\* A step of a watcher: the archive and its receipt stay.
LEMMA WatchTrail ==
    ASSUME ComparisonCore, ComparisonTrail, NEW c \in Turns, Watches(c)
    PROVE  ComparisonTrail'
<1> USE DEF ComparisonTrail
<1>1. /\ Role(c) = "watch" /\ OwnStep(c) /\ WatchingOf(c)
      /\ UNCHANGED <<launching, bundle, sealing, comparison>> /\ at'[Comparer] = at[Comparer]
      /\ \A d \in Turns : d # c => turn'[d] = turn[d]
  <2>1. Role(c) = "watch"
    BY DEF Watches, WatchReserves, Looks, Awaits, ReadsReceipts, AuditsCaches, AuditsRow, Digests, Concludes,
           WatchFails, Is
  <2>2. OwnStep(c) /\ WatchingOf(c)
    BY <2>1 DEF OwnStep, Watching
  <2>3. UNCHANGED <<launching, bundle, sealing>> /\ \A d \in Turns : d # c => turn'[d] = turn[d]
    BY Programs
       DEF Watches, WatchReserves, Looks, Awaits, ReadsReceipts, AuditsCaches, AuditsRow, Digests, Concludes,
           WatchFails, NoPaper, papers, OnlyQualification, KeepsTurn, PaperTypes
  <2> QED BY <2>1, <2>2, <2>3, OwnStepIsSilent DEF Silent
<1>2. Archived' /\ (Complete' <=> Complete)
  BY <1>1 DEF Archived, Complete
<1>3. bundle' \in Archives /\ sealing' \in [is : {"sealed"}, by : Turns] \cup {Missing}
  BY <1>1 DEF PaperTypes
<1> DEFINE Rest == /\ qualification' \in Qualifications /\ (qualification # Missing => qualification' # Missing) /\ WatchingOf(c)' /\ PassedWhole'
<1>4. Rest => ComparisonTrail'
  BY <1>1, <1>2, <1>3, OwnTrail
<1> HIDE DEF ComparisonTrail
<1>5. /\ PaperTypes /\ PassedWhole /\ c \in Party /\ c # Comparer /\ inputs \in [Input -> InputState] /\ Stage \in Input
      /\ Wrapper \in Input /\ caches \in [Versions -> CacheState] /\ outputs \in [Slot -> Outputs]
  BY Programs DEF ComparisonTrail, ComparisonCore, DiskTypes, Input
<1> USE <1>1, <1>2, <1>5 DEF PaperTypes, Goes, Holds, KeepsTurn, NoPaper, papers, OnlyQualification, disk, Is
<1>6. CASE WatchReserves(c)
  <2> DEFINE x == [is |-> "qualification", by |-> c, complete |-> FALSE, passed |-> FALSE, report |-> Missing,
                   launch |-> Missing, script |-> "unread", stage |-> "unread", caches |-> <<>>, outputs |-> <<>>]
  <2>1. \/ UNCHANGED <<qualification, held, turn>> /\ at'[c] = "over"
        \/ at'[c] = "look" /\ UNCHANGED <<held, turn>> /\ qualification' = x
    BY <1>6 DEF WatchReserves
  <2>2. Missing \in Reports /\ Missing \in Launchings /\ <<>> \in CachesKept /\ <<>> \in Seq(Outputs)
    BY DEF Reports, Launchings, CachesKept
  <2>3. x \in Qualifications /\ ~x.passed
    BY <2>2 DEF Qualifications
  <2>4. x # Missing
    BY DEF Missing
  <2> HIDE DEF x
  <2>5. Rest
    BY <2>1, <2>3, <2>4 DEF WatchingOf, PassedWhole
  <2> QED BY <2>5, <1>4
<1>7. CASE Looks(c)
  <2>1. at[c] = "look" /\ UNCHANGED <<qualification, turn>>
    BY <1>7 DEF Looks
  <2>2. \/ at'[c] = "failing"
        \/ at'[c] = "await" /\ held'[c] = [stage |-> inputs[Stage], caches |-> <<>>, outputs |-> <<>>]
    BY <1>7 DEF Looks
  <2>3. [stage |-> inputs[Stage], caches |-> <<>>, outputs |-> <<>>] \in Notes
    BY DEF Notes, CachesKept
  <2>4. Rest
    BY <2>1, <2>2, <2>3 DEF WatchingOf, PassedWhole
  <2> QED BY <2>4, <1>4
<1>8. CASE Awaits(c)
  <2>1. Rest
    BY <1>8 DEF Awaits, WatchingOf, PassedWhole
  <2> QED BY <2>1, <1>4
<1>9. CASE ReadsReceipts(c)
  <2>1. at[c] = "read" /\ UNCHANGED <<turn, held>> /\ qualification # Missing /\ qualification \in Qualifications /\ held[c] \in Notes
    BY <1>9 DEF ReadsReceipts, WatchingOf
  <2> DEFINE v == [qualification EXCEPT !.report = comparison, !.launch = launching]
  <2>2. \/ at'[c] = "failing" /\ qualification' = qualification
        \/ at'[c] = "caches" /\ qualification' = v /\ Terminated
    BY <1>9 DEF ReadsReceipts
  <2>3. v \in Qualifications /\ v # Missing /\ v.passed = qualification.passed /\ v.caches = qualification.caches
    BY <2>1 DEF Qualifications, Missing, ComparisonCore, DiskTypes
  <2>4. Terminated => Complete
    BY DEF Terminated, WholeReport, Complete, ComparisonCore, HowFar
  <2> HIDE DEF v
  <2>5. Rest
    BY <2>1, <2>2, <2>3, <2>4 DEF WatchingOf, PassedWhole
  <2> QED BY <2>5, <1>4
<1>10. CASE AuditsCaches(c)
  <2>1. at[c] = "caches" /\ UNCHANGED <<turn, qualification>> /\ qualification # Missing /\ held[c] \in Notes /\ Complete
    BY <1>10 DEF AuditsCaches, WatchingOf
  <2> DEFINE x == [held[c] EXCEPT !.caches = caches]
  <2>2. \/ at'[c] = "failing" /\ held' = held
        \/ at'[c] = "rows" /\ held'[c] = x /\ \A v \in Versions : caches[v].whole
    BY <1>10 DEF AuditsCaches
  <2>3. x \in Notes /\ x.caches = caches
    BY <2>1 DEF Notes, CachesKept
  <2> HIDE DEF x
  <2>4. Rest
    BY <2>1, <2>2, <2>3 DEF WatchingOf, PassedWhole, AllWhole
  <2> QED BY <2>4, <1>4
<1>11. CASE AuditsRow(c)
  <2>1. at[c] = "rows" /\ UNCHANGED <<turn, qualification, held>> /\ turn[c] \in Slot /\ at'[c] \in {"digest", "failing"}
    BY <1>11 DEF AuditsRow
  <2>2. Rest
    BY <2>1 DEF WatchingOf, PassedWhole
  <2> QED BY <2>2, <1>4
<1>12. CASE Digests(c)
  <2>1. at[c] = "digest" /\ UNCHANGED <<qualification>> /\ at'[c] = "rows" /\ qualification # Missing /\ held[c] \in Notes
        /\ AllWhole(held[c].caches) /\ Complete /\ turn[c] \in Slot
    BY <1>12 DEF Digests, WatchingOf
  <2> DEFINE o == outputs[turn[c]]
  <2> DEFINE x == [held[c] EXCEPT !.outputs = Append(@, o)]
  <2>2. held'[c] = x
    BY <1>12 DEF Digests
  <2>3. o \in Outputs
    BY <2>1
  <2> HIDE DEF o
  <2>6. held[c].outputs \in Seq(Outputs)
    BY <2>1 DEF Notes
  <2>7. Append(held[c].outputs, o) \in Seq(Outputs)
    BY <2>3, <2>6
  <2>4. x \in Notes /\ x.caches = held[c].caches
    BY <2>1, <2>7 DEF Notes
  <2> HIDE DEF x
  <2>5. Rest
    BY <2>1, <2>2, <2>4 DEF WatchingOf, PassedWhole
  <2> QED BY <2>5, <1>4
<1>13. CASE Concludes(c)
  <2>1. at[c] = "rows" /\ UNCHANGED <<turn, held>> /\ qualification # Missing /\ qualification \in Qualifications /\ held[c] \in Notes
        /\ AllWhole(held[c].caches) /\ Complete
    BY <1>13 DEF Concludes, WatchingOf
  <2> DEFINE v == [qualification EXCEPT !.complete = TRUE, !.passed = TRUE, !.stage = inputs[Stage],
                                        !.script = inputs[Wrapper], !.caches = held[c].caches, !.outputs = held[c].outputs]
  <2>2. \/ at'[c] = "failing" /\ qualification' = qualification
        \/ at'[c] = "done" /\ qualification' = v
    BY <1>13 DEF Concludes
  <2>3. v \in Qualifications /\ v # Missing /\ v.caches = held[c].caches
    BY <2>1 DEF Qualifications, Missing, Notes
  <2> HIDE DEF v
  <2>4. Rest
    BY <2>1, <2>2, <2>3 DEF WatchingOf, PassedWhole
  <2> QED BY <2>4, <1>4
<1>14. CASE WatchFails(c)
  <2>1. at[c] = "failing" /\ UNCHANGED <<turn, held>> /\ qualification # Missing /\ qualification \in Qualifications /\ at'[c] = "over"
    BY <1>14 DEF WatchFails, WatchingOf
  <2> DEFINE v == [qualification EXCEPT !.complete = TRUE, !.passed = FALSE]
  <2>2. qualification' = v
    BY <1>14 DEF WatchFails
  <2>3. v \in Qualifications /\ v # Missing /\ ~v.passed
    BY <2>1 DEF Qualifications, Missing
  <2> HIDE DEF v
  <2>4. Rest
    BY <2>1, <2>2, <2>3 DEF WatchingOf, PassedWhole
  <2> QED BY <2>4, <1>4
<1> QED
  BY <1>6, <1>7, <1>8, <1>9, <1>10, <1>11, <1>12, <1>13, <1>14 DEF Watches

\* A cache with the same bytes is whole as well.
LEMMA SameAreWhole ==
    ASSUME NEW x \in [Versions -> CacheState], NEW y, AllWhole(y), SameCaches(x, y)
    PROVE  AllWhole(x)
<1> SUFFICES ASSUME NEW v \in Versions PROVE x[v].whole
  BY DEF AllWhole
<1>1. x[v] \in CacheState /\ y[v] \in CacheState /\ y[v].whole
  BY DEF AllWhole
<1>2. BytesOf(x[v]) = BytesOf(y[v])
  BY DEF SameCaches
<1>3. BytesOf(x[v]).whole = x[v].whole /\ BytesOf(y[v]).whole = y[v].whole
  BY <1>1 DEF BytesOf, CacheState
<1> QED BY <1>1, <1>2, <1>3

LEMMA SealTrail ==
    ASSUME ComparisonCore, ComparisonTrail, NEW c \in Turns, Seals(c)
    PROVE  ComparisonTrail'
<1> USE DEF ComparisonTrail
<1>1. /\ Role(c) = "seal" /\ OwnStep(c) /\ SealingOf(c)
      /\ UNCHANGED <<launching, qualification, comparison, turn, caches, outputs>> /\ at'[Comparer] = at[Comparer]
  <2>1. Role(c) = "seal"
    BY DEF Seals, Gathers, Packs, ReadsBack, Is
  <2>2. OwnStep(c) /\ SealingOf(c)
    BY <2>1 DEF OwnStep, Sealers
  <2>3. UNCHANGED <<launching, qualification, turn>>
    BY DEF Seals, Gathers, Packs, ReadsBack, NoPaper, papers, KeepsTurn
  <2> QED BY <2>1, <2>2, <2>3, OwnStepIsSilent DEF Silent
<1>2. PassedWhole' /\ (Complete' <=> Complete)
  BY <1>1 DEF PassedWhole, Complete
<1> DEFINE Rest == /\ bundle' \in Archives /\ (bundle # Missing => bundle' # Missing)
                   /\ sealing' \in [is : {"sealed"}, by : Turns] \cup {Missing}
                   /\ SealingOf(c)' /\ Archived'
<1>3. Rest => ComparisonTrail'
  <2>1. qualification' \in Qualifications /\ (qualification # Missing => qualification' # Missing)
    BY <1>1 DEF PaperTypes
  <2> QED BY <1>1, <1>2, <2>1, OwnTrail
<1>4. /\ PaperTypes /\ Archived /\ PassedWhole /\ c \in Party /\ DOMAIN at = Party /\ DOMAIN held = Party
      /\ caches \in [Versions -> CacheState] /\ outputs \in [Slot -> Outputs] /\ comparison \in Reports
      /\ bundle \in Archives /\ sealing \in [is : {"sealed"}, by : Turns] \cup {Missing}
  BY Programs DEF PaperTypes, ComparisonCore, DiskTypes
<1>5. Contents \in Archives /\ Contents # Missing
  BY <1>4 DEF Contents, Archives, Missing
<1>6. Contents.report = comparison /\ Contents.caches = caches
  BY DEF Contents
<1> HIDE DEF ComparisonTrail
<1> USE <1>1, <1>2, <1>4 DEF Goes, Holds, KeepsTurn, NoPaper, papers, Is
<1>7. CASE Gathers(c)
  <2>1. UNCHANGED <<bundle, sealing>>
    BY <1>7 DEF Gathers
  <2>2. \/ at'[c] = "over"
        \/ /\ at'[c] = "pack" /\ held'[c] = Contents /\ Terminated
           /\ qualification # Missing /\ qualification.passed /\ SameCaches(caches, qualification.caches)
    BY <1>7 DEF Gathers
  <2>3. Terminated => Complete
    BY DEF Terminated, WholeReport, Complete, ComparisonCore, HowFar
  <2>4. at'[c] = "pack" => AllWhole(held'[c].caches) /\ Complete /\ held'[c] = Contents
    BY <2>2, <2>3, <1>6, SameAreWhole DEF PassedWhole
  <2>5. SealingOf(c)'
    BY <2>2, <2>4, <1>5 DEF SealingOf
  <2>6. Archived'
    BY <2>1 DEF Archived
  <2> QED BY <2>1, <2>5, <2>6, <1>3
<1>8. CASE Packs(c)
  <2>1. at[c] = "pack" /\ UNCHANGED <<sealing, held>> /\ Complete /\ held[c] \in Archives /\ held[c] # Missing
        /\ AllWhole(held[c].caches)
    BY <1>8 DEF Packs, SealingOf
  <2>2. \/ at'[c] = "over" /\ bundle' = bundle
        \/ at'[c] = "readback" /\ bundle' = Contents /\ bundle = Missing
    BY <1>8 DEF Packs
  <2>3. \A v \in Versions : caches[v].by = PrimerOf(v)
    <3>1. K = TrialCount + 1 /\ K \notin Slot /\ \A v \in Versions : PrimerOf(v) < K
      BY <2>1, PlanInBlocks DEF Complete, ComparisonCore, HowFar, Slot
    <3> QED BY <3>1 DEF ComparisonCore, Retained
  <2>4. SealingOf(c)'
    BY <2>1, <2>2, <1>5 DEF SealingOf
  <2>5. Archived'
    BY <2>1, <2>2, <2>3, <1>5, <1>6 DEF Archived
  <2> QED BY <2>1, <2>2, <2>4, <2>5, <1>3, <1>5
<1>9. CASE ReadsBack(c)
  <2>1. at[c] = "readback" /\ UNCHANGED <<bundle, held>> /\ bundle # Missing /\ AllWhole(held[c].caches)
    BY <1>9 DEF ReadsBack, SealingOf
  <2>2. \/ at'[c] = "over" /\ sealing' = sealing
        \/ /\ at'[c] = "done" /\ sealing' = [is |-> "sealed", by |-> c]
           /\ SameCaches(bundle.caches, held[c].caches)
    BY <1>9 DEF ReadsBack
  <2>3. bundle.caches \in [Versions -> CacheState]
    BY <2>1 DEF Archives
  <2>4. SameCaches(bundle.caches, held[c].caches) => AllWhole(bundle.caches)
    BY <2>1, <2>3, SameAreWhole
  <2>5. SealingOf(c)'
    BY <2>1, <2>2 DEF SealingOf
  <2>6. Archived'
    BY <2>1, <2>2, <2>4 DEF Archived
  <2> QED BY <2>1, <2>2, <2>5, <2>6, <1>3
<1> QED BY <1>7, <1>8, <1>9 DEF Seals

LEMMA TrailStep == ComparisonCore /\ ComparisonTrail /\ [ComparisonNext]_comparisonVars => ComparisonTrail'
<1> SUFFICES ASSUME ComparisonCore, ComparisonTrail, [ComparisonNext]_comparisonVars PROVE ComparisonTrail'
  OBVIOUS
<1>1. CASE UNCHANGED comparisonVars
  BY <1>1, FarFromPapers DEF comparisonVars, disk, papers, Settles, Complete, ComparisonTrail, PaperTypes
<1>2. CASE Compares
  BY <1>2, ComparerTrail
<1>3. ASSUME NEW c \in Turns, Begins(c) \/ LaunchSteps(c) \/ Watches(c) \/ Seals(c) PROVE ComparisonTrail'
  BY <1>3, LauncherTrail, WatchTrail, SealTrail
<1>4. ASSUME NEW c \in Party, Interrupts(c) \/ Killed(c) PROVE ComparisonTrail'
  BY <1>4, EndsTrail
<1>5. CASE \/ \E k \in Slot : Measures(k) \/ TrialFails(k) \/ EditsOutput(k)
           \/ ChangesInput \/ \E v \in Versions : DamagesCache(v)
  BY <1>5, MishapTrail
<1> QED BY <1>1, <1>2, <1>3, <1>4, <1>5 DEF ComparisonNext

-----------------------------------------------------------------------------
(* What the comparison guarantees *)

\* In every reachable state of the comparison its records are those of its workers,
\* and its receipts and the archive rest on one complete report (the comparison's main
\* loop, the watcher's and the sealer's checks).
THEOREM ComparisonIsTracked == ComparisonSpec => [](ComparisonCore /\ ComparisonTrail)
<1>1. ComparisonInit => ComparisonCore /\ ComparisonTrail
  BY InitCore
<1>2. ComparisonCore /\ ComparisonTrail /\ [ComparisonNext]_comparisonVars => (ComparisonCore /\ ComparisonTrail)'
  BY CoreStep, TrailStep DEF ComparisonTrail
<1> QED BY <1>1, <1>2, PTL DEF ComparisonSpec

\* The auditor reads caches and results only when no measured process is left
\* (qualify-snapshot-after-startup-v2.py waits for two processes and then requires
\* both receipts complete): only a comparison that has waited for every worker ends so.
THEOREM AuditedAfterTheWorkers == ComparisonSpec => []AuditedAlone
<1>1. ComparisonCore /\ ComparisonTrail => AuditedAlone
  <2> SUFFICES ASSUME ComparisonCore, ComparisonTrail, NEW c \in Turns, Role(c) = "watch", at[c] \in {"caches", "rows", "digest"}
               PROVE  ~Live(Comparer) /\ \A k \in Slot : ~Running(k)
    BY DEF AuditedAlone
  <2>1. Complete
    BY DEF ComparisonTrail, Watching, WatchingOf
  <2>2. ~Live(Comparer)
    BY <2>1 DEF Complete, Live, Finished
  <2>3. K = TrialCount + 1
    BY <2>1 DEF Complete, ComparisonCore, HowFar
  <2>4. \A k \in Slot : k < K
    BY <2>3, PlanInBlocks
  <2>5. \A k \in Slot : ~Running(k)
    BY <2>4 DEF ComparisonCore, Phases, EndedWell, Running
  <2> QED BY <2>2, <2>5
<1> QED BY <1>1, ComparisonIsTracked, PTL

\* A sealed archive holds a comparison of the versions it names, whose workers all
\* ended well with the library of their version; every rebuild built its own cache, and
\* every hit read the cache of its primer, which is in the archive, whole.
THEOREM SealedComparisonIsMeasured == ComparisonSpec => []SealedIsMeasured
<1>1. ComparisonCore /\ ComparisonTrail => SealedIsMeasured
  <2> SUFFICES ASSUME ComparisonCore, ComparisonTrail, sealing # Missing
               PROVE  LET r == bundle.report IN
                      /\ WholeReport(r)
                      /\ \A k \in Slot :
                            LET w == trials[k]  v == Version(k) IN
                            /\ r.records[k].spec = WholePlan[k] /\ w.pc = "ended" /\ w.code = 0
                            /\ w.loaded = r.named[v] /\ w.used.lib = r.named[v] /\ w.used.corpus = "frozen"
                            /\ w.used.by = IF WholePlan[k].mode = "miss" THEN k ELSE PrimerOf(v)
                            /\ r.records[k].value.out = w.out
                      /\ \A v \in Versions : bundle.caches[v].by = PrimerOf(v) /\ bundle.caches[v].whole
    BY DEF SealedIsMeasured
  <2>1. /\ Complete /\ bundle.report = comparison
        /\ \A v \in Versions : bundle.caches[v].by = PrimerOf(v) /\ bundle.caches[v].whole
    BY DEF ComparisonTrail, Archived, AllWhole
  <2>2. K = TrialCount + 1 /\ comparison # Missing /\ comparison.complete /\ Len(comparison.records) + 1 = K
    BY <2>1 DEF Complete, ComparisonCore, HowFar
  <2>3. Len(comparison.records) = TrialCount
    <3>1. Len(comparison.records) \in Nat
      BY <2>2 DEF ComparisonCore, DiskTypes, Reports
    <3> DEFINE n == Len(comparison.records)
    <3>2. n \in Nat /\ n + 1 = TrialCount + 1
      BY <2>2, <3>1
    <3> HIDE DEF n
    <3>3. n = TrialCount
      BY <3>2, PlanInBlocks
    <3> QED BY <3>3 DEF n
  <2>4. WholeReport(comparison)
    BY <2>2, <2>3 DEF WholeReport
  <2>5. ASSUME NEW k \in Slot
        PROVE  /\ comparison.records[k].spec = WholePlan[k] /\ trials[k].pc = "ended" /\ trials[k].code = 0
               /\ trials[k].loaded = comparison.named[Version(k)]
               /\ trials[k].used.lib = comparison.named[Version(k)] /\ trials[k].used.corpus = "frozen"
               /\ trials[k].used.by = IF WholePlan[k].mode = "miss" THEN k ELSE PrimerOf(Version(k))
               /\ comparison.records[k].value.out = trials[k].out
    <3>1. RecordedTruly(comparison.records[k], k)
      BY <2>2, <2>3 DEF ComparisonCore, Reported, Slot
    <3>2. k < K
      BY <2>2, PlanInBlocks
    <3>3. EndedWell(k)
      BY <3>2 DEF ComparisonCore, Phases
    <3>4. /\ trials[k].used.lib = trials[k].loaded /\ trials[k].used.corpus = "frozen" /\ AsPlanned(k)
          /\ (Clears(k) => trials[k].used.by = k)
          /\ (~Clears(k) /\ trials[k].hit => trials[k].used.by = PrimerOf(Version(k)))
      BY <3>3 DEF ComparisonCore, AllTrialsSound, TrialSound, EndedWell
    <3>5. trials[k].used.by = IF WholePlan[k].mode = "miss" THEN k ELSE PrimerOf(Version(k))
      <4>1. CASE WholePlan[k].mode = "miss"
        BY <4>1, <3>4 DEF Clears
      <4>2. CASE WholePlan[k].mode # "miss" /\ WholePlan[k].prime = TRUE
        <5>1. k = PrimerOf(Version(k))
          BY <4>2, PlanInBlocks, ComparisonAssumption DEF PrimerOf, Version, Versions
        <5> QED BY <4>2, <5>1, <3>4 DEF Clears
      <4>3. CASE WholePlan[k].mode # "miss" /\ WholePlan[k].prime # TRUE
        <5>1. WholePlan[k].mode = "hit" /\ WholePlan[k].prime = FALSE
          BY <4>3, PlanInBlocks DEF PlannedTrial
        <5> QED BY <5>1, <3>4 DEF Clears, AsPlanned
      <4> QED BY <4>1, <4>2, <4>3
    <3> QED BY <3>1, <3>3, <3>4, <3>5 DEF RecordedTruly, EndedWell
  <2> QED BY <2>1, <2>4, <2>5
<1> QED BY <1>1, ComparisonIsTracked, PTL
=============================================================================
