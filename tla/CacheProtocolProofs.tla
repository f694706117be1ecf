------------------------- MODULE CacheProtocolProofs --------------------------
(***************************************************************************)
(* Proofs about CacheProtocol, for every set of processes, pairs and       *)
(* contents and every bound, in three parts.                               *)
(*                                                                         *)
(* 1. Type correctness, and who holds the lock when.                       *)
(* 2. The cache path never shows a partly written file, a call that        *)
(*    reports a save or a reuse left its own result there, and a call that *)
(*    waited for a writer does not scan again what that one has published. *)
(*    This rests on the exclusion of part 1: between the load under the    *)
(*    lock and the release nobody else replaces the cache.                 *)
(* 3. What a hit serves and what a save publishes is the dataset at one    *)
(*    instant of the call, a content hit serves contents that were there   *)
(*    during the load, and InputChangedError is raised only when something *)
(*    changed.  None of this needs the lock.                               *)
(***************************************************************************)
EXTENDS CacheProtocol, TLAPS

-----------------------------------------------------------------------------
(* 1. Types and the lock *)

(* The values calls are made of *)

Contents == [Input -> SUBSET (Bytes \cup {NoBytes})]

LEMMA SnapshotTypes ==
    /\ Missing \in FileState
    /\ Nothing \in Snapshot
    /\ AnyPolicy \in Policies
    /\ NoContents \in Contents
    /\ \A b \in Bytes \cup {NoBytes}, t \in Nat : Present(b, t) \in FileState
<1>1. AnyPolicy \in Policies
  BY ProtocolAssumption DEF AnyPolicy
<1>2. Missing \in FileState
  BY DEF Missing, FileState
<1> QED
  BY <1>1, <1>2 DEF Nothing, Snapshot, NoContents, Present, FileState, Contents

LEMMA IdleType == \A r \in Returns : Idle(r) \in Call
<1> TAKE r \in Returns
<1>1. MaxPolls \in 0..MaxPolls
  BY ProtocolAssumption
<1> QED
  BY <1>1, SnapshotTypes DEF Idle, Call, Ops, PCs, EntryStates, Contents

\* The updates of one call that the actions make, each of them within Call.
LEMMA CallUpdates ==
    ASSUME NEW c \in Call, NEW pc \in PCs, NEW todo \in SUBSET Input
    PROVE  /\ [c EXCEPT !.pc = pc] \in Call
           /\ [c EXCEPT !.todo = todo] \in Call
           /\ [c EXCEPT !.pc = pc, !.todo = todo] \in Call
           /\ \A n \in 0..MaxPolls : [c EXCEPT !.polls = n] \in Call
           /\ \A n \in 0..MaxPolls : [c EXCEPT !.pc = pc, !.polls = n] \in Call
           /\ \A r \in Returns : [c EXCEPT !.pc = pc, !.todo = todo, !.ret = r] \in Call
           /\ \A e \in EntryStates : [c EXCEPT !.pc = pc, !.temp = e] \in Call
           /\ \A e \in EntryStates : [c EXCEPT !.pc = pc, !.temp = e, !.todo = todo] \in Call
           /\ \A e \in EntryStates, s \in Snapshot :
                 [c EXCEPT !.pc = pc, !.temp = e, !.since = s] \in Call
           /\ \A s \in Snapshot, l \in Contents :
                 [c EXCEPT !.pc = pc, !.loaded = s, !.live = l] \in Call
           /\ \A s, t \in Snapshot, l \in Contents :
                 [c EXCEPT !.pc = pc, !.loaded = s, !.todo = todo, !.since = t, !.live = l] \in Call
           /\ \A s, t \in Snapshot, l \in Contents :
                 [c EXCEPT !.pc = pc, !.todo = todo, !.loaded = s, !.since = t, !.live = l] \in Call
BY DEF Call, Contents

LEMMA CaptureUpdates ==
    ASSUME NEW c \in Call, NEW i \in Input, NEW s \in FileState
    PROVE  /\ [c EXCEPT !.cap[i] = s, !.todo = @ \ {i}] \in Call
           /\ [c EXCEPT !.cap[i] = s, !.todo = @ \ {i}, !.unavailable = TRUE] \in Call
<1>1. c.cap \in Snapshot /\ c.todo \ {i} \in SUBSET Input
  BY DEF Call
<1>2. [c.cap EXCEPT ![i] = s] \in Snapshot
  BY <1>1 DEF Snapshot
<1> QED
  BY <1>1, <1>2 DEF Call

LEMMA BecomesType ==
    ASSUME TypeOK, NEW p \in Proc, NEW c \in Call, Becomes(p, c)
    PROVE  call' \in [Proc -> Call]
BY DEF Becomes, TypeOK

\* Leaving a call keeps the type of the calls.
LEMMA LeaveType ==
    ASSUME TypeOK, NEW p \in Proc, NEW r \in Returns, Leave(p, r)
    PROVE  call' \in [Proc -> Call]
<1>1. CASE Held(p)
  <2> DEFINE c == call[p]
             d == [c EXCEPT !.pc = "release", !.ret = r, !.temp = "none", !.todo = {},
                            !.loaded = Nothing, !.since = Nothing, !.live = NoContents]
  <2>1. c \in Call
    BY DEF TypeOK
  <2>2. /\ "release" \in PCs /\ "none" \in EntryStates /\ {} \in SUBSET Input
        /\ Nothing \in Snapshot /\ NoContents \in [Input -> SUBSET (Bytes \cup {NoBytes})]
    BY SnapshotTypes DEF PCs, EntryStates, Contents
  <2>3. Becomes(p, d)
    BY <1>1 DEF Leave
  <2> HIDE DEF c
  <2>4. d \in Call
    BY <2>1, <2>2 DEF Call
  <2> HIDE DEF d
  <2> QED
    BY <2>3, <2>4, BecomesType
<1>2. CASE ~Held(p)
  BY <1>2, IdleType, BecomesType DEF Leave
<1> QED
  BY <1>1, <1>2

\* So does a cache miss.
LEMMA MissType ==
    ASSUME TypeOK, NEW p \in Proc, Miss(p)
    PROVE  call' \in [Proc -> Call]
<1> DEFINE next == IF ~Held(p) THEN "open"
                   ELSE IF call[p].op = "scan_cached" THEN "scan" ELSE "begin"
           c == call[p]
           d == [c EXCEPT !.pc = next, !.todo = IF next = "scan" THEN Input ELSE {},
                          !.loaded = Nothing, !.since = Nothing, !.live = NoContents]
<1>1. next \in PCs
  BY DEF PCs
<1>2. c \in Call
  BY DEF TypeOK
<1>3. Becomes(p, d)
  BY DEF Miss
<1> HIDE DEF next, c
<1>4. d \in Call
  BY <1>1, <1>2, SnapshotTypes, CallUpdates
<1> HIDE DEF d
<1> QED
  BY <1>3, <1>4, BecomesType

LEMMA WithoutCacheType ==
    ASSUME TypeOK, NEW p \in Proc, WithoutCache(p)
    PROVE  call' \in [Proc -> Call]
<1>1. CASE call[p].op = "scan_cached"
  <2>1. call[p] \in Call /\ "fallback" \in PCs
    BY DEF TypeOK, PCs
  <2>2. [call[p] EXCEPT !.pc = "fallback", !.todo = Input] \in Call
    BY <2>1, CallUpdates
  <2> QED
    BY <1>1, <2>2, BecomesType DEF WithoutCache
<1>2. CASE call[p].op # "scan_cached"
  BY <1>2, LeaveType DEF WithoutCache, Returns
<1> QED
  BY <1>1, <1>2

LEMMA FaultType ==
    ASSUME TypeOK, Fault \/ NoFault
    PROVE  faults' \in 0..MaxFaults
BY ProtocolAssumption DEF TypeOK, Fault, NoFault

\* Every step of a call changes that call only.
LEMMA StepBecomes ==
    ASSUME TypeOK, NEW q \in Proc, Step(q)
    PROVE  \E c : Becomes(q, c)
<1>1. \A r : Leave(q, r) => \E c : Becomes(q, c)
  BY DEF Leave
<1>2. Miss(q) => \E c : Becomes(q, c)
  BY DEF Miss
<1>3. WithoutCache(q) => \E c : Becomes(q, c)
  BY <1>1 DEF WithoutCache
<1>4. CASE ReadCache(q)
  BY <1>2, <1>4 DEF ReadCache
<1>5. CASE Hit(q)
  BY <1>1, <1>5 DEF Hit
<1>6. CASE OpenLock(q)
  BY <1>3, <1>6 DEF OpenLock
<1>7. CASE Acquire(q)
  BY <1>7 DEF Acquire
<1>8. CASE Poll(q)
  BY <1>3, <1>8 DEF Poll
<1>9. CASE AcquireFails(q)
  BY <1>3, <1>9 DEF AcquireFails
<1>10. CASE Release(q)
  BY <1>10 DEF Release
<1>11. CASE FinishScan(q)
  BY <1>1, <1>11 DEF FinishScan
<1>12. CASE FinishFallback(q) \/ FinishRevalidate(q)
  BY <1>1, <1>12 DEF FinishFallback, FinishRevalidate
<1>13. CASE BeginWrite(q)
  BY <1>1, <1>13 DEF BeginWrite
<1>14. CASE FinishWrite(q)
  BY <1>1, <1>14 DEF FinishWrite
<1>15. CASE Replace(q)
  BY <1>1, <1>15 DEF Replace
<1>16. CASE SyncDirectory(q)
  BY <1>1, <1>16 DEF SyncDirectory
<1>17. ASSUME NEW i \in Input, CheckInput(q, i) PROVE \E c : Becomes(q, c)
  BY <1>2, <1>17 DEF CheckInput
<1>18. ASSUME NEW i \in Input, ValidateInput(q, i) PROVE \E c : Becomes(q, c)
  BY <1>1, <1>18 DEF ValidateInput
<1>19. ASSUME NEW i \in Input, Capture(q, i) PROVE \E c : Becomes(q, c)
  BY <1>19 DEF Capture
<1>20. ASSUME NEW i \in Input, CaptureFails(q, i) PROVE \E c : Becomes(q, c)
  BY <1>1, <1>20 DEF CaptureFails
<1> QED
  BY <1>4, <1>5, <1>6, <1>7, <1>8, <1>9, <1>10, <1>11, <1>12, <1>13, <1>14, <1>15, <1>16, <1>17,
     <1>18, <1>19, <1>20 DEF Step

-----------------------------------------------------------------------------
(* Type correctness *)

\* A step of a call leaves every variable in its type.
LEMMA StepType ==
    ASSUME TypeOK, NEW p \in Proc, Step(p)
    PROVE  TypeOK'
<1> DEFINE c == call[p]
<1> USE DEF PCs, EntryStates, Returns
<1>c. /\ c \in Call /\ c.todo \in SUBSET Input /\ c.ret \in Returns
      /\ file \in Snapshot /\ cache.proof \in Snapshot
      /\ MaxPolls \in 0..MaxPolls /\ Input \in SUBSET Input
  BY ProtocolAssumption DEF TypeOK, Call, Entry
<1>1. CASE ReadCache(p)
  <2> DEFINE l == [i \in Input |-> {file[i].bytes}]
             d == [c EXCEPT !.pc = "check", !.loaded = cache.proof, !.todo = Input,
                            !.since = file, !.live = l]
  <2>1. l \in Contents
    BY <1>c DEF Snapshot, FileState, Contents
  <2>2. Miss(p) \/ Becomes(p, d)
    BY <1>1 DEF ReadCache
  <2> HIDE DEF l, c
  <2>3. d \in Call
    BY <1>c, <2>1, CallUpdates
  <2> HIDE DEF d
  <2>4. call' \in [Proc -> Call]
    BY <2>2, <2>3, BecomesType, MissType
  <2> QED
    BY <1>1, <2>4, FaultType DEF ReadCache, TypeOK, dataset, paths
<1>2. CASE Hit(p)
  <2> DEFINE d == [c EXCEPT !.pc = "revalidate", !.todo = Input]
             e == [c EXCEPT !.pc = "begin", !.loaded = Nothing, !.live = NoContents]
  <2>1. (\E r \in Returns : Leave(p, r)) \/ Becomes(p, d) \/ Becomes(p, e)
    BY <1>2 DEF Hit
  <2> HIDE DEF c
  <2>2. d \in Call /\ e \in Call
    BY <1>c, CallUpdates, SnapshotTypes
  <2> HIDE DEF d, e
  <2>3. call' \in [Proc -> Call]
    BY <2>1, <2>2, BecomesType, LeaveType
  <2> QED
    BY <1>2, <2>3 DEF Hit, TypeOK, dataset, paths
<1>3. CASE OpenLock(p)
  <2> DEFINE d == [c EXCEPT !.pc = "acquire", !.polls = MaxPolls]
  <2>1. WithoutCache(p) \/ Becomes(p, d)
    BY <1>3 DEF OpenLock
  <2> HIDE DEF c
  <2>2. d \in Call
    BY <1>c, CallUpdates
  <2> HIDE DEF d
  <2>3. call' \in [Proc -> Call]
    BY <2>1, <2>2, BecomesType, WithoutCacheType
  <2> QED
    BY <1>3, <2>3, FaultType DEF OpenLock, TypeOK, dataset, paths
<1>4. CASE Acquire(p)
  <2> DEFINE d == [c EXCEPT !.pc = "read", !.polls = MaxPolls]
  <2>1. Becomes(p, d)
    BY <1>4 DEF Acquire
  <2> HIDE DEF c
  <2>2. d \in Call
    BY <1>c, CallUpdates
  <2> HIDE DEF d
  <2>3. call' \in [Proc -> Call]
    BY <2>1, <2>2, BecomesType
  <2> QED
    BY <1>4, <2>3 DEF Acquire, TypeOK, dataset, paths
<1>5. CASE Poll(p)
  <2> DEFINE d == [c EXCEPT !.polls = @ - 1]
  <2>1. WithoutCache(p) \/ (c.polls > 0 /\ Becomes(p, d))
    BY <1>5 DEF Poll
  <2>2. ASSUME c.polls > 0 PROVE d \in Call
    <3>1. c.polls - 1 \in 0..MaxPolls
      BY <1>c, <2>2, ProtocolAssumption DEF Call
    <3> HIDE DEF c
    <3> QED
      BY <1>c, <3>1, CallUpdates
  <2> HIDE DEF c, d
  <2>3. call' \in [Proc -> Call]
    BY <2>1, <2>2, BecomesType, WithoutCacheType
  <2> QED
    BY <1>5, <2>3 DEF Poll, TypeOK, dataset, paths
<1>6. CASE AcquireFails(p)
  BY <1>6, WithoutCacheType, FaultType DEF AcquireFails, TypeOK, dataset, paths
<1>7. CASE Release(p)
  <2> DEFINE d == [c EXCEPT !.pc = "fallback", !.todo = Input, !.ret = "none"]
  <2>1. Becomes(p, d) \/ Becomes(p, Idle(c.ret))
    BY <1>7 DEF Release
  <2>2. Idle(c.ret) \in Call
    BY <1>c, IdleType
  <2> HIDE DEF c
  <2>3. d \in Call
    BY <1>c, CallUpdates
  <2> HIDE DEF d
  <2>4. call' \in [Proc -> Call]
    BY <2>1, <2>2, <2>3, BecomesType
  <2> QED
    BY <1>7, <2>4 DEF Release, TypeOK, dataset, paths
<1>8. CASE FinishScan(p)
  <2> DEFINE next == IF c.op = "scan_cached" THEN "begin" ELSE "open"
             d == [c EXCEPT !.pc = next]
  <2>1. Leave(p, "unsaved") \/ Becomes(p, d)
    BY <1>8 DEF FinishScan
  <2>2. next \in PCs
    OBVIOUS
  <2> HIDE DEF c, next
  <2>3. d \in Call
    BY <1>c, <2>2 DEF Call
  <2> HIDE DEF d
  <2>4. call' \in [Proc -> Call]
    BY <2>1, <2>3, BecomesType, LeaveType
  <2> QED
    BY <1>8, <2>4 DEF FinishScan, TypeOK, dataset, paths
<1>9. CASE FinishFallback(p)
  BY <1>9, LeaveType DEF FinishFallback, TypeOK, dataset, paths
<1>10. CASE BeginWrite(p)
  <2> DEFINE d == [c EXCEPT !.pc = "write", !.temp = "torn", !.since = file]
  <2>1. Leave(p, "unsaved") \/ Becomes(p, d)
    BY <1>10 DEF BeginWrite
  <2> HIDE DEF c
  <2>2. d \in Call
    BY <1>c, CallUpdates
  <2> HIDE DEF d
  <2>3. call' \in [Proc -> Call]
    BY <2>1, <2>2, BecomesType, LeaveType
  <2> QED
    BY <1>10, <2>3, FaultType DEF BeginWrite, TypeOK, dataset, paths
<1>11. CASE FinishWrite(p)
  <2> DEFINE d == [c EXCEPT !.pc = "validate", !.temp = "whole", !.todo = Input]
  <2>1. Leave(p, "unsaved") \/ Becomes(p, d)
    BY <1>11 DEF FinishWrite
  <2> HIDE DEF c
  <2>2. d \in Call
    BY <1>c, CallUpdates
  <2> HIDE DEF d
  <2>3. call' \in [Proc -> Call]
    BY <2>1, <2>2, BecomesType, LeaveType
  <2> QED
    BY <1>11, <2>3, FaultType DEF FinishWrite, TypeOK, dataset, paths
<1>12. CASE FinishRevalidate(p)
  BY <1>12, LeaveType DEF FinishRevalidate, TypeOK, dataset, paths
<1>13. CASE Replace(p)
  <2> DEFINE d == [c EXCEPT !.pc = "sync", !.temp = "none"]
             e == [state |-> c.temp, policy |-> c.policy, proof |-> c.cap]
  <2>1. \/ Leave(p, "unsaved") /\ UNCHANGED cache
        \/ Becomes(p, d) /\ cache' = e
    BY <1>13 DEF Replace
  <2>2. e \in Entry
    BY <1>c DEF Call, Entry
  <2> HIDE DEF c, e
  <2>3. d \in Call
    BY <1>c, CallUpdates
  <2> HIDE DEF d
  <2>4. call' \in [Proc -> Call] /\ cache' \in Entry
    BY <2>1, <2>2, <2>3, BecomesType, LeaveType DEF TypeOK
  <2> QED
    BY <1>13, <2>4, FaultType DEF Replace, TypeOK, dataset
<1>14. CASE SyncDirectory(p)
  BY <1>14, LeaveType, FaultType DEF SyncDirectory, TypeOK, dataset
<1>15. ASSUME NEW i \in Input, CheckInput(p, i) \/ ValidateInput(p, i) PROVE TypeOK'
  <2> DEFINE d == [c EXCEPT !.todo = @ \ {i}]
  <2>1. Miss(p) \/ (\E r \in Returns : Leave(p, r)) \/ Becomes(p, d)
    BY <1>15 DEF CheckInput, ValidateInput
  <2> HIDE DEF c
  <2>2. d \in Call
    <3>1. c.todo \ {i} \in SUBSET Input
      BY <1>c
    <3> QED
      BY <1>c, <3>1, CallUpdates
  <2> HIDE DEF d
  <2>3. call' \in [Proc -> Call]
    BY <2>1, <2>2, BecomesType, LeaveType, MissType
  <2> QED
    BY <1>15, <2>3, FaultType DEF CheckInput, ValidateInput, ReadTrouble, TypeOK, dataset, paths
<1>16. ASSUME NEW i \in Input, Capture(p, i) \/ CaptureFails(p, i) PROVE TypeOK'
  <2> DEFINE s == file[i]
             d == [c EXCEPT !.cap[i] = s, !.todo = @ \ {i}]
             e == [c EXCEPT !.cap[i] = s, !.todo = @ \ {i}, !.unavailable = TRUE]
  <2>1. (\E r \in Returns : Leave(p, r)) \/ Becomes(p, d) \/ Becomes(p, e)
    BY <1>16 DEF Capture, CaptureFails
  <2>2. s \in FileState
    BY <1>c DEF Snapshot
  <2> HIDE DEF c, s
  <2>3. d \in Call /\ e \in Call
    BY <1>c, <2>2, CaptureUpdates
  <2> HIDE DEF d, e
  <2>4. call' \in [Proc -> Call]
    BY <2>1, <2>3, BecomesType, LeaveType
  <2> QED
    BY <1>16, <2>4, FaultType DEF Capture, CaptureFails, ReadTrouble, TypeOK, dataset, paths
<1> QED
  BY <1>1, <1>2, <1>3, <1>4, <1>5, <1>6, <1>7, <1>8, <1>9, <1>10, <1>11, <1>12, <1>13, <1>14,
     <1>15, <1>16 DEF Step

LEMMA StartType ==
    ASSUME TypeOK, NEW p \in Proc, NEW op \in Ops, NEW policy \in Policies, Start(p, op, policy)
    PROVE  TypeOK'
<1> DEFINE c == Idle("none")
           pc == IF op = "scan_cached" THEN "read" ELSE "scan"
           todo == IF op = "scan_cached" THEN {} ELSE Input
           d == [c EXCEPT !.op = op, !.policy = policy, !.pc = pc, !.todo = todo]
<1>1. c \in Call
  BY IdleType DEF Returns
<1>2. pc \in PCs /\ todo \in SUBSET Input
  BY DEF PCs
<1>3. Becomes(p, d)
  BY DEF Start
<1> HIDE DEF c, pc, todo
<1>4. d \in Call
  BY <1>1, <1>2 DEF Call
<1> HIDE DEF d
<1>5. call' \in [Proc -> Call]
  BY <1>3, <1>4, BecomesType
<1> QED
  BY <1>5 DEF Start, TypeOK, dataset, paths

\* What ends calls against their will, and what becomes of a lock that is left behind.
Failure ==
    \/ PowerLoss \/ HeirLetsGo
    \/ \E p \in Proc : Interrupt(p) \/ ReleaseFails(p) \/ Crash(p)

\* A call whose unlock failed is over, or scans without the cache.
LEMMA Unreleased ==
    ASSUME TypeOK, NEW p \in Proc, ReleaseFails(p)
    PROVE  \E d \in Call :
              /\ Becomes(p, d) /\ d.ret \in {"none", "unsaved"}
              /\ \/ d = Idle("unsaved") /\ d.pc = "idle" /\ d.temp = "none"
                 \/ /\ d.pc = "fallback" /\ d.temp = call[p].temp
                    /\ d.loaded = call[p].loaded /\ d.cap = call[p].cap
<1> DEFINE c == call[p]
           d == [c EXCEPT !.pc = "fallback", !.todo = Input, !.ret = "none"]
<1>1. c \in Call
  BY DEF TypeOK
<1>2. Becomes(p, d) \/ Becomes(p, Idle("unsaved"))
  BY DEF ReleaseFails
<1>3. /\ Idle("unsaved") \in Call /\ Idle("unsaved").ret = "unsaved"
      /\ Idle("unsaved").pc = "idle" /\ Idle("unsaved").temp = "none"
  BY IdleType DEF Idle, Returns
<1> HIDE DEF c
<1>4. d \in Call
  <2>1. "fallback" \in PCs /\ "none" \in Returns
    BY DEF PCs, Returns
  <2> QED
    BY <1>1, <2>1, CallUpdates
<1>5. d.pc = "fallback" /\ d.temp = c.temp /\ d.loaded = c.loaded /\ d.cap = c.cap /\ d.ret = "none"
  BY <1>1 DEF Call
<1> HIDE DEF d
<1> QED
  BY <1>2, <1>3, <1>4, <1>5 DEF c

\* So does a crash, an exception or a power loss.
LEMMA FailureType ==
    ASSUME TypeOK, Failure
    PROVE  TypeOK'
<1>1. Idle("none") \in Call
  BY IdleType DEF Returns
<1>2. CASE PowerLoss
  <2>1. faults' \in 0..MaxFaults
    BY <1>2, FaultType DEF PowerLoss
  <2>2. cache' \in Entry
    <3>1. PICK e \in {cache, disk} :
             cache' = IF e.state = "unsynced" THEN [e EXCEPT !.state = "torn"] ELSE e
      BY <1>2 DEF PowerLoss
    <3>2. e \in Entry
      BY DEF TypeOK
    <3> QED
      BY <3>1, <3>2 DEF Entry, EntryStates
  <2>3. call' \in [Proc -> Call]
    BY <1>1, <1>2 DEF PowerLoss
  <2> QED
    BY <1>2, <2>1, <2>2, <2>3 DEF PowerLoss, TypeOK, dataset
<1>3. ASSUME NEW p \in Proc, Interrupt(p) PROVE TypeOK'
  BY <1>3, LeaveType, FaultType DEF Interrupt, Returns, TypeOK, dataset, paths
<1>4. ASSUME NEW p \in Proc, Crash(p) PROVE TypeOK'
  <2>1. call' \in [Proc -> Call]
    BY <1>1, <1>4, BecomesType DEF Crash
  <2> QED
    BY <1>4, <2>1, FaultType DEF Crash, TypeOK, dataset, paths
<1>5. ASSUME NEW p \in Proc, ReleaseFails(p) PROVE TypeOK'
  <2>1. call' \in [Proc -> Call]
    BY <1>5, Unreleased, BecomesType
  <2> QED
    BY <1>5, <2>1, FaultType DEF ReleaseFails, TypeOK, dataset, paths
<1>6. CASE HeirLetsGo
  BY <1>6 DEF HeirLetsGo, TypeOK, dataset, paths
<1> QED
  BY <1>2, <1>3, <1>4, <1>5, <1>6 DEF Failure

\* A change of the dataset keeps the types when the new state of the file has one.
LEMMA SetFileType ==
    ASSUME TypeOK, NEW i \in Input, NEW s \in FileState, SetFile(i, s), restored' \in BOOLEAN
    PROVE  TypeOK'
<1>1. file' \in Snapshot
  BY DEF SetFile, TypeOK, Snapshot
<1>2. writes' \in 0..MaxWrites
  <2>1. writes \in 0..MaxWrites
    BY DEF TypeOK
  <2>2. writes < MaxWrites /\ writes' = writes + 1
    BY DEF SetFile
  <2> QED
    BY <2>1, <2>2, ProtocolAssumption
<1>3. ASSUME NEW p \in Proc PROVE call'[p] \in Call
  <2> DEFINE c == call[p]
             l == IF c.pc = "check" THEN c.live[i] \cup {s.bytes} ELSE {}
             d == [c EXCEPT !.dirty = TRUE, !.live[i] = l]
  <2>1. c \in Call
    BY DEF TypeOK
  <2>2. c.live \in Contents /\ s.bytes \in Bytes \cup {NoBytes}
    BY <2>1 DEF Call, FileState, Contents
  <2>3. l \in SUBSET (Bytes \cup {NoBytes})
    BY <2>2 DEF Contents
  <2>4. call'[p] = c \/ call'[p] = d
    BY DEF SetFile
  <2> HIDE DEF c, l
  <2>5. [c.live EXCEPT ![i] = l] \in Contents
    BY <2>2, <2>3 DEF Contents
  <2>6. d \in Call
    BY <2>1, <2>5 DEF Call, Contents
  <2> QED
    BY <2>1, <2>4, <2>6
<1>4. call' \in [Proc -> Call]
  <2> DEFINE f(p) == IF call[p].pc = "idle" THEN call[p]
                     ELSE [call[p] EXCEPT !.dirty = TRUE,
                              !.live[i] = IF call[p].pc = "check" THEN @ \cup {s.bytes} ELSE {}]
  <2>1. call' = [p \in Proc |-> f(p)]
    BY DEF SetFile
  <2> HIDE DEF f
  <2>2. \A p \in Proc : f(p) \in Call
    BY <1>3, <2>1
  <2> QED
    BY <2>1, <2>2
<1> QED
  BY <1>1, <1>2, <1>4 DEF SetFile, TypeOK, paths

LEMMA ChangeType ==
    ASSUME TypeOK, NEW i \in Input,
           RemoveInput(i) \/ \E b \in Bytes : WriteInput(i, b) \/ RestoreMtime(i, b)
    PROVE  TypeOK'
<1>1. CASE RemoveInput(i)
  BY <1>1, SetFileType, SnapshotTypes DEF RemoveInput, TypeOK
<1>2. ASSUME NEW b \in Bytes, WriteInput(i, b) PROVE TypeOK'
  <2>1. Present(b, writes + 2) \in FileState
    BY SnapshotTypes DEF TypeOK
  <2> QED
    BY <1>2, <2>1, SetFileType DEF WriteInput, TypeOK
<1>3. ASSUME NEW b \in Bytes, RestoreMtime(i, b) PROVE TypeOK'
  <2>1. Present(b, file[i].mtime) \in FileState
    BY SnapshotTypes DEF TypeOK, Snapshot, FileState
  <2> QED
    BY <1>3, <2>1, SetFileType DEF RestoreMtime, TypeOK
<1> QED
  BY <1>1, <1>2, <1>3

LEMMA InitType == Init => TypeOK
<1> SUFFICES ASSUME Init PROVE TypeOK
  OBVIOUS
<1>1. file \in Snapshot
  BY SnapshotTypes DEF Init, Snapshot
<1>2. NoEntry \in Entry
  BY SnapshotTypes DEF NoEntry, Entry, EntryStates
<1>3. cache \in Entry
  <2>1. ASSUME NEW policy \in Policies, NEW old \in SUBSET Input,
               cache = [state |-> "whole", policy |-> policy,
                        proof |-> [i \in Input |-> IF i \in old THEN Present(NoBytes, 0)
                                                   ELSE file[i]]]
        PROVE  cache \in Entry
    <3> DEFINE s == [i \in Input |-> IF i \in old THEN Present(NoBytes, 0) ELSE file[i]]
    <3>1. Present(NoBytes, 0) \in FileState
      BY SnapshotTypes
    <3>2. s \in Snapshot
      BY <1>1, <3>1 DEF Snapshot
    <3> HIDE DEF s
    <3>3. cache = [state |-> "whole", policy |-> policy, proof |-> s]
      BY <2>1 DEF s
    <3> QED
      BY <3>2, <3>3 DEF Entry, EntryStates
  <2> QED
    BY <1>2, <2>1 DEF Init
<1>4. call \in [Proc -> Call]
  <2>1. Idle("none") \in Call
    BY IdleType DEF Returns
  <2> QED
    BY <2>1 DEF Init
<1>5. 0 \in 0..MaxWrites /\ 0 \in 0..MaxFaults
  BY ProtocolAssumption
<1>6. writes = 0 /\ restored = FALSE /\ faults = 0 /\ disk = cache /\ lock = Nobody
  BY DEF Init
<1> QED
  BY <1>1, <1>3, <1>4, <1>5, <1>6 DEF TypeOK

LEMMA NextType == TypeOK /\ [Next]_vars => TypeOK'
<1> SUFFICES ASSUME TypeOK, [Next]_vars PROVE TypeOK'
  OBVIOUS
<1>1. CASE UNCHANGED vars
  BY <1>1 DEF vars, TypeOK
<1>2. CASE Environment
  BY <1>2, FailureType, ChangeType DEF Environment, Failure
<1>3. CASE \E p \in Proc : Step(p) \/ \E op \in Ops, policy \in Policies : Start(p, op, policy)
  BY <1>3, StepType, StartType
<1> QED
  BY <1>1, <1>2, <1>3 DEF Next

\* Every variable stays in its type, for any processes, dataset and bounds: the
\* calls of scan_cached and save_cache never leave the states listed in Call.
THEOREM TypeCorrect == Spec => []TypeOK
<1>1. Init => TypeOK
  BY InitType
<1>2. TypeOK /\ [Next]_vars => TypeOK'
  BY NextType
<1> QED
  BY <1>1, <1>2, PTL DEF Spec
-----------------------------------------------------------------------------
(* Ownership of the lock *)

\* What the lock and a call's program counter say of each other.  The last line
\* is the strengthening: save_cache loads under the lock only, so the write that
\* follows a load that differs needs no lock of its own.
Ownership(c, held) ==
    /\ c.pc \in {"begin", "write", "validate", "sync", "revalidate", "release"} => held
    /\ c.pc = "scan" => (held <=> c.op = "scan_cached")
    /\ c.pc \in {"idle", "open", "acquire", "fallback"} => ~held
    /\ c.pc \in {"read", "check"} /\ c.op = "save_cache" => held

LockInv == \A p \in Proc : Ownership(call[p], Held(p))

-----------------------------------------------------------------------------
\* A step of one call keeps the invariant when it keeps its own part of it and
\* neither gives the lock to another call nor takes it from one.
LEMMA LockFrame ==
    ASSUME TypeOK, LockInv, NEW p \in Proc, NEW c, Becomes(p, c),
           Ownership(c, lock' = p),
           \A q \in Proc : q # p => (lock' = q <=> lock = q)
    PROVE  LockInv'
<1> SUFFICES ASSUME NEW q \in Proc PROVE Ownership(call'[q], lock' = q)
  BY DEF LockInv, Held
<1>1. CASE q = p
  BY <1>1 DEF Becomes, TypeOK
<1>2. CASE q # p
  <2>1. call'[q] = call[q] /\ Ownership(call[q], lock = q)
    BY <1>2 DEF Becomes, TypeOK, LockInv, Held
  <2> QED
    BY <1>2, <2>1 DEF Ownership
<1> QED
  BY <1>1, <1>2

\* Leaving a call: with the lock to its release, without it to rest.
LEMMA LeaveLock ==
    ASSUME TypeOK, LockInv, NEW p \in Proc, NEW r, Leave(p, r), UNCHANGED lock
    PROVE  LockInv'
<1> DEFINE c == call[p]
           d == [c EXCEPT !.pc = "release", !.ret = r, !.temp = "none", !.todo = {},
                          !.loaded = Nothing, !.since = Nothing, !.live = NoContents]
<1>1. c \in Call
  BY DEF TypeOK
<1>2. CASE Held(p)
  <2>1. Becomes(p, d)
    BY <1>2 DEF Leave
  <2> HIDE DEF c
  <2>2. d.pc = "release"
    BY <1>1 DEF Call
  <2> HIDE DEF d
  <2> QED
    BY <1>2, <2>1, <2>2, LockFrame DEF Ownership, Held
<1>3. CASE ~Held(p)
  <2>1. Becomes(p, Idle(r))
    BY <1>3 DEF Leave
  <2>2. Idle(r).pc = "idle"
    BY DEF Idle
  <2> QED
    BY <1>3, <2>1, <2>2, LockFrame DEF Ownership, Held
<1> QED
  BY <1>2, <1>3

LEMMA MissLock ==
    ASSUME TypeOK, LockInv, NEW p \in Proc, call[p].pc \in {"read", "check"}, Miss(p),
           UNCHANGED lock
    PROVE  LockInv'
<1> DEFINE next == IF ~Held(p) THEN "open"
                   ELSE IF call[p].op = "scan_cached" THEN "scan" ELSE "begin"
           c == call[p]
           d == [c EXCEPT !.pc = next, !.todo = IF next = "scan" THEN Input ELSE {},
                          !.loaded = Nothing, !.since = Nothing, !.live = NoContents]
<1>1. c \in Call /\ Ownership(c, Held(p))
  BY DEF TypeOK, LockInv
<1>2. Becomes(p, d)
  BY DEF Miss
<1>3. d.pc = next /\ d.op = c.op
  <2> HIDE DEF c, next
  <2> QED
    BY <1>1 DEF Call
<1>4. Ownership(d, Held(p))
  <2> HIDE DEF d
  <2> QED
    BY <1>1, <1>3 DEF Ownership
<1> HIDE DEF d
<1> QED
  BY <1>2, <1>4, LockFrame DEF Held

LEMMA WithoutCacheLock ==
    ASSUME TypeOK, LockInv, NEW p \in Proc, call[p].pc \in {"open", "acquire"}, WithoutCache(p),
           UNCHANGED lock
    PROVE  LockInv'
<1> DEFINE c == call[p]
           d == [c EXCEPT !.pc = "fallback", !.todo = Input]
<1>1. c \in Call /\ Ownership(c, Held(p))
  BY DEF TypeOK, LockInv
<1>2. CASE Becomes(p, d)
  <2> HIDE DEF c
  <2>1. d.pc = "fallback"
    BY <1>1 DEF Call
  <2>2. ~Held(p)
    BY <1>1 DEF Ownership, c
  <2> HIDE DEF d
  <2> QED
    BY <1>2, <2>1, <2>2, LockFrame DEF Ownership, Held
<1>3. CASE Leave(p, "unsaved")
  BY <1>3, LeaveLock
<1> QED
  BY <1>2, <1>3 DEF WithoutCache

\* An update of a call that moves it from one part of the call to another under
\* the same lock.
LEMMA MoveLock ==
    ASSUME TypeOK, LockInv, NEW p \in Proc, NEW d, Becomes(p, d), UNCHANGED lock,
           d.op = call[p].op,
           \/ d.pc = call[p].pc
           \/ d.pc = "check" /\ call[p].pc = "read"
           \/ d.pc = "acquire" /\ call[p].pc = "open"
           \/ d.pc = "begin" /\ call[p].pc = "scan" /\ d.op = "scan_cached"
           \/ d.pc = "open" /\ call[p].pc = "scan" /\ d.op # "scan_cached"
           \/ /\ d.pc \in {"begin", "write", "validate", "sync", "revalidate"}
              /\ \/ call[p].pc \in {"begin", "write", "validate", "revalidate"}
                 \/ call[p].pc = "check" /\ d.op = "save_cache"
    PROVE  LockInv'
<1>1. Ownership(call[p], Held(p))
  BY DEF LockInv
<1>2. Ownership(d, Held(p))
  BY <1>1 DEF Ownership
<1> QED
  BY <1>2, LockFrame DEF Held

-----------------------------------------------------------------------------
LEMMA StepLock ==
    ASSUME TypeOK, LockInv, NEW p \in Proc, Step(p)
    PROVE  LockInv'
<1> DEFINE c == call[p]
<1>c. c \in Call /\ Ownership(c, Held(p)) /\ lock \in Proc \cup {Nobody, Heir} /\ Nobody \notin Proc
  BY ProtocolAssumption DEF TypeOK, LockInv
<1>1. CASE ReadCache(p)
  <2> DEFINE l == [i \in Input |-> {file[i].bytes}]
             d == [c EXCEPT !.pc = "check", !.loaded = cache.proof, !.todo = Input,
                            !.since = file, !.live = l]
  <2>1. /\ Miss(p) \/ Becomes(p, d)
        /\ c.pc = "read" /\ UNCHANGED lock
    BY <1>1 DEF ReadCache
  <2> HIDE DEF l, c
  <2>2. d.pc = "check" /\ d.op = c.op
    BY <1>c DEF Call
  <2> HIDE DEF d
  <2> QED
    BY <2>1, <2>2, MissLock, MoveLock DEF c
<1>2. CASE Hit(p)
  <2> DEFINE d == [c EXCEPT !.pc = "revalidate", !.todo = Input]
             e == [c EXCEPT !.pc = "begin", !.loaded = Nothing, !.live = NoContents]
  <2>1. /\ \/ \E r \in Returns : Leave(p, r)
           \/ c.op = "save_cache" /\ Becomes(p, d)
           \/ c.op = "save_cache" /\ Becomes(p, e)
        /\ c.pc = "check" /\ UNCHANGED lock
    BY <1>2 DEF Hit, Returns
  <2> HIDE DEF c
  <2>2. d.pc = "revalidate" /\ d.op = c.op /\ e.pc = "begin" /\ e.op = c.op
    BY <1>c DEF Call
  <2> HIDE DEF d, e
  <2> QED
    BY <2>1, <2>2, LeaveLock, MoveLock DEF c
<1>3. CASE OpenLock(p)
  <2> DEFINE d == [c EXCEPT !.pc = "acquire", !.polls = MaxPolls]
  <2>1. /\ WithoutCache(p) \/ Becomes(p, d)
        /\ c.pc = "open" /\ UNCHANGED lock
    BY <1>3 DEF OpenLock
  <2> HIDE DEF c
  <2>2. d.pc = "acquire" /\ d.op = c.op
    BY <1>c DEF Call
  <2> HIDE DEF d
  <2> QED
    BY <2>1, <2>2, WithoutCacheLock, MoveLock DEF c
<1>4. CASE Acquire(p)
  <2> DEFINE d == [c EXCEPT !.pc = "read", !.polls = MaxPolls]
  <2>1. Becomes(p, d) /\ lock = Nobody /\ lock' = p
    BY <1>4 DEF Acquire
  <2> HIDE DEF c
  <2>2. d.pc = "read"
    BY <1>c DEF Call
  <2> HIDE DEF d
  <2>3. Ownership(d, lock' = p)
    BY <2>1, <2>2 DEF Ownership
  <2> QED
    BY <1>c, <2>1, <2>3, LockFrame
<1>5. CASE Poll(p)
  <2> DEFINE d == [c EXCEPT !.polls = @ - 1]
  <2>1. /\ WithoutCache(p) \/ Becomes(p, d)
        /\ c.pc = "acquire" /\ UNCHANGED lock
    BY <1>5 DEF Poll
  <2> HIDE DEF c
  <2>2. d.pc = c.pc /\ d.op = c.op
    BY <1>c DEF Call
  <2> HIDE DEF d
  <2> QED
    BY <2>1, <2>2, WithoutCacheLock, MoveLock DEF c
<1>6. CASE AcquireFails(p)
  BY <1>6, WithoutCacheLock DEF AcquireFails
<1>7. CASE Release(p)
  <2> DEFINE d == [c EXCEPT !.pc = "fallback", !.todo = Input, !.ret = "none"]
  <2>1. /\ Becomes(p, d) \/ Becomes(p, Idle(c.ret))
        /\ c.pc = "release" /\ lock' = Nobody
    BY <1>7 DEF Release
  <2>2. lock = p
    BY <1>c, <2>1 DEF Ownership, Held
  <2> HIDE DEF c
  <2>3. d.pc = "fallback" /\ Idle(c.ret).pc = "idle"
    BY <1>c DEF Call, Idle
  <2> HIDE DEF d
  <2>4. Ownership(d, lock' = p) /\ Ownership(Idle(c.ret), lock' = p)
    BY <1>c, <2>1, <2>3 DEF Ownership
  <2> QED
    BY <1>c, <2>1, <2>2, <2>4, LockFrame
<1>8. CASE FinishScan(p)
  <2> DEFINE next == IF c.op = "scan_cached" THEN "begin" ELSE "open"
             d == [c EXCEPT !.pc = next]
  <2>1. /\ Leave(p, "unsaved") \/ Becomes(p, d)
        /\ c.pc = "scan" /\ UNCHANGED lock
    BY <1>8 DEF FinishScan
  <2> HIDE DEF c
  <2>2. d.pc = next /\ d.op = c.op
    <3> HIDE DEF next
    <3> QED
      BY <1>c DEF Call
  <2> HIDE DEF d
  <2> QED
    BY <2>1, <2>2, LeaveLock, MoveLock DEF c
<1>9. CASE FinishFallback(p) \/ FinishRevalidate(p) \/ SyncDirectory(p)
  BY <1>9, LeaveLock DEF FinishFallback, FinishRevalidate, SyncDirectory
<1>10. CASE BeginWrite(p) \/ FinishWrite(p) \/ Replace(p)
  <2> DEFINE d == [c EXCEPT !.pc = "write", !.temp = "torn", !.since = file]
             e == [c EXCEPT !.pc = "validate", !.temp = "whole", !.todo = Input]
             f == [c EXCEPT !.pc = "sync", !.temp = "none"]
  <2>1. /\ Leave(p, "unsaved") \/ Becomes(p, d) \/ Becomes(p, e) \/ Becomes(p, f)
        /\ c.pc \in {"begin", "write", "validate"} /\ UNCHANGED lock
    BY <1>10 DEF BeginWrite, FinishWrite, Replace
  <2> HIDE DEF c
  <2>2. /\ d.pc = "write" /\ e.pc = "validate" /\ f.pc = "sync"
        /\ d.op = c.op /\ e.op = c.op /\ f.op = c.op
    BY <1>c DEF Call
  <2> HIDE DEF d, e, f
  <2> QED
    BY <2>1, <2>2, LeaveLock, MoveLock DEF c
<1>11. ASSUME NEW i \in Input, CheckInput(p, i) \/ ValidateInput(p, i) PROVE LockInv'
  <2> DEFINE d == [c EXCEPT !.todo = @ \ {i}]
  <2>1. /\ \/ c.pc = "check" /\ Miss(p)
           \/ \E r \in Returns : Leave(p, r)
           \/ Becomes(p, d)
        /\ UNCHANGED lock
    BY <1>11 DEF CheckInput, ValidateInput, Returns
  <2> HIDE DEF c
  <2>2. d.pc = c.pc /\ d.op = c.op
    BY <1>c DEF Call
  <2> HIDE DEF d
  <2> QED
    BY <2>1, <2>2, LeaveLock, MissLock, MoveLock DEF c
<1>12. ASSUME NEW i \in Input, Capture(p, i) \/ CaptureFails(p, i) PROVE LockInv'
  <2> DEFINE s == file[i]
             d == [c EXCEPT !.cap[i] = s, !.todo = @ \ {i}]
             e == [c EXCEPT !.cap[i] = s, !.todo = @ \ {i}, !.unavailable = TRUE]
  <2>1. /\ (\E r \in Returns : Leave(p, r)) \/ Becomes(p, d) \/ Becomes(p, e)
        /\ UNCHANGED lock
    BY <1>12 DEF Capture, CaptureFails, Returns
  <2> HIDE DEF c, s
  <2>2. d.pc = c.pc /\ d.op = c.op /\ e.pc = c.pc /\ e.op = c.op
    BY <1>c DEF Call
  <2> HIDE DEF d, e
  <2> QED
    BY <2>1, <2>2, LeaveLock, MoveLock DEF c
<1> QED
  BY <1>1, <1>2, <1>3, <1>4, <1>5, <1>6, <1>7, <1>8, <1>9, <1>10, <1>11, <1>12 DEF Step

LEMMA StartLock ==
    ASSUME TypeOK, LockInv, NEW p \in Proc, NEW op \in Ops, NEW policy \in Policies,
           Start(p, op, policy)
    PROVE  LockInv'
<1> DEFINE pc == IF op = "scan_cached" THEN "read" ELSE "scan"
           d == [Idle("none") EXCEPT !.op = op, !.policy = policy, !.pc = pc,
                                     !.todo = IF op = "scan_cached" THEN {} ELSE Input]
<1>1. Becomes(p, d) /\ UNCHANGED lock /\ call[p].pc = "idle"
  BY DEF Start
<1>2. ~Held(p)
  BY <1>1 DEF LockInv, Ownership
<1>3. d.pc = pc /\ d.op = op
  <2> HIDE DEF pc
  <2> QED
    BY DEF Idle
<1> HIDE DEF d
<1>4. Ownership(d, lock' = p)
  BY <1>1, <1>2, <1>3 DEF Ownership, Held, Ops
<1> QED
  BY <1>1, <1>4, LockFrame

\* Crashes, exceptions and power losses never leave the lock with a dead call.
LEMMA FailureLock ==
    ASSUME TypeOK, LockInv, Failure
    PROVE  LockInv'
<1>1. Idle("none").pc = "idle"
  BY DEF Idle
<1>2. CASE PowerLoss
  <2>1. lock' = Nobody /\ call' = [p \in Proc |-> Idle("none")]
    BY <1>2 DEF PowerLoss
  <2> QED
    BY <1>1, <2>1, ProtocolAssumption DEF LockInv, Ownership, Held
<1>3. ASSUME NEW p \in Proc, Interrupt(p) PROVE LockInv'
  BY <1>3, LeaveLock DEF Interrupt
<1>4. ASSUME NEW p \in Proc, Crash(p) PROVE LockInv'
  <2>1. Becomes(p, Idle("none")) /\ lock' \in IF Held(p) THEN {Nobody, Heir} ELSE {lock}
    BY <1>4 DEF Crash
  <2>2. lock' # p
    BY <2>1, ProtocolAssumption DEF Held
  <2>3. Ownership(Idle("none"), lock' = p)
    BY <1>1, <2>2 DEF Ownership
  <2> QED
    BY <2>1, <2>3, LockFrame, ProtocolAssumption DEF Held
<1>5. ASSUME NEW p \in Proc, ReleaseFails(p) PROVE LockInv'
  <2>1. PICK d \in Call : Becomes(p, d) /\ d.pc \in {"idle", "fallback"}
    BY <1>5, Unreleased
  <2>2. lock = p /\ lock' \in {Nobody, Heir}
    BY <1>5 DEF ReleaseFails, LockInv, Ownership, Held
  <2>3. Ownership(d, lock' = p)
    BY <2>1, <2>2, ProtocolAssumption DEF Ownership
  <2> QED
    BY <2>1, <2>2, <2>3, LockFrame, ProtocolAssumption
<1>6. CASE HeirLetsGo
  BY <1>6, ProtocolAssumption DEF HeirLetsGo, LockInv, Held, TypeOK
<1> QED
  BY <1>2, <1>3, <1>4, <1>5, <1>6 DEF Failure

\* A change of the dataset is no business of the lock.
LEMMA ChangeLock ==
    ASSUME TypeOK, LockInv, NEW i \in Input, NEW s, SetFile(i, s)
    PROVE  LockInv'
<1> SUFFICES ASSUME NEW p \in Proc PROVE Ownership(call'[p], lock' = p)
  BY DEF LockInv, Held
<1> DEFINE c == call[p]
           l == IF c.pc = "check" THEN c.live[i] \cup {s.bytes} ELSE {}
           d == [c EXCEPT !.dirty = TRUE, !.live[i] = l]
<1>1. c \in Call /\ Ownership(c, lock = p) /\ lock' = lock
  BY DEF TypeOK, LockInv, Held, SetFile
<1>2. call'[p] = c \/ call'[p] = d
  BY DEF SetFile
<1> HIDE DEF c, l
<1>3. d.pc = c.pc /\ d.op = c.op
  BY <1>1 DEF Call
<1> HIDE DEF d
<1>4. Ownership(d, lock' = p) /\ Ownership(c, lock' = p)
  BY <1>1, <1>3 DEF Ownership
<1> QED
  BY <1>2, <1>4

LEMMA NextLock == TypeOK /\ LockInv /\ [Next]_vars => LockInv'
<1> SUFFICES ASSUME TypeOK, LockInv, [Next]_vars PROVE LockInv'
  OBVIOUS
<1>1. CASE UNCHANGED vars
  BY <1>1 DEF vars, LockInv, Held, Ownership
<1>2. CASE Failure
  BY <1>2, FailureLock
<1>3. ASSUME NEW i \in Input,
             RemoveInput(i) \/ \E b \in Bytes : WriteInput(i, b) \/ RestoreMtime(i, b)
      PROVE  LockInv'
  BY <1>3, ChangeLock DEF RemoveInput, WriteInput, RestoreMtime
<1>4. CASE \E p \in Proc : Step(p) \/ \E op \in Ops, policy \in Policies : Start(p, op, policy)
  BY <1>4, StepLock, StartLock
<1> QED
  BY <1>1, <1>2, <1>3, <1>4 DEF Next, Environment, Failure

LEMMA LockInvariant == Spec => [](TypeOK /\ LockInv)
<1>1. Init => LockInv
  BY ProtocolAssumption DEF Init, LockInv, Ownership, Held, Idle
<1>2. (TypeOK /\ LockInv) /\ [Next]_vars => (TypeOK /\ LockInv)'
  BY NextType, NextLock
<1>3. Init => TypeOK
  BY InitType
<1> QED
  BY <1>1, <1>2, <1>3, PTL DEF Spec

\* For any number of processes: a call holds the lock from its second load to its
\* release and no call outside that section holds it, whatever crashes, times out
\* or raises on the way, so at most one writer is ever in _save_locked.
THEOREM LockIsExclusive == Spec => []LockOwnership
<1>1. LockInv => LockOwnership
  BY DEF LockInv, Ownership, LockOwnership
<1> QED
  BY <1>1, LockInvariant, PTL

-----------------------------------------------------------------------------
(* The lock is the exclusive lock that LockHandle implements *)

Abstract == INSTANCE ExclusiveLock WITH
    User <- Proc, inside <- {p \in Proc : Held(p)},
    taken <- lock # Nobody, lost <- {p \in Proc : faults # 0}

\* What a step does to the lock.
Passes ==
    /\ faults # 0 => faults' # 0
    /\ \/ lock' = lock
       \/ lock = Nobody /\ lock' \in Proc
       \/ lock # Nobody /\ lock' = Nobody
       \/ lock \in Proc /\ lock' = Heir /\ faults' # 0

LEMMA StepPasses ==
    ASSUME TypeOK, LockInv, NEW p \in Proc, Step(p)
    PROVE  Passes
<1> USE ProtocolAssumption DEF TypeOK, Passes
<1>1. (NoFault \/ Fault) => (faults # 0 => faults' # 0)
  BY DEF NoFault, Fault
<1>2. CASE Acquire(p)
  BY <1>2 DEF Acquire
<1>3. CASE Release(p)
  BY <1>3 DEF Release
<1>4. CASE ~Acquire(p) /\ ~Release(p)
  <2>1. lock' = lock /\ (NoFault \/ Fault)
    BY <1>4 DEF Step, ReadCache, Hit, OpenLock, Poll, AcquireFails, FinishScan, FinishFallback,
               BeginWrite, FinishWrite, FinishRevalidate, Replace, SyncDirectory, CheckInput,
               Capture, CaptureFails, ValidateInput, ReadTrouble, NoFault
  <2> QED
    BY <1>1, <2>1
<1> QED
  BY <1>2, <1>3, <1>4

LEMMA NextPasses == TypeOK /\ LockInv /\ [Next]_vars => Passes
<1> SUFFICES ASSUME TypeOK, LockInv, [Next]_vars PROVE Passes
  OBVIOUS
<1> USE ProtocolAssumption DEF TypeOK, Passes
<1>1. CASE UNCHANGED vars
  BY <1>1 DEF vars
<1>2. CASE \E p \in Proc : Step(p)
  BY <1>2, StepPasses
<1>3. ASSUME NEW p \in Proc, NEW op \in Ops, NEW policy \in Policies, Start(p, op, policy) PROVE Passes
  BY <1>3 DEF Start
<1>4. CASE PowerLoss \/ HeirLetsGo
  BY <1>4 DEF PowerLoss, HeirLetsGo, Fault
<1>5. ASSUME NEW p \in Proc, Interrupt(p) \/ ReleaseFails(p) \/ Crash(p) PROVE Passes
  <2>1. CASE Interrupt(p)
    BY <2>1 DEF Interrupt, Fault
  <2>2. CASE ReleaseFails(p)
    <3>1. lock = p
      BY <2>2 DEF ReleaseFails, LockInv, Ownership, Held
    <3> QED
      BY <2>2, <3>1 DEF ReleaseFails, Fault
  <2>3. CASE Crash(p)
    BY <2>3 DEF Crash, Fault, Held
  <2> QED
    BY <1>5, <2>1, <2>2, <2>3
<1>6. ASSUME NEW i \in Input, NEW s, SetFile(i, s) PROVE Passes
  BY <1>6 DEF SetFile
<1> QED
  BY <1>1, <1>2, <1>3, <1>4, <1>5, <1>6
     DEF Next, Environment, RemoveInput, WriteInput, RestoreMtime

\* The lock of the protocol is an exclusive lock, whatever calls crash, fail to
\* unlock or lose power with it, and whatever children keep it (_locked): the one
\* that CacheLock is shown to be (LockIsExclusiveAcrossForks of ForkProofs).
THEOREM UsesExclusiveLock == Spec => Abstract!Spec
<1> DEFINE inside == {p \in Proc : Held(p)}
           lost == {p \in Proc : faults # 0}
<1>1. Init => Abstract!Init
  BY ProtocolAssumption DEF Init, Abstract!Init, Held
<1>2. TypeOK /\ LockInv /\ [Next]_vars => [Abstract!Next]_(Abstract!vars)
  <2> SUFFICES ASSUME TypeOK, LockInv, [Next]_vars PROVE Abstract!Next
    OBVIOUS
  <2>1. Passes /\ Nobody \notin Proc /\ Heir \notin Proc /\ Heir # Nobody
    BY NextPasses, ProtocolAssumption
  <2>2. lost \subseteq lost' /\ lost' \subseteq Proc
    BY <2>1 DEF Passes
  <2>3. CASE lock' = lock
    BY <2>2, <2>3 DEF Abstract!Next, Held
  <2>4. CASE lock = Nobody /\ lock' \in Proc
    <3>1. Abstract!Enter(lock')
      BY <2>1, <2>4 DEF Abstract!Enter, Held
    <3> QED
      BY <2>2, <2>4, <3>1 DEF Abstract!Next
  <2>5. CASE lock \in Proc /\ lock' = Nobody
    <3>1. Abstract!Leave(lock)
      BY <2>1, <2>5 DEF Abstract!Leave, Held
    <3> QED
      BY <2>2, <2>5, <3>1 DEF Abstract!Next
  <2>6. CASE lock = Heir /\ lock' = Nobody
    <3>1. Abstract!Lapse
      BY <2>1, <2>6 DEF Abstract!Lapse, Held
    <3> QED
      BY <2>2, <3>1 DEF Abstract!Next
  <2>7. CASE lock \in Proc /\ lock' = Heir /\ faults' # 0
    <3>1. Abstract!Abandon(lock)
      BY <2>1, <2>7 DEF Abstract!Abandon, Held
    <3> QED
      BY <2>2, <2>7, <3>1 DEF Abstract!Next
  <2> QED
    BY <2>1, <2>3, <2>4, <2>5, <2>6, <2>7 DEF Passes, TypeOK
<1> QED
  BY <1>1, <1>2, LockInvariant, PTL DEF Spec, Abstract!Spec

-----------------------------------------------------------------------------
(* 2. Publication *)

Own(c) == [state |-> "whole", policy |-> c.policy, proof |-> c.cap]

\* What a call in its critical section knows of the cache path and the disk.
Published(c, held, shown, durable) ==
    /\ c.temp \in {"none", "torn", "whole"}
    /\ c.pc = "validate" => c.temp = "whole"
    /\ c.pc = "check" /\ held =>
          shown.state = "whole" /\ shown.policy = c.policy /\ shown.proof = c.loaded
    /\ c.pc \in {"revalidate", "sync"} => shown = Own(c)
    /\ c.pc = "release" /\ c.ret \in {"saved", "reused"} => shown = Own(c)
    /\ c.pc = "release" /\ c.ret = "saved" => durable = shown

Untorn == cache.state \in {"none", "whole"} /\ disk.state \in {"none", "whole"}

PublicationInv ==
    /\ Untorn
    /\ \A p \in Proc : Published(call[p], Held(p), cache, disk)

Inv == TypeOK /\ LockInv /\ PublicationInv

-----------------------------------------------------------------------------
\* A step that leaves the cache alone need only keep the acting call's part.
LEMMA PublicationFrame ==
    ASSUME Inv, NEW p \in Proc, NEW c, Becomes(p, c), UNCHANGED paths,
           Published(c, lock' = p, cache, disk),
           \A q \in Proc : q # p => (lock' = q <=> lock = q)
    PROVE  PublicationInv'
<1> USE DEF Inv
<1>1. Untorn'
  BY DEF PublicationInv, Untorn, paths
<1>2. cache' = cache /\ disk' = disk
  BY DEF paths
<1> SUFFICES ASSUME NEW q \in Proc PROVE Published(call'[q], lock' = q, cache', disk')
  BY <1>1 DEF PublicationInv, Held
<1>3. CASE q = p
  BY <1>2, <1>3 DEF Becomes, TypeOK
<1>4. CASE q # p
  <2>1. call'[q] = call[q] /\ Published(call[q], lock = q, cache, disk)
    BY <1>4 DEF Becomes, TypeOK, PublicationInv, Held
  <2> QED
    BY <1>2, <1>4, <2>1 DEF Published
<1> QED
  BY <1>3, <1>4

\* A step of the lock's owner may change the cache: no other call relies on it.
LEMMA OwnerFrame ==
    ASSUME Inv, NEW p \in Proc, NEW c, Becomes(p, c), Held(p), UNCHANGED lock, Untorn',
           Published(c, TRUE, cache', disk')
    PROVE  PublicationInv'
<1> USE DEF Inv
<1> SUFFICES ASSUME NEW q \in Proc PROVE Published(call'[q], lock' = q, cache', disk')
  BY DEF PublicationInv, Held
<1>1. CASE q = p
  <2>1. call'[q] = c /\ lock' = q
    BY <1>1 DEF Becomes, TypeOK, Held
  <2> QED
    BY <2>1
<1>2. CASE q # p
  <2>1. /\ call'[q] = call[q] /\ Published(call[q], lock = q, cache, disk)
        /\ Ownership(call[q], lock = q) /\ lock # q /\ lock' # q
    BY <1>2 DEF Becomes, TypeOK, PublicationInv, LockInv, Held
  <2> QED
    BY <2>1 DEF Published, Ownership
<1> QED
  BY <1>1, <1>2

LEMMA LeavePublication ==
    ASSUME Inv, NEW p \in Proc, NEW r, Leave(p, r), UNCHANGED lock, UNCHANGED paths,
           r # "saved",
           r = "reused" /\ Held(p) => cache = Own(call[p])
    PROVE  PublicationInv'
<1> DEFINE c == call[p]
           d == [c EXCEPT !.pc = "release", !.ret = r, !.temp = "none", !.todo = {},
                          !.loaded = Nothing, !.since = Nothing, !.live = NoContents]
<1>1. c \in Call
  BY DEF Inv, TypeOK
<1>2. CASE Held(p)
  <2>1. Becomes(p, d) /\ (r = "reused" => cache = Own(c))
    BY <1>2 DEF Leave
  <2> HIDE DEF c
  <2>2. /\ d.pc = "release" /\ d.ret = r /\ d.temp = "none"
        /\ d.policy = c.policy /\ d.cap = c.cap
    BY <1>1 DEF Call
  <2> HIDE DEF d
  <2>3. Published(d, lock' = p, cache, disk)
    BY <2>1, <2>2 DEF Published, Own
  <2> QED
    BY <2>1, <2>3, PublicationFrame
<1>3. CASE ~Held(p)
  <2>1. Becomes(p, Idle(r))
    BY <1>3 DEF Leave
  <2>2. Idle(r).pc = "idle" /\ Idle(r).temp = "none"
    BY DEF Idle
  <2>3. Published(Idle(r), lock' = p, cache, disk)
    BY <2>2 DEF Published
  <2> QED
    BY <2>1, <2>3, PublicationFrame
<1> QED
  BY <1>2, <1>3

\* A call that moves on to a point that relies on nothing about the cache.
LEMMA MovePublication ==
    ASSUME Inv, NEW p \in Proc, NEW d, Becomes(p, d), UNCHANGED paths,
           \A q \in Proc : q # p => (lock' = q <=> lock = q),
           d.pc \notin {"check", "validate", "revalidate", "sync", "release"},
           d.temp \in {"none", "torn", "whole"}
    PROVE  PublicationInv'
<1>1. Published(d, lock' = p, cache, disk)
  BY DEF Published
<1> QED
  BY <1>1, PublicationFrame

\* A call that stays where it is, and reads one more input.
LEMMA StayPublication ==
    ASSUME Inv, NEW p \in Proc, NEW d, Becomes(p, d), UNCHANGED paths, UNCHANGED lock,
           d.pc = call[p].pc, d.temp = call[p].temp, d.ret = call[p].ret,
           d.policy = call[p].policy, d.loaded = call[p].loaded,
           d.cap = call[p].cap \/ d.pc \in {"scan", "fallback"}
    PROVE  PublicationInv'
<1>1. Published(call[p], Held(p), cache, disk)
  BY DEF Inv, PublicationInv
<1>2. Published(d, lock' = p, cache, disk)
  BY <1>1 DEF Published, Held, Own
<1> QED
  BY <1>2, PublicationFrame

LEMMA MissPublication ==
    ASSUME Inv, NEW p \in Proc, Miss(p), UNCHANGED lock, UNCHANGED paths
    PROVE  PublicationInv'
<1> DEFINE next == IF ~Held(p) THEN "open"
                   ELSE IF call[p].op = "scan_cached" THEN "scan" ELSE "begin"
           c == call[p]
           d == [c EXCEPT !.pc = next, !.todo = IF next = "scan" THEN Input ELSE {},
                          !.loaded = Nothing, !.since = Nothing, !.live = NoContents]
<1>1. c \in Call /\ c.temp \in {"none", "torn", "whole"}
  BY DEF Inv, TypeOK, PublicationInv, Published
<1>2. Becomes(p, d)
  BY DEF Miss
<1>3. next \in {"open", "scan", "begin"}
  OBVIOUS
<1> HIDE DEF c, next
<1>4. d.pc = next /\ d.temp = c.temp
  BY <1>1 DEF Call
<1> HIDE DEF d
<1> QED
  BY <1>1, <1>2, <1>3, <1>4, MovePublication

LEMMA WithoutCachePublication ==
    ASSUME Inv, NEW p \in Proc, WithoutCache(p), UNCHANGED lock, UNCHANGED paths
    PROVE  PublicationInv'
<1> DEFINE c == call[p]
           d == [c EXCEPT !.pc = "fallback", !.todo = Input]
<1>1. c \in Call /\ c.temp \in {"none", "torn", "whole"}
  BY DEF Inv, TypeOK, PublicationInv, Published
<1>2. Leave(p, "unsaved") \/ Becomes(p, d)
  BY DEF WithoutCache
<1> HIDE DEF c
<1>3. d.pc = "fallback" /\ d.temp = c.temp
  BY <1>1 DEF Call
<1> HIDE DEF d
<1> QED
  BY <1>1, <1>2, <1>3, MovePublication, LeavePublication

-----------------------------------------------------------------------------
LEMMA StepPublication ==
    ASSUME Inv, NEW p \in Proc, Step(p)
    PROVE  PublicationInv'
<1> DEFINE c == call[p]
<1>c. /\ c \in Call /\ cache \in Entry /\ lock \in Proc \cup {Nobody, Heir} /\ Nobody \notin Proc
      /\ c.temp \in {"none", "torn", "whole"}
      /\ Ownership(c, Held(p)) /\ Published(c, Held(p), cache, disk) /\ Untorn
  BY ProtocolAssumption DEF Inv, TypeOK, LockInv, PublicationInv, Published
<1>1. CASE ReadCache(p)
  <2> DEFINE l == [i \in Input |-> {file[i].bytes}]
             d == [c EXCEPT !.pc = "check", !.loaded = cache.proof, !.todo = Input,
                            !.since = file, !.live = l]
  <2>1. /\ Miss(p) \/ (Decodes(cache, c.policy) /\ Becomes(p, d))
        /\ UNCHANGED lock /\ UNCHANGED paths
    BY <1>1 DEF ReadCache
  <2> HIDE DEF l, c
  <2>2. d.pc = "check" /\ d.temp = c.temp /\ d.policy = c.policy /\ d.loaded = cache.proof
    BY <1>c DEF Call
  <2> HIDE DEF d
  <2>3. Decodes(cache, c.policy) => Published(d, lock' = p, cache, disk)
    BY <1>c, <2>2 DEF Decodes, Untorn, Published
  <2> QED
    BY <2>1, <2>3, MissPublication, PublicationFrame
<1>2. CASE Hit(p)
  <2> DEFINE d == [c EXCEPT !.pc = "revalidate", !.todo = Input]
             e == [c EXCEPT !.pc = "begin", !.loaded = Nothing, !.live = NoContents]
  <2>1. /\ \/ c.op = "scan_cached" /\ Leave(p, "hit")
           \/ c.op = "save_cache" /\ c.loaded = c.cap /\ Leave(p, "reused")
           \/ c.op = "save_cache" /\ c.loaded = c.cap /\ Becomes(p, d)
           \/ Becomes(p, e)
        /\ c.pc = "check" /\ UNCHANGED lock /\ UNCHANGED paths
    BY <1>2 DEF Hit
  <2>2. c.op = "save_cache" /\ c.loaded = c.cap => Held(p) /\ cache = Own(c)
    <3> HIDE DEF c
    <3> QED
      BY <1>c, <2>1 DEF Ownership, Published, Own, Entry
  <2> HIDE DEF c
  <2>3. /\ d.pc = "revalidate" /\ d.temp = c.temp /\ d.policy = c.policy /\ d.cap = c.cap
        /\ e.pc = "begin" /\ e.temp = c.temp
    BY <1>c DEF Call
  <2> HIDE DEF d, e
  <2>4. cache = Own(c) => Published(d, lock' = p, cache, disk)
    BY <1>c, <2>3 DEF Published, Own
  <2>5. CASE Becomes(p, e)
    BY <1>c, <2>1, <2>3, <2>5, MovePublication
  <2> QED
    BY <2>1, <2>2, <2>4, <2>5, LeavePublication, PublicationFrame DEF c
<1>3. CASE OpenLock(p)
  <2> DEFINE d == [c EXCEPT !.pc = "acquire", !.polls = MaxPolls]
  <2>1. /\ WithoutCache(p) \/ Becomes(p, d)
        /\ UNCHANGED lock /\ UNCHANGED paths
    BY <1>3 DEF OpenLock
  <2> HIDE DEF c
  <2>2. d.pc = "acquire" /\ d.temp = c.temp
    BY <1>c DEF Call
  <2> HIDE DEF d
  <2> QED
    BY <1>c, <2>1, <2>2, WithoutCachePublication, MovePublication
<1>4. CASE Acquire(p)
  <2> DEFINE d == [c EXCEPT !.pc = "read", !.polls = MaxPolls]
  <2>1. Becomes(p, d) /\ lock = Nobody /\ lock' = p /\ UNCHANGED paths
    BY <1>4 DEF Acquire
  <2> HIDE DEF c
  <2>2. d.pc = "read" /\ d.temp = c.temp
    BY <1>c DEF Call
  <2> HIDE DEF d
  <2> QED
    BY <1>c, <2>1, <2>2, MovePublication
<1>5. CASE Poll(p)
  <2> DEFINE d == [c EXCEPT !.polls = @ - 1]
  <2>1. /\ WithoutCache(p) \/ Becomes(p, d)
        /\ c.pc = "acquire" /\ UNCHANGED lock /\ UNCHANGED paths
    BY <1>5 DEF Poll
  <2> HIDE DEF c
  <2>2. d.pc = c.pc /\ d.temp = c.temp
    BY <1>c DEF Call
  <2> HIDE DEF d
  <2> QED
    BY <1>c, <2>1, <2>2, WithoutCachePublication, MovePublication
<1>6. CASE AcquireFails(p)
  BY <1>6, WithoutCachePublication DEF AcquireFails
<1>7. CASE Release(p)
  <2> DEFINE d == [c EXCEPT !.pc = "fallback", !.todo = Input, !.ret = "none"]
  <2>1. /\ Becomes(p, d) \/ Becomes(p, Idle(c.ret))
        /\ c.pc = "release" /\ lock' = Nobody /\ UNCHANGED paths
    BY <1>7 DEF Release
  <2>2. lock = p
    BY <1>c, <2>1 DEF Ownership, Held
  <2> HIDE DEF c
  <2>3. d.pc = "fallback" /\ d.temp = c.temp /\ Idle(c.ret).pc = "idle" /\ Idle(c.ret).temp = "none"
    BY <1>c DEF Call, Idle
  <2> HIDE DEF d
  <2> QED
    BY <1>c, <2>1, <2>2, <2>3, MovePublication
<1>8. CASE FinishScan(p)
  <2> DEFINE next == IF c.op = "scan_cached" THEN "begin" ELSE "open"
             d == [c EXCEPT !.pc = next]
  <2>1. /\ Leave(p, "unsaved") \/ Becomes(p, d)
        /\ UNCHANGED lock /\ UNCHANGED paths
    BY <1>8 DEF FinishScan
  <2>2. next \in {"begin", "open"}
    OBVIOUS
  <2> HIDE DEF c, next
  <2>3. d.pc = next /\ d.temp = c.temp
    BY <1>c DEF Call
  <2> HIDE DEF d
  <2> QED
    BY <1>c, <2>1, <2>2, <2>3, LeavePublication, MovePublication
<1>9. CASE FinishFallback(p)
  BY <1>9, LeavePublication DEF FinishFallback
<1>10. CASE FinishRevalidate(p)
  <2>1. cache = Own(c)
    BY <1>c, <1>10 DEF FinishRevalidate, Published
  <2> QED
    BY <1>10, <2>1, LeavePublication DEF FinishRevalidate
<1>11. CASE BeginWrite(p)
  <2> DEFINE d == [c EXCEPT !.pc = "write", !.temp = "torn", !.since = file]
  <2>1. /\ Leave(p, "unsaved") \/ Becomes(p, d)
        /\ UNCHANGED lock /\ UNCHANGED paths
    BY <1>11 DEF BeginWrite
  <2> HIDE DEF c
  <2>2. d.pc = "write" /\ d.temp = "torn"
    BY <1>c DEF Call
  <2> HIDE DEF d
  <2> QED
    BY <2>1, <2>2, LeavePublication, MovePublication
<1>12. CASE FinishWrite(p)
  <2> DEFINE d == [c EXCEPT !.pc = "validate", !.temp = "whole", !.todo = Input]
  <2>1. /\ Leave(p, "unsaved") \/ Becomes(p, d)
        /\ UNCHANGED lock /\ UNCHANGED paths
    BY <1>12 DEF FinishWrite
  <2> HIDE DEF c
  <2>2. d.pc = "validate" /\ d.temp = "whole"
    BY <1>c DEF Call
  <2> HIDE DEF d
  <2>3. Published(d, lock' = p, cache, disk)
    BY <2>2 DEF Published
  <2> QED
    BY <2>1, <2>3, LeavePublication, PublicationFrame
<1>13. CASE Replace(p)
  <2> DEFINE d == [c EXCEPT !.pc = "sync", !.temp = "none"]
             e == [state |-> c.temp, policy |-> c.policy, proof |-> c.cap]
  <2>1. /\ \/ Leave(p, "unsaved") /\ UNCHANGED cache
           \/ Becomes(p, d) /\ cache' = e
        /\ c.pc = "validate" /\ UNCHANGED lock /\ UNCHANGED disk
    BY <1>13 DEF Replace
  <2>2. Held(p) /\ c.temp = "whole"
    BY <1>c, <2>1 DEF Ownership, Published
  <2> HIDE DEF c
  <2>3. d.pc = "sync" /\ d.temp = "none" /\ d.policy = c.policy /\ d.cap = c.cap
    BY <1>c DEF Call
  <2> HIDE DEF d
  <2>4. CASE Leave(p, "unsaved") /\ UNCHANGED cache
    BY <2>1, <2>4, LeavePublication DEF paths
  <2>5. CASE Becomes(p, d) /\ cache' = e
    <3>1. Untorn' /\ Published(d, TRUE, cache', disk')
      BY <1>c, <2>1, <2>2, <2>3, <2>5 DEF Untorn, Published, Own
    <3> QED
      BY <2>1, <2>2, <2>5, <3>1, OwnerFrame
  <2> QED
    BY <2>1, <2>4, <2>5
<1>14. CASE SyncDirectory(p)
  <2> DEFINE d == [c EXCEPT !.pc = "release", !.ret = "saved", !.temp = "none", !.todo = {},
                            !.loaded = Nothing, !.since = Nothing, !.live = NoContents]
  <2>1. /\ \/ disk' = cache /\ Leave(p, "saved")
           \/ Leave(p, "unsaved") /\ UNCHANGED disk
        /\ c.pc = "sync" /\ UNCHANGED lock /\ UNCHANGED cache
    BY <1>14 DEF SyncDirectory
  <2>2. Held(p) /\ cache = Own(c)
    BY <1>c, <2>1 DEF Ownership, Published
  <2>3. Leave(p, "saved") => Becomes(p, d)
    BY <2>2 DEF Leave
  <2> HIDE DEF c
  <2>4. /\ d.pc = "release" /\ d.temp = "none" /\ d.policy = c.policy /\ d.cap = c.cap
    BY <1>c DEF Call
  <2> HIDE DEF d
  <2>5. CASE Leave(p, "unsaved") /\ UNCHANGED disk
    BY <2>1, <2>5, LeavePublication DEF paths
  <2>6. CASE disk' = cache /\ Leave(p, "saved")
    <3>1. Untorn' /\ Published(d, TRUE, cache', disk')
      BY <1>c, <2>1, <2>2, <2>4, <2>6 DEF Untorn, Published, Own
    <3> QED
      BY <2>1, <2>2, <2>3, <2>6, <3>1, OwnerFrame
  <2> QED
    BY <2>1, <2>5, <2>6
<1>15. ASSUME NEW i \in Input, CheckInput(p, i) \/ ValidateInput(p, i) PROVE PublicationInv'
  <2> DEFINE d == [c EXCEPT !.todo = @ \ {i}]
  <2>1. /\ \/ Miss(p)
           \/ \E r \in {"changed", "unsaved", "error"} : Leave(p, r)
           \/ Becomes(p, d)
        /\ UNCHANGED lock /\ UNCHANGED paths
    BY <1>15 DEF CheckInput, ValidateInput
  <2> HIDE DEF c
  <2>2. /\ d.pc = c.pc /\ d.temp = c.temp /\ d.ret = c.ret /\ d.policy = c.policy
        /\ d.loaded = c.loaded /\ d.cap = c.cap
    BY <1>c DEF Call
  <2> HIDE DEF d
  <2> QED
    BY <2>1, <2>2, LeavePublication, MissPublication, StayPublication DEF c
<1>16. ASSUME NEW i \in Input, Capture(p, i) \/ CaptureFails(p, i) PROVE PublicationInv'
  <2> DEFINE s == file[i]
             d == [c EXCEPT !.cap[i] = s, !.todo = @ \ {i}]
             e == [c EXCEPT !.cap[i] = s, !.todo = @ \ {i}, !.unavailable = TRUE]
  <2>1. /\ \/ \E r \in {"changed", "rescan", "error"} : Leave(p, r)
           \/ Becomes(p, d) \/ Becomes(p, e)
        /\ UNCHANGED lock /\ UNCHANGED paths /\ c.pc \in {"scan", "fallback"}
    BY <1>16 DEF Capture, CaptureFails
  <2> HIDE DEF c, s
  <2>2. d.pc = c.pc /\ d.temp = c.temp /\ e.pc = c.pc /\ e.temp = c.temp
    BY <1>c DEF Call
  <2> HIDE DEF d, e
  <2> QED
    BY <1>c, <2>1, <2>2, LeavePublication, MovePublication
<1> QED
  BY <1>1, <1>2, <1>3, <1>4, <1>5, <1>6, <1>7, <1>8, <1>9, <1>10, <1>11, <1>12, <1>13, <1>14,
     <1>15, <1>16 DEF Step

LEMMA StartPublication ==
    ASSUME Inv, NEW p \in Proc, NEW op \in Ops, NEW policy \in Policies, Start(p, op, policy)
    PROVE  PublicationInv'
<1> DEFINE pc == IF op = "scan_cached" THEN "read" ELSE "scan"
           d == [Idle("none") EXCEPT !.op = op, !.policy = policy, !.pc = pc,
                                     !.todo = IF op = "scan_cached" THEN {} ELSE Input]
<1>1. Becomes(p, d) /\ UNCHANGED lock /\ UNCHANGED paths
  BY DEF Start
<1>2. pc \in {"read", "scan"}
  OBVIOUS
<1> HIDE DEF pc
<1>3. d.pc = pc /\ d.temp = "none"
  BY DEF Idle
<1> HIDE DEF d
<1> QED
  BY <1>1, <1>2, <1>3, MovePublication

\* No failure leaves a torn file at the cache path: what was moved there had been
\* synced, so the old and the new directory entry are both whole.
LEMMA FailurePublication ==
    ASSUME Inv, Failure
    PROVE  PublicationInv'
<1>1. Idle("none").pc = "idle" /\ Idle("none").temp = "none"
  BY DEF Idle
<1>2. CASE PowerLoss
  <2>1. Untorn /\ call' = [p \in Proc |-> Idle("none")] /\ disk' = cache'
    BY <1>2 DEF PowerLoss, Inv, PublicationInv
  <2>2. cache' \in {cache, disk}
    BY <1>2, <2>1 DEF PowerLoss, Untorn
  <2>3. Untorn'
    BY <2>1, <2>2 DEF Untorn
  <2>4. ASSUME NEW p \in Proc PROVE Published(call'[p], Held(p)', cache', disk')
    BY <1>1, <2>1 DEF Published
  <2> QED
    BY <2>3, <2>4 DEF PublicationInv
<1>3. ASSUME NEW p \in Proc, Interrupt(p) PROVE PublicationInv'
  BY <1>3, LeavePublication DEF Interrupt
<1>4. ASSUME NEW p \in Proc, Crash(p) PROVE PublicationInv'
  <2>1. /\ Becomes(p, Idle("none")) /\ lock' \in IF Held(p) THEN {Nobody, Heir} ELSE {lock}
        /\ UNCHANGED paths
    BY <1>4 DEF Crash
  <2> QED
    BY <1>1, <2>1, MovePublication, ProtocolAssumption DEF Held
<1>5. ASSUME NEW p \in Proc, ReleaseFails(p) PROVE PublicationInv'
  <2>1. Published(call[p], Held(p), cache, disk) /\ Ownership(call[p], Held(p))
    BY DEF Inv, PublicationInv, LockInv
  <2>2. PICK d \in Call : /\ Becomes(p, d) /\ d.pc \in {"idle", "fallback"}
                          /\ d.temp \in {"none", call[p].temp}
    BY <1>5, Unreleased DEF Inv
  <2>3. lock = p /\ lock' \in {Nobody, Heir} /\ UNCHANGED paths
    BY <1>5, <2>1 DEF ReleaseFails, Ownership, Held, paths
  <2>4. d.temp \in {"none", "torn", "whole"}
    BY <2>1, <2>2 DEF Published
  <2> QED
    BY <2>2, <2>3, <2>4, MovePublication, ProtocolAssumption
<1>6. CASE HeirLetsGo
  BY <1>6, ProtocolAssumption DEF HeirLetsGo, Inv, PublicationInv, Untorn, Held, TypeOK, paths
<1> QED
  BY <1>2, <1>3, <1>4, <1>5, <1>6 DEF Failure

LEMMA ChangePublication ==
    ASSUME Inv, NEW i \in Input, NEW s, SetFile(i, s)
    PROVE  PublicationInv'
<1>1. Untorn' /\ cache' = cache /\ disk' = disk /\ lock' = lock
  BY DEF SetFile, paths, Inv, PublicationInv, Untorn
<1> SUFFICES ASSUME NEW p \in Proc PROVE Published(call'[p], lock' = p, cache', disk')
  BY <1>1 DEF PublicationInv, Held
<1> DEFINE c == call[p]
           l == IF c.pc = "check" THEN c.live[i] \cup {s.bytes} ELSE {}
           d == [c EXCEPT !.dirty = TRUE, !.live[i] = l]
<1>2. c \in Call /\ Published(c, lock = p, cache, disk)
  BY DEF Inv, TypeOK, PublicationInv, Held
<1>3. call'[p] = c \/ call'[p] = d
  BY DEF SetFile
<1> HIDE DEF c, l
<1>4. /\ d.pc = c.pc /\ d.temp = c.temp /\ d.ret = c.ret /\ d.policy = c.policy
      /\ d.loaded = c.loaded /\ d.cap = c.cap
  BY <1>2 DEF Call
<1> HIDE DEF d
<1>5. Published(d, lock' = p, cache', disk') /\ Published(c, lock' = p, cache', disk')
  BY <1>1, <1>2, <1>4 DEF Published, Own
<1> QED
  BY <1>3, <1>5

LEMMA NextPublication == Inv /\ [Next]_vars => PublicationInv'
<1> SUFFICES ASSUME Inv, [Next]_vars PROVE PublicationInv'
  OBVIOUS
<1>1. CASE UNCHANGED vars
  BY <1>1 DEF vars, Inv, PublicationInv, Untorn, Held, Published
<1>2. CASE Failure
  BY <1>2, FailurePublication
<1>3. ASSUME NEW i \in Input,
             RemoveInput(i) \/ \E b \in Bytes : WriteInput(i, b) \/ RestoreMtime(i, b)
      PROVE  PublicationInv'
  BY <1>3, ChangePublication DEF RemoveInput, WriteInput, RestoreMtime
<1>4. CASE \E p \in Proc : Step(p) \/ \E op \in Ops, policy \in Policies : Start(p, op, policy)
  BY <1>4, StepPublication, StartPublication
<1> QED
  BY <1>1, <1>2, <1>3, <1>4 DEF Next, Environment, Failure

LEMMA Invariance == Spec => []Inv
<1>1. Init => PublicationInv
  <2> SUFFICES ASSUME Init PROVE PublicationInv
    OBVIOUS
  <2>1. Untorn
    BY DEF Init, NoEntry, Untorn
  <2>2. ASSUME NEW p \in Proc PROVE Published(call[p], Held(p), cache, disk)
    BY DEF Init, Idle, Published
  <2> QED
    BY <2>1, <2>2 DEF PublicationInv
<1>2. Init => Inv
  BY <1>1, InitType, ProtocolAssumption DEF Init, Inv, LockInv, Ownership, Held, Idle
<1>3. Inv /\ [Next]_vars => Inv'
  BY NextType, NextLock, NextPublication DEF Inv
<1> QED
  BY <1>2, <1>3, PTL DEF Spec

\* The cache path never shows a partly written file, for any number of crashes
\* and power losses and any interleaving of writers.
THEOREM CacheIsNeverTorn == Spec => []NeverTorn
<1>1. Inv => NeverTorn
  BY DEF Inv, PublicationInv, Untorn, NeverTorn
<1> QED
  BY <1>1, Invariance, PTL

\* A call that reports saved or reused finds its own result at the cache path
\* until it releases the lock, and a save is then also what a power loss keeps.
THEOREM SaveIsPublished == Spec => []SavedMeansPublished
<1>1. Inv => SavedMeansPublished
  BY DEF Inv, PublicationInv, Published, Own, SavedMeansPublished
<1> QED
  BY <1>1, Invariance, PTL

-----------------------------------------------------------------------------
(* The second load *)

LEMMA LeavesScan ==
    ASSUME TypeOK, NEW p \in Proc,
           (\E r \in Returns : Leave(p, r)) \/ WithoutCache(p)
    PROVE  call'[p].pc # "scan"
<1> DEFINE c == call[p]
           e == [c EXCEPT !.pc = "fallback", !.todo = Input]
<1>1. c \in Call
  BY DEF TypeOK
<1>2. ASSUME NEW r \in Returns, Leave(p, r) PROVE call'[p].pc # "scan"
  <2> DEFINE d == [c EXCEPT !.pc = "release", !.ret = r, !.temp = "none", !.todo = {},
                            !.loaded = Nothing, !.since = Nothing, !.live = NoContents]
  <2>1. Becomes(p, d) \/ Becomes(p, Idle(r))
    BY <1>2 DEF Leave
  <2> HIDE DEF c
  <2>2. d.pc = "release" /\ Idle(r).pc = "idle"
    BY <1>1 DEF Call, Idle
  <2> HIDE DEF d
  <2> QED
    BY <2>1, <2>2 DEF Becomes, TypeOK
<1>3. CASE Becomes(p, e)
  <2> HIDE DEF c
  <2>1. e.pc = "fallback"
    BY <1>1 DEF Call
  <2> HIDE DEF e
  <2> QED
    BY <1>3, <2>1 DEF Becomes, TypeOK
<1> QED
  BY <1>2, <1>3 DEF WithoutCache, Returns

\* A call starts to scan under the lock only after a load that could not be used.
LEMMA ScanEntry ==
    ASSUME TypeOK, NEW p \in Proc, Step(p), call[p].pc # "scan", call'[p].pc = "scan"
    PROVE  /\ lock' = lock
           /\ \/ call[p].dirty \/ Fault
              \/ call[p].pc = "read" /\ ~Decodes(cache, call[p].policy)
              \/ /\ call[p].pc = "check"
                 /\ \E i \in Input :
                       ~Matches(call[p].loaded[i], file[i], call[p].policy = "content")
<1> DEFINE c == call[p]
<1>c. c \in Call /\ c.pc # "scan"
  BY DEF TypeOK
<1>b. \A d : Becomes(p, d) => d.pc = "scan"
  BY DEF Becomes, TypeOK
<1>1. CASE ReadCache(p)
  <2> DEFINE l == [i \in Input |-> {file[i].bytes}]
             d == [c EXCEPT !.pc = "check", !.loaded = cache.proof, !.todo = Input,
                            !.since = file, !.live = l]
  <2>1. /\ Becomes(p, d) \/ ~Decodes(cache, c.policy) \/ Fault
        /\ lock' = lock /\ c.pc = "read"
    BY <1>1 DEF ReadCache
  <2> HIDE DEF l, c
  <2>2. d.pc = "check"
    BY <1>c DEF Call
  <2> HIDE DEF d
  <2> QED
    BY <1>b, <2>1, <2>2 DEF c
<1>2. ASSUME NEW i \in Input, CheckInput(p, i)
      PROVE  /\ lock' = lock
             /\ \/ c.dirty \/ Fault
                \/ /\ c.pc = "check"
                   /\ ~Matches(c.loaded[i], file[i], c.policy = "content")
  <2> DEFINE d == [c EXCEPT !.todo = @ \ {i}]
  <2>1. /\ Becomes(p, d) \/ ~Matches(c.loaded[i], file[i], c.policy = "content")
              \/ c.dirty \/ Fault
        /\ lock' = lock /\ c.pc = "check"
    BY <1>2 DEF CheckInput, ReadTrouble
  <2> HIDE DEF c
  <2>2. d.pc = c.pc
    BY <1>c DEF Call
  <2> HIDE DEF d
  <2> QED
    BY <1>b, <1>c, <2>1, <2>2
<1>3. ~Hit(p)
  <2> SUFFICES ASSUME Hit(p) PROVE FALSE
    OBVIOUS
  <2> DEFINE d == [c EXCEPT !.pc = "revalidate", !.todo = Input]
             e == [c EXCEPT !.pc = "begin", !.loaded = Nothing, !.live = NoContents]
  <2>1. (\E r \in Returns : Leave(p, r)) \/ Becomes(p, d) \/ Becomes(p, e)
    BY DEF Hit, Returns
  <2> HIDE DEF c
  <2>2. d.pc = "revalidate" /\ e.pc = "begin"
    BY <1>c DEF Call
  <2> HIDE DEF d, e
  <2> QED
    BY <1>b, <2>1, <2>2, LeavesScan
<1>4. ~(OpenLock(p) \/ Acquire(p) \/ Poll(p) \/ AcquireFails(p))
  <2> SUFFICES ASSUME OpenLock(p) \/ Acquire(p) \/ Poll(p) \/ AcquireFails(p) PROVE FALSE
    OBVIOUS
  <2> DEFINE d == [c EXCEPT !.pc = "acquire", !.polls = MaxPolls]
             e == [c EXCEPT !.pc = "read", !.polls = MaxPolls]
             f == [c EXCEPT !.polls = @ - 1]
  <2>1. WithoutCache(p) \/ Becomes(p, d) \/ Becomes(p, e) \/ Becomes(p, f)
    BY DEF OpenLock, Acquire, Poll, AcquireFails
  <2> HIDE DEF c
  <2>2. d.pc = "acquire" /\ e.pc = "read" /\ f.pc = c.pc
    BY <1>c DEF Call
  <2> HIDE DEF d, e, f
  <2> QED
    BY <1>b, <1>c, <2>1, <2>2, LeavesScan
<1>5. ~Release(p)
  <2> SUFFICES ASSUME Release(p) PROVE FALSE
    OBVIOUS
  <2> DEFINE d == [c EXCEPT !.pc = "fallback", !.todo = Input, !.ret = "none"]
  <2>1. Becomes(p, d) \/ Becomes(p, Idle(c.ret))
    BY DEF Release
  <2> HIDE DEF c
  <2>2. d.pc = "fallback" /\ Idle(c.ret).pc = "idle"
    BY <1>c DEF Call, Idle
  <2> HIDE DEF d
  <2> QED
    BY <1>b, <2>1, <2>2
<1>6. ~(BeginWrite(p) \/ FinishWrite(p) \/ Replace(p))
  <2> SUFFICES ASSUME BeginWrite(p) \/ FinishWrite(p) \/ Replace(p) PROVE FALSE
    OBVIOUS
  <2> DEFINE d == [c EXCEPT !.pc = "write", !.temp = "torn", !.since = file]
             e == [c EXCEPT !.pc = "validate", !.temp = "whole", !.todo = Input]
             f == [c EXCEPT !.pc = "sync", !.temp = "none"]
  <2>1. (\E r \in Returns : Leave(p, r)) \/ Becomes(p, d) \/ Becomes(p, e) \/ Becomes(p, f)
    BY DEF BeginWrite, FinishWrite, Replace, Returns
  <2> HIDE DEF c
  <2>2. d.pc = "write" /\ e.pc = "validate" /\ f.pc = "sync"
    BY <1>c DEF Call
  <2> HIDE DEF d, e, f
  <2> QED
    BY <1>b, <2>1, <2>2, LeavesScan
<1>7. ~(FinishFallback(p) \/ FinishRevalidate(p) \/ SyncDirectory(p))
  BY LeavesScan DEF FinishFallback, FinishRevalidate, SyncDirectory, Returns
<1>8. ASSUME NEW i \in Input PROVE ~ValidateInput(p, i)
  <2> SUFFICES ASSUME ValidateInput(p, i) PROVE FALSE
    OBVIOUS
  <2> DEFINE d == [c EXCEPT !.todo = @ \ {i}]
  <2>1. (\E r \in Returns : Leave(p, r)) \/ Becomes(p, d)
    BY DEF ValidateInput, Returns
  <2> HIDE DEF c
  <2>2. d.pc = c.pc
    BY <1>c DEF Call
  <2> HIDE DEF d
  <2> QED
    BY <1>b, <1>c, <2>1, <2>2, LeavesScan
<1>9. ~FinishScan(p) /\ \A i \in Input : ~CaptureFails(p, i)
  BY <1>c DEF FinishScan, CaptureFails
<1>10. ASSUME NEW i \in Input PROVE ~Capture(p, i)
  <2> SUFFICES ASSUME Capture(p, i) PROVE FALSE
    OBVIOUS
  <2> DEFINE s == file[i]
             d == [c EXCEPT !.cap[i] = s, !.todo = @ \ {i}]
  <2>1. Becomes(p, d)
    BY DEF Capture
  <2> HIDE DEF c, s
  <2>2. d.pc = c.pc
    BY <1>c DEF Call
  <2> HIDE DEF d
  <2> QED
    BY <1>b, <1>c, <2>1, <2>2
<1> QED
  BY <1>1, <1>2, <1>3, <1>4, <1>5, <1>6, <1>7, <1>8, <1>9, <1>10 DEF Step

\* A change of the dataset moves no call on.
LEMMA ChangeStays ==
    ASSUME TypeOK, NEW i \in Input, NEW s, SetFile(i, s), NEW p \in Proc
    PROVE  call'[p].pc = call[p].pc
<1> DEFINE c == call[p]
           l == IF c.pc = "check" THEN c.live[i] \cup {s.bytes} ELSE {}
           d == [c EXCEPT !.dirty = TRUE, !.live[i] = l]
<1>1. c \in Call
  BY DEF TypeOK
<1>2. call'[p] = c \/ call'[p] = d
  BY DEF SetFile
<1> HIDE DEF c, l
<1>3. d.pc = c.pc
  BY <1>1 DEF Call
<1> HIDE DEF d
<1> QED
  BY <1>2, <1>3 DEF c

\* For any number of processes: nobody scans a second time under the lock what the
\* writer it waited for has already published, unless something changed or failed.
THEOREM ScansAreNotRepeated == Spec => NoRepeatedScan
<1>1. ASSUME Inv, Next, NEW p \in Proc, call[p].pc # "scan", call'[p].pc = "scan",
             lock' = p, ~call[p].dirty, faults' = 0, Decodes(cache, call[p].policy)
      PROVE  \E i \in Input : ~Matches(cache.proof[i], file[i], call[p].policy = "content")
  <2> USE DEF Inv
  <2>1. CASE Step(p)
    <3>1. ~Fault
      BY <1>1, ProtocolAssumption DEF Fault, TypeOK
    <3>2. /\ Held(p) /\ call[p].pc = "check"
          /\ \E i \in Input : ~Matches(call[p].loaded[i], file[i], call[p].policy = "content")
      BY <1>1, <2>1, <3>1, ScanEntry DEF Held
    <3>3. cache.proof = call[p].loaded
      BY <1>1, <3>2 DEF PublicationInv, Published
    <3> QED
      BY <3>2, <3>3
  <2>2. ASSUME NEW q \in Proc, q # p, Step(q) PROVE FALSE
    <3>1. \E c : Becomes(q, c)
      BY <1>1, <2>2, StepBecomes
    <3> QED
      BY <1>1, <2>2, <3>1 DEF Becomes, TypeOK
  <2>3. ASSUME NEW q \in Proc, NEW op \in Ops, NEW policy \in Policies, Start(q, op, policy)
        PROVE  FALSE
    <3>1. \E c : Becomes(q, c)
      BY <2>3 DEF Start
    <3>2. q = p
      BY <1>1, <3>1 DEF Becomes, TypeOK
    <3> QED
      BY <1>1, <2>3, <3>2 DEF Start, LockInv, Ownership, Held
  <2>4. ASSUME Failure PROVE FALSE
    <3>1. CASE HeirLetsGo
      BY <1>1, <3>1 DEF HeirLetsGo
    <3>2. CASE ~HeirLetsGo
      <4>1. Fault
        BY <2>4, <3>2 DEF Failure, PowerLoss, Interrupt, ReleaseFails, Crash
      <4> QED
        BY <1>1, <4>1, ProtocolAssumption DEF Fault, TypeOK
    <3> QED
      BY <3>1, <3>2
  <2>5. ASSUME NEW i \in Input, NEW s, SetFile(i, s) PROVE FALSE
    BY <1>1, <2>5, ChangeStays
  <2> QED
    BY <1>1, <2>1, <2>2, <2>3, <2>4, <2>5
       DEF Next, Environment, Failure, RemoveInput, WriteInput, RestoreMtime
<1>2. Inv /\ [Next]_vars =>
         \A p \in Proc :
            (call[p].pc # "scan" /\ call'[p].pc = "scan" /\ lock' = p /\ ~call[p].dirty /\ faults' = 0)
            => ~ (/\ Decodes(cache, call[p].policy)
                  /\ \A i \in Input : Matches(cache.proof[i], file[i], call[p].policy = "content"))
  <2> SUFFICES ASSUME Inv, [Next]_vars, NEW p \in Proc,
                      call[p].pc # "scan", call'[p].pc = "scan", lock' = p, ~call[p].dirty,
                      faults' = 0, Decodes(cache, call[p].policy)
               PROVE  \E i \in Input :
                         ~Matches(cache.proof[i], file[i], call[p].policy = "content")
    OBVIOUS
  <2>1. Next
    BY DEF vars
  <2> QED
    BY <1>1, <2>1
<1> QED
  BY <1>2, Invariance, PTL DEF Spec, NoRepeatedScan

-----------------------------------------------------------------------------
(* 3. Snapshots *)

(* The invariant *)

\* No file was ever stamped as s records it and holds something else: had the file
\* changed since, its modification time would have moved past the one recorded.
Genuine(s, f, w) ==
    \A i \in Input :
        /\ s[i].mtime <= w + 1
        /\ (s[i].kind = "file" /\ f[i].kind = "file" /\ s[i].mtime = f[i].mtime) => s[i] = f[i]

\* A file that is not what it was in g is gone, or was written after s recorded it.
Since(s, g, f) ==
    \A i \in Input : f[i] = g[i] \/ f[i].kind = "missing" \/ s[i].mtime < f[i].mtime

\* The inputs read so far were in g what s records of them.
Seen(s, g, todo) == \A i \in Input \ todo : s[i].kind = "file" => g[i] = s[i]

\* A call's snapshots, as long as rewritten files get new modification times.
Instant(c, f, w) ==
    /\ Genuine(c.loaded, f, w) /\ Genuine(c.cap, f, w)
    /\ c.pc = "check" => Since(c.loaded, c.since, f) /\ Seen(c.loaded, c.since, c.todo)
    /\ c.pc \in {"write", "validate", "revalidate"} => Since(c.cap, c.since, f)
    /\ c.pc \in {"validate", "revalidate"} => Seen(c.cap, c.since, c.todo)

\* The contents a content load has compared were there since it began.
Lively(c, f) ==
    c.pc = "check" => \A i \in Input :
        /\ f[i].bytes \in c.live[i]
        /\ (c.policy = "content" /\ i \notin c.todo) => c.loaded[i].bytes \in c.live[i]

\* Where a call has the result of a complete scan.
Scanned(c) ==
    \/ c.pc \in {"begin", "write", "validate", "revalidate"}
    \/ c.op = "save_cache" /\ c.pc \in {"open", "acquire", "read", "check"}

\* Without a change of the dataset, what the scan captured is what is there.
Clean(c, f) ==
    ~c.dirty =>
        /\ c.pc = "scan" => \A i \in Input \ c.todo : c.cap[i] = f[i]
        /\ Scanned(c) => \A i \in Input : c.cap[i] = f[i]

Stamped(f, w) == \A i \in Input : f[i].mtime <= w + 1

SnapshotInv ==
    /\ \A p \in Proc : Lively(call[p], file) /\ Clean(call[p], file)
    /\ ~restored =>
          /\ Stamped(file, writes)
          /\ Genuine(cache.proof, file, writes) /\ Genuine(disk.proof, file, writes)
          /\ \A p \in Proc : Instant(call[p], file, writes)

-----------------------------------------------------------------------------
(* Steps of one call *)

\* One call's part of the invariant.
Holds(c) ==
    /\ Lively(c, file) /\ Clean(c, file)
    /\ ~restored => Instant(c, file, writes)

\* A step of p replaces an entry by another one or by its own result only.
Entries(p) ==
    /\ cache'.proof \in {cache.proof, disk.proof, call[p].cap}
    /\ disk'.proof \in {cache.proof, disk.proof}

LEMMA NothingIsGenuine == TypeOK => Genuine(Nothing, file, writes)
<1> SUFFICES ASSUME TypeOK, NEW i \in Input
             PROVE  Nothing[i].mtime <= writes + 1 /\ Nothing[i].kind # "file"
  BY DEF Genuine
<1>1. Nothing[i].mtime = 0 /\ Nothing[i].kind = "missing"
  BY DEF Nothing, Missing
<1>2. writes \in Nat
  BY ProtocolAssumption DEF TypeOK
<1> QED
  BY <1>1, <1>2

\* A step of one call keeps the invariant when it keeps its own part of it.
LEMMA CallFrame ==
    ASSUME TypeOK, SnapshotInv, NEW p \in Proc, NEW c, Becomes(p, c), UNCHANGED dataset,
           Entries(p), Holds(c)
    PROVE  SnapshotInv'
<1>1. file' = file /\ writes' = writes /\ restored' = restored
  BY DEF dataset
<1>2. ASSUME NEW q \in Proc
      PROVE  /\ Lively(call'[q], file) /\ Clean(call'[q], file)
             /\ ~restored => Instant(call'[q], file, writes)
  <2>1. call'[q] = c \/ call'[q] = call[q]
    BY DEF Becomes, TypeOK
  <2> QED
    BY <2>1 DEF Holds, SnapshotInv
<1>3. ASSUME ~restored
      PROVE  Genuine(cache'.proof, file, writes) /\ Genuine(disk'.proof, file, writes)
  <2>1. /\ Genuine(cache.proof, file, writes) /\ Genuine(disk.proof, file, writes)
        /\ Genuine(call[p].cap, file, writes)
    BY <1>3 DEF SnapshotInv, Instant
  <2>2. /\ \/ cache'.proof = cache.proof \/ cache'.proof = disk.proof
           \/ cache'.proof = call[p].cap
        /\ disk'.proof = cache.proof \/ disk'.proof = disk.proof
    BY DEF Entries
  <2> QED
    BY <2>1, <2>2
<1>4. ~restored => Stamped(file, writes)
  BY DEF SnapshotInv
<1> QED
  BY <1>1, <1>2, <1>3, <1>4 DEF SnapshotInv

\* A call that is neither reading inputs nor comparing them promises little.
LEMMA RestingHolds ==
    ASSUME NEW c, c.pc \in {"idle", "open", "acquire", "read", "sync", "release", "fallback"},
           c.pc \in {"open", "acquire", "read"} => Clean(c, file),
           ~restored => Genuine(c.loaded, file, writes) /\ Genuine(c.cap, file, writes)
    PROVE  Holds(c)
<1>1. Lively(c, file)
  BY DEF Lively
<1>2. Clean(c, file)
  BY DEF Clean, Scanned
<1>3. ~restored => Instant(c, file, writes)
  BY DEF Instant
<1> QED
  BY <1>1, <1>2, <1>3 DEF Holds

\* What a call that becomes idle or leaves through its finally clauses has.
LEMMA IdleHolds == ASSUME TypeOK, NEW r PROVE Holds(Idle(r))
<1>1. Idle(r).pc = "idle" /\ Idle(r).loaded = Nothing /\ Idle(r).cap = Nothing
  BY DEF Idle
<1> QED
  BY <1>1, NothingIsGenuine, RestingHolds

LEMMA LeaveSnapshot ==
    ASSUME TypeOK, SnapshotInv, NEW p \in Proc, NEW r, Leave(p, r), UNCHANGED dataset, Entries(p)
    PROVE  SnapshotInv'
<1> DEFINE c == call[p]
           d == [c EXCEPT !.pc = "release", !.ret = r, !.temp = "none", !.todo = {},
                          !.loaded = Nothing, !.since = Nothing, !.live = NoContents]
<1>1. c \in Call /\ (~restored => Genuine(c.cap, file, writes))
  BY DEF TypeOK, SnapshotInv, Instant
<1>2. CASE Held(p)
  <2>1. Becomes(p, d)
    BY <1>2 DEF Leave
  <2> HIDE DEF c
  <2>2. d.pc = "release" /\ d.loaded = Nothing /\ d.cap = c.cap
    BY <1>1 DEF Call
  <2> HIDE DEF d
  <2>3. Holds(d)
    BY <1>1, <2>2, NothingIsGenuine, RestingHolds
  <2> QED
    BY <2>1, <2>3, CallFrame
<1>3. CASE ~Held(p)
  <2>1. Becomes(p, Idle(r))
    BY <1>3 DEF Leave
  <2> QED
    BY <2>1, IdleHolds, CallFrame
<1> QED
  BY <1>2, <1>3

LEMMA MissSnapshot ==
    ASSUME TypeOK, SnapshotInv, NEW p \in Proc, call[p].pc \in {"read", "check"}, Miss(p),
           UNCHANGED dataset, Entries(p)
    PROVE  SnapshotInv'
<1> DEFINE next == IF ~Held(p) THEN "open"
                   ELSE IF call[p].op = "scan_cached" THEN "scan" ELSE "begin"
           c == call[p]
           todo == IF next = "scan" THEN Input ELSE {}
           d == [c EXCEPT !.pc = next, !.todo = todo,
                          !.loaded = Nothing, !.since = Nothing, !.live = NoContents]
<1>1. /\ c \in Call /\ c.op \in Ops /\ Clean(c, file)
      /\ ~restored => Genuine(c.cap, file, writes)
  BY DEF TypeOK, SnapshotInv, Instant, Call
<1>2. Becomes(p, d)
  BY DEF Miss
<1>3. /\ d.pc = next /\ d.op = c.op /\ d.cap = c.cap /\ d.loaded = Nothing
      /\ d.dirty = c.dirty /\ d.todo = todo
  <2> HIDE DEF c, next, todo
  <2> QED
    BY <1>1 DEF Call
<1>4. /\ next \in {"open", "scan", "begin"} /\ (next = "scan" => todo = Input)
      /\ next = "begin" => c.op = "save_cache"
  BY <1>1 DEF Ops
<1>5. c.pc \in {"read", "check"}
  OBVIOUS
<1> HIDE DEF c, d, next, todo
<1>6. Clean(d, file)
  BY <1>1, <1>3, <1>4, <1>5 DEF Clean, Scanned
<1>7. Lively(d, file)
  BY <1>3, <1>4 DEF Lively
<1>8. ~restored => Instant(d, file, writes)
  BY <1>1, <1>3, <1>4, NothingIsGenuine DEF Instant
<1> QED
  BY <1>2, <1>6, <1>7, <1>8, CallFrame DEF Holds

LEMMA WithoutCacheSnapshot ==
    ASSUME TypeOK, SnapshotInv, NEW p \in Proc, WithoutCache(p), UNCHANGED dataset, Entries(p)
    PROVE  SnapshotInv'
<1> DEFINE c == call[p]
           d == [c EXCEPT !.pc = "fallback", !.todo = Input]
<1>1. /\ c \in Call
      /\ ~restored => Genuine(c.loaded, file, writes) /\ Genuine(c.cap, file, writes)
  BY DEF TypeOK, SnapshotInv, Instant
<1>2. CASE Becomes(p, d)
  <2> HIDE DEF c
  <2>1. d.pc = "fallback" /\ d.loaded = c.loaded /\ d.cap = c.cap
    BY <1>1 DEF Call
  <2> HIDE DEF d
  <2>2. Holds(d)
    BY <1>1, <2>1, RestingHolds
  <2> QED
    BY <1>2, <2>2, CallFrame
<1>3. CASE Leave(p, "unsaved")
  BY <1>3, LeaveSnapshot
<1> QED
  BY <1>2, <1>3 DEF WithoutCache

\* An input that is there, genuine in the record and stamped as recorded is what
\* the record says, and was it at the instant g.
LEMMA MatchIsSeen ==
    ASSUME NEW s, NEW g, NEW todo, NEW i \in Input, file \in Snapshot, s \in Snapshot,
           Genuine(s, file, writes), Since(s, g, file), Seen(s, g, todo),
           s[i].kind = file[i].kind, s[i].mtime = file[i].mtime
    PROVE  Seen(s, g, todo \ {i})
<1> SUFFICES ASSUME NEW j \in Input \ (todo \ {i}), s[j].kind = "file" PROVE g[j] = s[j]
  BY DEF Seen
<1>1. CASE j # i
  BY <1>1 DEF Seen
<1>2. CASE j = i
  <2>1. s[i] = file[i]
    BY <1>2 DEF Genuine
  <2>2. file[i].kind = "file" /\ file[i].mtime \in Nat
    BY <1>2 DEF Snapshot, FileState
  <2>3. ~(s[i].mtime < file[i].mtime)
    BY <2>2
  <2>4. file[i] = g[i]
    BY <2>2, <2>3 DEF Since
  <2> QED
    BY <1>2, <2>1, <2>4
<1> QED
  BY <1>1, <1>2

LEMMA StepSnapshot ==
    ASSUME TypeOK, SnapshotInv, NEW p \in Proc, Step(p)
    PROVE  SnapshotInv'
<1> DEFINE c == call[p]
<1>c. /\ c \in Call /\ c.op \in Ops /\ Lively(c, file) /\ Clean(c, file)
      /\ ~restored => Instant(c, file, writes)
      /\ ~restored => Genuine(c.loaded, file, writes) /\ Genuine(c.cap, file, writes)
      /\ file \in Snapshot /\ c.loaded \in Snapshot /\ c.cap \in Snapshot
  BY DEF TypeOK, SnapshotInv, Instant, Call
<1>e. UNCHANGED paths => Entries(p)
  BY DEF paths, Entries
<1>1. CASE ReadCache(p)
  <2> DEFINE l == [i \in Input |-> {file[i].bytes}]
             d == [c EXCEPT !.pc = "check", !.loaded = cache.proof, !.todo = Input,
                            !.since = file, !.live = l]
  <2>1. /\ Miss(p) \/ Becomes(p, d)
        /\ c.pc = "read" /\ UNCHANGED dataset /\ UNCHANGED paths
    BY <1>1 DEF ReadCache, dataset, paths
  <2>2. \A i \in Input : file[i].bytes \in l[i]
    OBVIOUS
  <2> HIDE DEF l, c
  <2>3. /\ d.pc = "check" /\ d.op = c.op /\ d.loaded = cache.proof /\ d.todo = Input
        /\ d.since = file /\ d.live = l /\ d.cap = c.cap /\ d.dirty = c.dirty
    BY <1>c DEF Call
  <2> HIDE DEF d
  <2>4. Lively(d, file)
    BY <2>2, <2>3 DEF Lively
  <2>5. Clean(d, file)
    BY <1>c, <2>1, <2>3 DEF Clean, Scanned
  <2>6. ASSUME ~restored PROVE Instant(d, file, writes)
    <3>1. Genuine(d.loaded, file, writes)
      BY <2>3, <2>6 DEF SnapshotInv
    <3>2. Since(d.loaded, d.since, file) /\ Seen(d.loaded, d.since, d.todo)
      BY <2>3 DEF Since, Seen
    <3> QED
      BY <1>c, <2>3, <2>6, <3>1, <3>2 DEF Instant
  <2> QED
    BY <1>e, <2>1, <2>4, <2>5, <2>6, MissSnapshot, CallFrame DEF c, Holds
<1>2. CASE Hit(p)
  <2> DEFINE d == [c EXCEPT !.pc = "revalidate", !.todo = Input]
             e == [c EXCEPT !.pc = "begin", !.loaded = Nothing, !.live = NoContents]
  <2>1. /\ \/ \E r \in Returns : Leave(p, r)
           \/ c.op = "save_cache" /\ c.loaded = c.cap /\ Becomes(p, d)
           \/ c.op = "save_cache" /\ Becomes(p, e)
        /\ c.pc = "check" /\ UNCHANGED dataset /\ UNCHANGED paths
    BY <1>2 DEF Hit, Returns, dataset, paths
  <2> HIDE DEF c
  <2>2. /\ d.pc = "revalidate" /\ d.op = c.op /\ d.todo = Input /\ d.loaded = c.loaded
        /\ d.cap = c.cap /\ d.since = c.since /\ d.dirty = c.dirty
        /\ e.pc = "begin" /\ e.op = c.op /\ e.loaded = Nothing /\ e.cap = c.cap
        /\ e.dirty = c.dirty
    BY <1>c DEF Call
  <2> HIDE DEF d, e
  <2>3. CASE \E r \in Returns : Leave(p, r)
    BY <1>e, <2>1, <2>3, LeaveSnapshot
  <2>4. CASE c.op = "save_cache" /\ c.loaded = c.cap /\ Becomes(p, d)
    <3>1. Lively(d, file)
      BY <2>2 DEF Lively
    <3>2. Clean(d, file)
      BY <1>c, <2>1, <2>2, <2>4 DEF Clean, Scanned
    <3>3. ASSUME ~restored PROVE Instant(d, file, writes)
      <4>1. Since(d.cap, d.since, file)
        BY <1>c, <2>1, <2>2, <2>4, <3>3 DEF Instant
      <4>2. Seen(d.cap, d.since, d.todo)
        BY <2>2 DEF Seen
      <4> QED
        BY <1>c, <2>2, <3>3, <4>1, <4>2 DEF Instant
    <3> QED
      BY <1>e, <2>1, <2>4, <3>1, <3>2, <3>3, CallFrame DEF Holds
  <2>5. CASE c.op = "save_cache" /\ Becomes(p, e)
    <3>1. Lively(e, file)
      BY <2>2 DEF Lively
    <3>2. Clean(e, file)
      BY <1>c, <2>1, <2>2, <2>5 DEF Clean, Scanned
    <3>3. ~restored => Instant(e, file, writes)
      BY <1>c, <2>2, NothingIsGenuine DEF Instant
    <3> QED
      BY <1>e, <2>1, <2>5, <3>1, <3>2, <3>3, CallFrame DEF Holds
  <2> QED
    BY <2>1, <2>3, <2>4, <2>5
<1>3. CASE OpenLock(p) \/ Acquire(p) \/ Poll(p) \/ AcquireFails(p)
  <2> DEFINE d == [c EXCEPT !.pc = "acquire", !.polls = MaxPolls]
             e == [c EXCEPT !.pc = "read", !.polls = MaxPolls]
             f == [c EXCEPT !.polls = @ - 1]
  <2>1. /\ WithoutCache(p) \/ Becomes(p, d) \/ Becomes(p, e) \/ Becomes(p, f)
        /\ c.pc \in {"open", "acquire"} /\ UNCHANGED dataset /\ UNCHANGED paths
    BY <1>3 DEF OpenLock, Acquire, Poll, AcquireFails, dataset, paths
  <2> HIDE DEF c
  <2>2. /\ d.pc = "acquire" /\ e.pc = "read" /\ f.pc = c.pc
        /\ d.op = c.op /\ d.loaded = c.loaded /\ d.cap = c.cap /\ d.dirty = c.dirty
        /\ e.op = c.op /\ e.loaded = c.loaded /\ e.cap = c.cap /\ e.dirty = c.dirty
        /\ f.op = c.op /\ f.loaded = c.loaded /\ f.cap = c.cap /\ f.dirty = c.dirty
    BY <1>c DEF Call
  <2> HIDE DEF d, e, f
  <2>3. Clean(d, file) /\ Clean(e, file) /\ Clean(f, file)
    BY <1>c, <2>1, <2>2 DEF Clean, Scanned
  <2>4. Holds(d) /\ Holds(e) /\ Holds(f)
    BY <1>c, <2>1, <2>2, <2>3, RestingHolds
  <2> QED
    BY <1>e, <2>1, <2>4, WithoutCacheSnapshot, CallFrame
<1>4. CASE Release(p)
  <2> DEFINE d == [c EXCEPT !.pc = "fallback", !.todo = Input, !.ret = "none"]
  <2>1. /\ Becomes(p, d) \/ Becomes(p, Idle(c.ret))
        /\ UNCHANGED dataset /\ UNCHANGED paths
    BY <1>4 DEF Release, dataset, paths
  <2> HIDE DEF c
  <2>2. d.pc = "fallback" /\ d.loaded = c.loaded /\ d.cap = c.cap
    BY <1>c DEF Call
  <2> HIDE DEF d
  <2>3. Holds(d) /\ Holds(Idle(c.ret))
    BY <1>c, <2>2, RestingHolds, IdleHolds
  <2> QED
    BY <1>e, <2>1, <2>3, CallFrame
<1>5. CASE FinishScan(p)
  <2> DEFINE next == IF c.op = "scan_cached" THEN "begin" ELSE "open"
             d == [c EXCEPT !.pc = next]
  <2>1. /\ Leave(p, "unsaved") \/ Becomes(p, d)
        /\ c.pc = "scan" /\ c.todo = {} /\ UNCHANGED dataset /\ UNCHANGED paths
    BY <1>5 DEF FinishScan, dataset, paths
  <2>2. next \in {"begin", "open"}
    OBVIOUS
  <2> HIDE DEF c, next
  <2>3. /\ d.pc = next /\ d.op = c.op /\ d.loaded = c.loaded /\ d.cap = c.cap
        /\ d.dirty = c.dirty
    BY <1>c DEF Call
  <2> HIDE DEF d
  <2>4. Lively(d, file)
    BY <2>2, <2>3 DEF Lively
  <2>5. Clean(d, file)
    BY <1>c, <2>1, <2>2, <2>3 DEF Clean, Scanned
  <2>6. ~restored => Instant(d, file, writes)
    BY <1>c, <2>2, <2>3 DEF Instant
  <2> QED
    BY <1>e, <2>1, <2>4, <2>5, <2>6, LeaveSnapshot, CallFrame DEF Holds
<1>6. CASE FinishFallback(p) \/ FinishRevalidate(p) \/ SyncDirectory(p)
  <2>1. (\E r \in Returns : Leave(p, r)) /\ UNCHANGED dataset /\ Entries(p)
    BY <1>6 DEF FinishFallback, FinishRevalidate, SyncDirectory, Returns, dataset, paths, Entries
  <2> QED
    BY <2>1, LeaveSnapshot
<1>7. CASE BeginWrite(p)
  <2> DEFINE d == [c EXCEPT !.pc = "write", !.temp = "torn", !.since = file]
  <2>1. /\ Leave(p, "unsaved") \/ Becomes(p, d)
        /\ c.pc = "begin" /\ UNCHANGED dataset /\ UNCHANGED paths
    BY <1>7 DEF BeginWrite, dataset, paths
  <2> HIDE DEF c
  <2>2. /\ d.pc = "write" /\ d.loaded = c.loaded /\ d.cap = c.cap /\ d.since = file
        /\ d.dirty = c.dirty
    BY <1>c DEF Call
  <2> HIDE DEF d
  <2>3. Lively(d, file)
    BY <2>2 DEF Lively
  <2>4. Clean(d, file)
    BY <1>c, <2>1, <2>2 DEF Clean, Scanned
  <2>5. Since(d.cap, d.since, file)
    BY <2>2 DEF Since
  <2>6. ~restored => Instant(d, file, writes)
    BY <1>c, <2>2, <2>5 DEF Instant
  <2> QED
    BY <1>e, <2>1, <2>3, <2>4, <2>6, LeaveSnapshot, CallFrame DEF Holds
<1>8. CASE FinishWrite(p)
  <2> DEFINE d == [c EXCEPT !.pc = "validate", !.temp = "whole", !.todo = Input]
  <2>1. /\ Leave(p, "unsaved") \/ Becomes(p, d)
        /\ c.pc = "write" /\ UNCHANGED dataset /\ UNCHANGED paths
    BY <1>8 DEF FinishWrite, dataset, paths
  <2> HIDE DEF c
  <2>2. /\ d.pc = "validate" /\ d.loaded = c.loaded /\ d.cap = c.cap /\ d.since = c.since
        /\ d.dirty = c.dirty /\ d.todo = Input
    BY <1>c DEF Call
  <2> HIDE DEF d
  <2>3. Lively(d, file)
    BY <2>2 DEF Lively
  <2>4. Clean(d, file)
    BY <1>c, <2>1, <2>2 DEF Clean, Scanned
  <2>5. Seen(d.cap, d.since, d.todo)
    BY <2>2 DEF Seen
  <2>6. ~restored => Instant(d, file, writes)
    BY <1>c, <2>1, <2>2, <2>5 DEF Instant
  <2> QED
    BY <1>e, <2>1, <2>3, <2>4, <2>6, LeaveSnapshot, CallFrame DEF Holds
<1>9. CASE Replace(p)
  <2> DEFINE d == [c EXCEPT !.pc = "sync", !.temp = "none"]
  <2>1. /\ Leave(p, "unsaved") \/ Becomes(p, d)
        /\ UNCHANGED dataset
    BY <1>9 DEF Replace, dataset
  <2>2. Entries(p)
    BY <1>9 DEF Replace, Entries
  <2> HIDE DEF c
  <2>3. d.pc = "sync" /\ d.loaded = c.loaded /\ d.cap = c.cap
    BY <1>c DEF Call
  <2> HIDE DEF d
  <2>4. Holds(d)
    BY <1>c, <2>3, RestingHolds
  <2> QED
    BY <2>1, <2>2, <2>4, LeaveSnapshot, CallFrame
<1>10. ASSUME NEW i \in Input, CheckInput(p, i) PROVE SnapshotInv'
  <2> DEFINE d == [c EXCEPT !.todo = @ \ {i}]
  <2>1. /\ Miss(p) \/ (Becomes(p, d) /\ Matches(c.loaded[i], file[i], c.policy = "content"))
        /\ c.pc = "check" /\ UNCHANGED dataset /\ UNCHANGED paths
    BY <1>10 DEF CheckInput, dataset, paths
  <2> HIDE DEF c
  <2>2. /\ d.pc = c.pc /\ d.op = c.op /\ d.policy = c.policy /\ d.loaded = c.loaded
        /\ d.cap = c.cap /\ d.since = c.since /\ d.dirty = c.dirty /\ d.live = c.live
        /\ d.todo = c.todo \ {i}
    BY <1>c DEF Call
  <2> HIDE DEF d
  <2>3. CASE Miss(p)
    BY <1>e, <2>1, <2>3, MissSnapshot DEF c
  <2>4. CASE Becomes(p, d) /\ Matches(c.loaded[i], file[i], c.policy = "content")
    <3>1. /\ c.loaded[i].kind = file[i].kind /\ c.loaded[i].mtime = file[i].mtime
          /\ c.policy = "content" => c.loaded[i].bytes = file[i].bytes
      BY <2>4 DEF Matches
    <3>2. Lively(d, file)
      BY <1>c, <2>1, <2>2, <3>1 DEF Lively
    <3>3. Clean(d, file)
      BY <1>c, <2>1, <2>2 DEF Clean, Scanned
    <3>4. ASSUME ~restored PROVE Instant(d, file, writes)
      <4>1. Since(c.loaded, c.since, file) /\ Seen(c.loaded, c.since, c.todo)
        BY <1>c, <2>1, <3>4 DEF Instant
      <4>2. Seen(c.loaded, c.since, c.todo \ {i})
        BY <1>c, <3>1, <3>4, <4>1, MatchIsSeen
      <4> QED
        BY <1>c, <2>1, <2>2, <3>4, <4>1, <4>2 DEF Instant
    <3> QED
      BY <1>e, <2>1, <2>4, <3>2, <3>3, <3>4, CallFrame DEF Holds
  <2> QED
    BY <2>1, <2>3, <2>4
<1>11. ASSUME NEW i \in Input, ValidateInput(p, i) PROVE SnapshotInv'
  <2> DEFINE d == [c EXCEPT !.todo = @ \ {i}]
  <2>1. /\ \/ \E r \in Returns : Leave(p, r)
           \/ Becomes(p, d) /\ Matches(c.cap[i], file[i], TRUE)
        /\ c.pc \in {"validate", "revalidate"} /\ UNCHANGED dataset /\ UNCHANGED paths
    BY <1>11 DEF ValidateInput, Returns, dataset, paths
  <2> HIDE DEF c
  <2>2. /\ d.pc = c.pc /\ d.op = c.op /\ d.loaded = c.loaded /\ d.cap = c.cap
        /\ d.since = c.since /\ d.dirty = c.dirty /\ d.todo = c.todo \ {i}
    BY <1>c DEF Call
  <2> HIDE DEF d
  <2>3. CASE \E r \in Returns : Leave(p, r)
    BY <1>e, <2>1, <2>3, LeaveSnapshot
  <2>4. CASE Becomes(p, d) /\ Matches(c.cap[i], file[i], TRUE)
    <3>1. c.cap[i].kind = file[i].kind /\ c.cap[i].mtime = file[i].mtime
      BY <2>4 DEF Matches
    <3>2. Lively(d, file)
      BY <2>1, <2>2 DEF Lively
    <3>3. Clean(d, file)
      BY <1>c, <2>1, <2>2 DEF Clean, Scanned
    <3>4. ASSUME ~restored PROVE Instant(d, file, writes)
      <4>1. Since(c.cap, c.since, file) /\ Seen(c.cap, c.since, c.todo)
        BY <1>c, <2>1, <3>4 DEF Instant
      <4>2. Seen(c.cap, c.since, c.todo \ {i})
        BY <1>c, <3>1, <3>4, <4>1, MatchIsSeen
      <4> QED
        BY <1>c, <2>1, <2>2, <3>4, <4>1, <4>2 DEF Instant
    <3> QED
      BY <1>e, <2>1, <2>4, <3>2, <3>3, <3>4, CallFrame DEF Holds
  <2> QED
    BY <2>1, <2>3, <2>4
<1>12. ASSUME NEW i \in Input, Capture(p, i) \/ CaptureFails(p, i) PROVE SnapshotInv'
  <2> DEFINE s == file[i]
             d == [c EXCEPT !.cap[i] = s, !.todo = @ \ {i}]
             e == [c EXCEPT !.cap[i] = s, !.todo = @ \ {i}, !.unavailable = TRUE]
             cap == [c.cap EXCEPT ![i] = s]
  <2>1. /\ (\E r \in Returns : Leave(p, r)) \/ Becomes(p, d) \/ Becomes(p, e)
        /\ c.pc \in {"scan", "fallback"} /\ UNCHANGED dataset /\ UNCHANGED paths
    BY <1>12 DEF Capture, CaptureFails, Returns, dataset, paths
  <2>2. \A j \in Input : cap[j] = IF j = i THEN file[j] ELSE c.cap[j]
    BY <1>c DEF Snapshot
  <2> HIDE DEF c, s
  <2>3. /\ d.pc = c.pc /\ d.op = c.op /\ d.loaded = c.loaded /\ d.dirty = c.dirty
        /\ d.cap = cap /\ d.todo = c.todo \ {i}
        /\ e.pc = c.pc /\ e.op = c.op /\ e.loaded = c.loaded /\ e.dirty = c.dirty
        /\ e.cap = cap /\ e.todo = c.todo \ {i}
    BY <1>c DEF Call
  <2> HIDE DEF d, e, cap
  <2>4. ASSUME ~restored PROVE Genuine(cap, file, writes)
    <3> SUFFICES ASSUME NEW j \in Input
                 PROVE  /\ cap[j].mtime <= writes + 1
                        /\ (cap[j].kind = "file" /\ file[j].kind = "file"
                            /\ cap[j].mtime = file[j].mtime) => cap[j] = file[j]
      BY DEF Genuine
    <3>1. file[j].mtime <= writes + 1
      BY <2>4 DEF SnapshotInv, Stamped
    <3> QED
      BY <1>c, <2>2, <2>4, <3>1 DEF Genuine
  <2>5. Lively(d, file) /\ Lively(e, file)
    BY <2>1, <2>3 DEF Lively
  <2>6. Clean(d, file) /\ Clean(e, file)
    BY <1>c, <2>1, <2>2, <2>3 DEF Clean, Scanned
  <2>7. ~restored => Instant(d, file, writes) /\ Instant(e, file, writes)
    BY <1>c, <2>1, <2>3, <2>4 DEF Instant
  <2> QED
    BY <1>e, <2>1, <2>5, <2>6, <2>7, LeaveSnapshot, CallFrame DEF Holds
<1> QED
  BY <1>1, <1>2, <1>3, <1>4, <1>5, <1>6, <1>7, <1>8, <1>9, <1>10, <1>11, <1>12 DEF Step

LEMMA StartSnapshot ==
    ASSUME TypeOK, SnapshotInv, NEW p \in Proc, NEW op \in Ops, NEW policy \in Policies,
           Start(p, op, policy)
    PROVE  SnapshotInv'
<1> DEFINE pc == IF op = "scan_cached" THEN "read" ELSE "scan"
           todo == IF op = "scan_cached" THEN {} ELSE Input
           d == [Idle("none") EXCEPT !.op = op, !.policy = policy, !.pc = pc, !.todo = todo]
<1>1. Becomes(p, d) /\ UNCHANGED dataset /\ Entries(p)
  BY DEF Start, dataset, paths, Entries
<1>2. /\ d.pc = pc /\ d.op = op /\ d.todo = todo /\ d.loaded = Nothing /\ d.cap = Nothing
  <2> HIDE DEF pc, todo
  <2> QED
    BY DEF Idle
<1>3. (pc = "read" /\ op = "scan_cached") \/ (pc = "scan" /\ todo = Input)
  OBVIOUS
<1> HIDE DEF d, pc, todo
<1>4. Lively(d, file)
  BY <1>2, <1>3 DEF Lively
<1>5. Clean(d, file)
  BY <1>2, <1>3 DEF Clean, Scanned
<1>6. ~restored => Instant(d, file, writes)
  BY <1>2, <1>3, NothingIsGenuine DEF Instant
<1> QED
  BY <1>1, <1>4, <1>5, <1>6, CallFrame DEF Holds

\* A crash or a power loss leaves entries that were there and calls that start over.
LEMMA FailureSnapshot ==
    ASSUME TypeOK, SnapshotInv, Failure
    PROVE  SnapshotInv'
<1>1. CASE PowerLoss
  <2>1. /\ file' = file /\ writes' = writes /\ restored' = restored
        /\ call' = [p \in Proc |-> Idle("none")] /\ disk' = cache'
    BY <1>1 DEF PowerLoss, dataset
  <2>2. cache'.proof \in {cache.proof, disk.proof}
    <3>1. PICK e \in {cache, disk} :
             cache' = IF e.state = "unsynced" THEN [e EXCEPT !.state = "torn"] ELSE e
      BY <1>1 DEF PowerLoss
    <3>2. e \in Entry /\ e.proof \in {cache.proof, disk.proof}
      BY DEF TypeOK
    <3>3. cache'.proof = e.proof
      BY <3>1, <3>2 DEF Entry
    <3> QED
      BY <3>2, <3>3
  <2>3. \A p \in Proc : call'[p] = Idle("none") /\ Holds(Idle("none"))
    BY <2>1, IdleHolds
  <2>4. ~restored => /\ Genuine(cache'.proof, file, writes) /\ Genuine(disk'.proof, file, writes)
                     /\ Stamped(file, writes)
    BY <2>1, <2>2 DEF SnapshotInv
  <2> QED
    BY <2>1, <2>3, <2>4 DEF SnapshotInv, Holds
<1>2. ASSUME NEW p \in Proc, Interrupt(p) PROVE SnapshotInv'
  <2>1. Leave(p, "error") /\ UNCHANGED dataset /\ Entries(p)
    BY <1>2 DEF Interrupt, dataset, paths, Entries
  <2> QED
    BY <2>1, LeaveSnapshot
<1>3. ASSUME NEW p \in Proc, Crash(p) PROVE SnapshotInv'
  <2>1. Becomes(p, Idle("none")) /\ UNCHANGED dataset /\ Entries(p)
    BY <1>3 DEF Crash, dataset, paths, Entries
  <2> QED
    BY <2>1, IdleHolds, CallFrame
<1>4. ASSUME NEW p \in Proc, ReleaseFails(p) PROVE SnapshotInv'
  <2>1. PICK d \in Call : /\ Becomes(p, d)
                          /\ \/ d = Idle("unsaved")
                             \/ d.pc = "fallback" /\ d.loaded = call[p].loaded /\ d.cap = call[p].cap
    BY <1>4, Unreleased
  <2>2. ~restored => Genuine(call[p].loaded, file, writes) /\ Genuine(call[p].cap, file, writes)
    BY DEF SnapshotInv, Instant
  <2>3. Holds(d)
    BY <2>1, <2>2, RestingHolds, IdleHolds
  <2>4. UNCHANGED dataset /\ Entries(p)
    BY <1>4 DEF ReleaseFails, dataset, paths, Entries
  <2> QED
    BY <2>1, <2>3, <2>4, CallFrame
<1>5. CASE HeirLetsGo
  BY <1>5 DEF HeirLetsGo, SnapshotInv, dataset, paths
<1> QED
  BY <1>1, <1>2, <1>3, <1>4, <1>5 DEF Failure

-----------------------------------------------------------------------------
(* Changes of the dataset *)

\* A record stays genuine when the file it is about gets a stamp never seen before.
LEMMA WriteKeepsGenuine ==
    ASSUME NEW x \in Snapshot, NEW i \in Input, NEW s \in FileState, writes \in Nat,
           file \in Snapshot, Genuine(x, file, writes), s.kind = "missing" \/ s.mtime = writes + 2
    PROVE  Genuine(x, [file EXCEPT ![i] = s], writes + 1)
<1> DEFINE f == [file EXCEPT ![i] = s]
<1> SUFFICES ASSUME NEW j \in Input
             PROVE  /\ x[j].mtime <= (writes + 1) + 1
                    /\ (x[j].kind = "file" /\ f[j].kind = "file" /\ x[j].mtime = f[j].mtime)
                          => x[j] = f[j]
  BY DEF Genuine
<1>1. x[j].mtime \in Nat /\ x[j].mtime <= writes + 1
  BY DEF Genuine, Snapshot, FileState
<1>2. f[j] = IF j = i THEN s ELSE file[j]
  BY DEF Snapshot
<1> HIDE DEF f
<1>3. CASE j # i
  BY <1>1, <1>2, <1>3 DEF Genuine
<1>4. CASE j = i
  <2>1. f[j] = s
    BY <1>2, <1>4
  <2>2. s.kind = "missing" \/ x[j].mtime # s.mtime
    BY <1>1
  <2> QED
    BY <1>1, <2>1, <2>2
<1> QED
  BY <1>3, <1>4

LEMMA WriteKeepsSince ==
    ASSUME NEW x \in Snapshot, NEW g, NEW i \in Input, NEW s \in FileState, writes \in Nat,
           file \in Snapshot, Genuine(x, file, writes), Since(x, g, file),
           s.kind = "missing" \/ s.mtime = writes + 2
    PROVE  Since(x, g, [file EXCEPT ![i] = s])
<1> DEFINE f == [file EXCEPT ![i] = s]
<1> SUFFICES ASSUME NEW j \in Input
             PROVE  f[j] = g[j] \/ f[j].kind = "missing" \/ x[j].mtime < f[j].mtime
  BY DEF Since
<1>1. x[j].mtime \in Nat /\ x[j].mtime <= writes + 1
  BY DEF Genuine, Snapshot, FileState
<1>2. f[j] = IF j = i THEN s ELSE file[j]
  BY DEF Snapshot
<1> HIDE DEF f
<1>3. CASE j # i
  BY <1>2, <1>3 DEF Since
<1>4. CASE j = i
  <2>1. f[j] = s
    BY <1>2, <1>4
  <2>2. s.kind = "missing" \/ x[j].mtime < s.mtime
    BY <1>1
  <2> QED
    BY <2>1, <2>2
<1> QED
  BY <1>3, <1>4

LEMMA SetFileSnapshot ==
    ASSUME TypeOK, SnapshotInv, NEW i \in Input, NEW s \in FileState, SetFile(i, s),
           ~restored' => ~restored /\ (s = Missing \/ s.mtime = writes + 2)
    PROVE  SnapshotInv'
<1> DEFINE f == [file EXCEPT ![i] = s]
<1>1. /\ file' = f /\ writes' = writes + 1 /\ cache' = cache /\ disk' = disk
      /\ file \in Snapshot /\ writes \in Nat
  <2>1. file' = f /\ writes' = writes + 1
    BY DEF SetFile
  <2>2. cache' = cache /\ disk' = disk
    BY DEF SetFile, paths
  <2>3. file \in Snapshot /\ writes \in Nat
    BY ProtocolAssumption DEF TypeOK
  <2> QED
    BY <2>1, <2>2, <2>3
<1>2. \A j \in Input : f[j] = IF j = i THEN s ELSE file[j]
  BY <1>1 DEF Snapshot
<1>3. ~restored' => ~restored /\ (s.kind = "missing" \/ s.mtime = writes + 2)
  BY DEF Missing
<1> HIDE DEF f
<1>4. ASSUME NEW p \in Proc
      PROVE  /\ Lively(call'[p], f) /\ Clean(call'[p], f)
             /\ ~restored' => Instant(call'[p], f, writes + 1)
  <2> DEFINE c == call[p]
             l == IF c.pc = "check" THEN c.live[i] \cup {s.bytes} ELSE {}
             d == [c EXCEPT !.dirty = TRUE, !.live[i] = l]
             live == [c.live EXCEPT ![i] = l]
  <2>1. /\ c \in Call /\ c.loaded \in Snapshot /\ c.cap \in Snapshot /\ c.live \in Contents
        /\ Lively(c, file) /\ (~restored => Instant(c, file, writes))
    BY DEF TypeOK, SnapshotInv, Call, Contents
  <2>2. IF c.pc = "idle" THEN call'[p] = c ELSE call'[p] = d
    BY DEF SetFile
  <2>3. /\ \A j \in Input : live[j] = IF j = i THEN l ELSE c.live[j]
        /\ c.pc = "check" => l = c.live[i] \cup {s.bytes}
    BY <2>1 DEF Contents
  <2> HIDE DEF c, l
  <2>4. /\ d.pc = c.pc /\ d.policy = c.policy /\ d.todo = c.todo /\ d.loaded = c.loaded
        /\ d.cap = c.cap /\ d.since = c.since /\ d.dirty = TRUE /\ d.live = live
    BY <2>1 DEF Call
  <2> HIDE DEF d, live
  <2>5. Lively(d, f)
    <3> SUFFICES ASSUME c.pc = "check", NEW j \in Input
                 PROVE  /\ f[j].bytes \in live[j]
                        /\ (c.policy = "content" /\ j \notin c.todo)
                              => c.loaded[j].bytes \in live[j]
      BY <2>4 DEF Lively
    <3>1. /\ file[j].bytes \in c.live[j]
          /\ (c.policy = "content" /\ j \notin c.todo) => c.loaded[j].bytes \in c.live[j]
      BY <2>1 DEF Lively
    <3>2. CASE j = i
      BY <1>2, <2>3, <3>1, <3>2
    <3>3. CASE j # i
      BY <1>2, <2>3, <3>1, <3>3
    <3> QED
      BY <3>2, <3>3
  <2>6. c.pc = "idle" => Lively(c, f)
    BY DEF Lively
  <2>7. Clean(d, f) /\ (c.pc = "idle" => Clean(c, f))
    BY <2>4 DEF Clean, Scanned
  <2>8. ASSUME ~restored'
        PROVE  Instant(c, f, writes + 1) /\ Instant(d, f, writes + 1)
    <3>1. Instant(c, file, writes)
      BY <1>3, <2>1, <2>8
    <3>2. Genuine(c.loaded, f, writes + 1) /\ Genuine(c.cap, f, writes + 1)
      BY <1>1, <1>3, <2>1, <2>8, <3>1, WriteKeepsGenuine DEF Instant, f
    <3>3. /\ c.pc = "check" => Since(c.loaded, c.since, f)
          /\ c.pc \in {"write", "validate", "revalidate"} => Since(c.cap, c.since, f)
      BY <1>1, <1>3, <2>1, <2>8, <3>1, WriteKeepsSince DEF Instant, f
    <3> QED
      BY <2>4, <3>1, <3>2, <3>3 DEF Instant
  <2> QED
    BY <2>2, <2>5, <2>6, <2>7, <2>8
<1>5. ASSUME ~restored'
      PROVE  /\ Genuine(cache.proof, f, writes + 1) /\ Genuine(disk.proof, f, writes + 1)
             /\ Stamped(f, writes + 1)
  <2>1. cache.proof \in Snapshot /\ disk.proof \in Snapshot
    BY DEF TypeOK, Entry
  <2>2. /\ Genuine(cache.proof, file, writes) /\ Genuine(disk.proof, file, writes)
        /\ Stamped(file, writes)
    BY <1>3, <1>5 DEF SnapshotInv
  <2>3. Genuine(cache.proof, f, writes + 1) /\ Genuine(disk.proof, f, writes + 1)
    BY <1>1, <1>3, <1>5, <2>1, <2>2, WriteKeepsGenuine DEF f
  <2>4. ASSUME NEW j \in Input PROVE f[j].mtime <= (writes + 1) + 1
    <3>1. s.mtime <= (writes + 1) + 1
      BY <1>1, <1>5 DEF Missing
    <3>2. file[j].mtime \in Nat /\ file[j].mtime <= writes + 1
      BY <1>1, <2>2 DEF Stamped, Snapshot, FileState
    <3> QED
      BY <1>1, <1>2, <3>1, <3>2
  <2> QED
    BY <2>3, <2>4 DEF Stamped
<1> QED
  BY <1>1, <1>4, <1>5 DEF SnapshotInv

LEMMA ChangeSnapshot ==
    ASSUME TypeOK, SnapshotInv, NEW i \in Input,
           RemoveInput(i) \/ \E b \in Bytes : WriteInput(i, b) \/ RestoreMtime(i, b)
    PROVE  SnapshotInv'
<1>1. CASE RemoveInput(i)
  BY <1>1, SetFileSnapshot, SnapshotTypes DEF RemoveInput
<1>2. ASSUME NEW b \in Bytes, WriteInput(i, b) PROVE SnapshotInv'
  <2>1. Present(b, writes + 2) \in FileState
    BY SnapshotTypes, ProtocolAssumption DEF TypeOK
  <2>2. Present(b, writes + 2).mtime = writes + 2
    BY DEF Present
  <2> QED
    BY <1>2, <2>1, <2>2, SetFileSnapshot DEF WriteInput
<1>3. ASSUME NEW b \in Bytes, RestoreMtime(i, b) PROVE SnapshotInv'
  <2>1. Present(b, file[i].mtime) \in FileState
    BY SnapshotTypes DEF TypeOK, Snapshot, FileState
  <2> QED
    BY <1>3, <2>1, SetFileSnapshot DEF RestoreMtime
<1> QED
  BY <1>1, <1>2, <1>3

-----------------------------------------------------------------------------
LEMMA InitSnapshot == Init => SnapshotInv
<1> SUFFICES ASSUME Init PROVE SnapshotInv
  OBVIOUS
<1>1. TypeOK
  BY InitType
<1>2. /\ writes = 0 /\ disk = cache /\ call = [p \in Proc |-> Idle("none")]
      /\ file \in [Input -> {Present(b, 1) : b \in Bytes} \cup {Missing}]
  BY DEF Init
<1>3. \A i \in Input : file[i].mtime \in {0, 1}
  BY <1>2 DEF Present, Missing
<1>4. ASSUME NEW p \in Proc PROVE Holds(call[p])
  BY <1>1, <1>2, IdleHolds
<1>5. Genuine(cache.proof, file, writes)
  <2>1. CASE cache = NoEntry
    BY <1>1, <2>1, NothingIsGenuine DEF NoEntry
  <2>2. ASSUME NEW policy \in Policies, NEW old \in SUBSET Input,
               cache = [state |-> "whole", policy |-> policy,
                        proof |-> [i \in Input |-> IF i \in old THEN Present(NoBytes, 0)
                                                   ELSE file[i]]]
        PROVE  Genuine(cache.proof, file, writes)
    <3> DEFINE x == [i \in Input |-> IF i \in old THEN Present(NoBytes, 0) ELSE file[i]]
    <3>1. cache.proof = x
      BY <2>2
    <3>2. ASSUME NEW i \in Input
          PROVE  /\ x[i].mtime <= writes + 1
                 /\ (x[i].kind = "file" /\ file[i].kind = "file" /\ x[i].mtime = file[i].mtime)
                       => x[i] = file[i]
      <4>1. CASE i \in old
        <5>1. x[i].mtime = 0
          BY <4>1 DEF Present
        <5>2. file[i].kind = "file" => file[i].mtime = 1
          BY <1>2 DEF Present, Missing
        <5> QED
          BY <1>2, <5>1, <5>2
      <4>2. CASE i \notin old
        BY <1>2, <1>3, <4>2
      <4> QED
        BY <4>1, <4>2
    <3> HIDE DEF x
    <3> QED
      BY <3>1, <3>2 DEF Genuine
  <2> QED
    BY <2>1, <2>2 DEF Init
<1> QED
  BY <1>2, <1>3, <1>4, <1>5 DEF SnapshotInv, Holds, Stamped

LEMMA NextSnapshot == TypeOK /\ SnapshotInv /\ [Next]_vars => SnapshotInv'
<1> SUFFICES ASSUME TypeOK, SnapshotInv, [Next]_vars PROVE SnapshotInv'
  OBVIOUS
<1>1. CASE UNCHANGED vars
  BY <1>1 DEF vars, SnapshotInv
<1>2. CASE Failure
  BY <1>2, FailureSnapshot
<1>3. ASSUME NEW i \in Input,
             RemoveInput(i) \/ \E b \in Bytes : WriteInput(i, b) \/ RestoreMtime(i, b)
      PROVE  SnapshotInv'
  BY <1>3, ChangeSnapshot
<1>4. CASE \E p \in Proc : Step(p) \/ \E op \in Ops, policy \in Policies : Start(p, op, policy)
  BY <1>4, StepSnapshot, StartSnapshot
<1> QED
  BY <1>1, <1>2, <1>3, <1>4 DEF Next, Environment, Failure

LEMMA SnapshotInvariant == Spec => [](TypeOK /\ SnapshotInv)
<1>1. Init => TypeOK /\ SnapshotInv
  BY InitType, InitSnapshot
<1>2. (TypeOK /\ SnapshotInv) /\ [Next]_vars => (TypeOK /\ SnapshotInv)'
  BY NextType, NextSnapshot
<1> QED
  BY <1>1, <1>2, PTL DEF Spec

-----------------------------------------------------------------------------
(* How calls end *)

\* A step after which p neither serves a cache nor publishes nor raises.
Silent(p) ==
    /\ call'[p].ret \in {call[p].ret, "none", "saved", "unsaved", "error", "rescan"}
    /\ call[p].pc = "validate" => call'[p].pc # "sync"

Served(p) == call[p].pc = "check" /\ call[p].todo = {}
Checked(p) == call[p].pc \in {"validate", "revalidate"} /\ call[p].todo = {}

\* An input that the call examines could not be read, or is not what was captured.
Discovered(p) ==
    /\ Examines(p)
    /\ \/ ReadTrouble(p)
       \/ /\ call[p].pc \in {"validate", "revalidate"}
          /\ \E i \in Input : ~Matches(call[p].cap[i], file[i], TRUE)

Outcome(p) ==
    \/ Silent(p)
    \/ call'[p].ret = "hit" /\ Served(p)
    \/ call'[p].ret = "reused" /\ Served(p) /\ call[p].loaded = call[p].cap
    \/ call'[p].ret \in {"reused", call[p].ret} /\ Checked(p)
    \/ call'[p].ret = "changed" /\ call'[p].pc # "sync" /\ Discovered(p)

LEMMA LeaveEnds ==
    ASSUME TypeOK, NEW p \in Proc, NEW r, Leave(p, r)
    PROVE  call'[p].ret = r /\ call'[p].pc \in {"release", "idle"}
<1> DEFINE c == call[p]
           d == [c EXCEPT !.pc = "release", !.ret = r, !.temp = "none", !.todo = {},
                          !.loaded = Nothing, !.since = Nothing, !.live = NoContents]
<1>1. c \in Call /\ call \in [Proc -> Call]
  BY DEF TypeOK
<1>2. call' = [call EXCEPT ![p] = d] \/ call' = [call EXCEPT ![p] = Idle(r)]
  BY DEF Leave, Becomes
<1> HIDE DEF c
<1>3. d.ret = r /\ d.pc = "release" /\ Idle(r).ret = r /\ Idle(r).pc = "idle"
  BY <1>1 DEF Call, Idle
<1> HIDE DEF d
<1>4. call'[p] = d \/ call'[p] = Idle(r)
  BY <1>1, <1>2
<1> QED
  BY <1>3, <1>4

LEMMA LeaveOutcome ==
    ASSUME TypeOK, NEW p \in Proc, NEW r, Leave(p, r),
           \/ r \in {"none", "saved", "unsaved", "error", "rescan"}
           \/ r = "hit" /\ Served(p)
           \/ r = "reused" /\ Served(p) /\ call[p].loaded = call[p].cap
           \/ r = "reused" /\ Checked(p)
           \/ r = "changed" /\ Discovered(p)
    PROVE  Outcome(p)
<1>1. call'[p].ret = r /\ call'[p].pc # "sync"
  BY LeaveEnds
<1> QED
  BY <1>1 DEF Outcome, Silent

\* An update that keeps or clears the outcome and publishes nothing.
LEMMA MoveOutcome ==
    ASSUME TypeOK, NEW p \in Proc, NEW d, Becomes(p, d), d.ret \in {call[p].ret, "none"},
           call[p].pc = "validate" => d.pc # "sync"
    PROVE  Outcome(p)
<1>1. call'[p] = d
  BY DEF Becomes, TypeOK
<1> QED
  BY <1>1 DEF Outcome, Silent

LEMMA MissOutcome ==
    ASSUME TypeOK, NEW p \in Proc, Miss(p)
    PROVE  Outcome(p)
<1> DEFINE next == IF ~Held(p) THEN "open"
                   ELSE IF call[p].op = "scan_cached" THEN "scan" ELSE "begin"
           c == call[p]
           todo == IF next = "scan" THEN Input ELSE {}
           d == [c EXCEPT !.pc = next, !.todo = todo,
                          !.loaded = Nothing, !.since = Nothing, !.live = NoContents]
<1>1. c \in Call /\ next # "sync"
  BY DEF TypeOK
<1>2. Becomes(p, d)
  BY DEF Miss
<1> HIDE DEF c, next, todo
<1>3. d.ret = c.ret /\ d.pc = next
  BY <1>1 DEF Call
<1> HIDE DEF d
<1> QED
  BY <1>1, <1>2, <1>3, MoveOutcome DEF c

LEMMA WithoutCacheOutcome ==
    ASSUME TypeOK, NEW p \in Proc, WithoutCache(p)
    PROVE  Outcome(p)
<1> DEFINE c == call[p]
           d == [c EXCEPT !.pc = "fallback", !.todo = Input]
<1>1. Becomes(p, d) \/ Leave(p, "unsaved")
  BY DEF WithoutCache
<1>2. c \in Call
  BY DEF TypeOK
<1> HIDE DEF c
<1>3. d.ret = c.ret /\ d.pc = "fallback"
  BY <1>2 DEF Call
<1> HIDE DEF d
<1> QED
  BY <1>1, <1>3, MoveOutcome, LeaveOutcome DEF c

LEMMA StepOutcome ==
    ASSUME TypeOK, NEW p \in Proc, Step(p)
    PROVE  Outcome(p)
<1> DEFINE c == call[p]
<1>c. c \in Call
  BY DEF TypeOK
<1>1. CASE ReadCache(p)
  <2> DEFINE l == [i \in Input |-> {file[i].bytes}]
             d == [c EXCEPT !.pc = "check", !.loaded = cache.proof, !.todo = Input,
                            !.since = file, !.live = l]
  <2>1. Miss(p) \/ Becomes(p, d)
    BY <1>1 DEF ReadCache
  <2> HIDE DEF l, c
  <2>2. d.pc = "check" /\ d.ret = c.ret
    BY <1>c DEF Call
  <2> HIDE DEF d
  <2> QED
    BY <2>1, <2>2, MissOutcome, MoveOutcome DEF c
<1>2. CASE Hit(p)
  <2> DEFINE d == [c EXCEPT !.pc = "revalidate", !.todo = Input]
             e == [c EXCEPT !.pc = "begin", !.loaded = Nothing, !.live = NoContents]
  <2>1. /\ \/ Leave(p, "hit")
           \/ c.loaded = c.cap /\ Leave(p, "reused")
           \/ Becomes(p, d)
           \/ Becomes(p, e)
        /\ Served(p)
    BY <1>2 DEF Hit, Served
  <2> HIDE DEF c
  <2>2. d.pc = "revalidate" /\ d.ret = c.ret /\ e.pc = "begin" /\ e.ret = c.ret
    BY <1>c DEF Call
  <2> HIDE DEF d, e
  <2> QED
    BY <2>1, <2>2, LeaveOutcome, MoveOutcome DEF c
<1>3. CASE OpenLock(p) \/ Acquire(p) \/ Poll(p) \/ AcquireFails(p)
  <2> DEFINE d == [c EXCEPT !.pc = "acquire", !.polls = MaxPolls]
             e == [c EXCEPT !.pc = "read", !.polls = MaxPolls]
             f == [c EXCEPT !.polls = @ - 1]
  <2>1. /\ WithoutCache(p) \/ Becomes(p, d) \/ Becomes(p, e) \/ Becomes(p, f)
        /\ c.pc \in {"open", "acquire"}
    BY <1>3 DEF OpenLock, Acquire, Poll, AcquireFails
  <2> HIDE DEF c
  <2>2. d.ret = c.ret /\ e.ret = c.ret /\ f.ret = c.ret
    BY <1>c DEF Call
  <2> HIDE DEF d, e, f
  <2>3. c.pc # "validate"
    BY <2>1
  <2> QED
    BY <2>1, <2>2, <2>3, WithoutCacheOutcome, MoveOutcome DEF c
<1>4. CASE Release(p)
  <2> DEFINE d == [c EXCEPT !.pc = "fallback", !.todo = Input, !.ret = "none"]
  <2>1. Becomes(p, d) \/ Becomes(p, Idle(c.ret))
    BY <1>4 DEF Release
  <2> HIDE DEF c
  <2>2. d.pc = "fallback" /\ d.ret = "none" /\ Idle(c.ret).pc = "idle" /\ Idle(c.ret).ret = c.ret
    BY <1>c DEF Call, Idle
  <2> HIDE DEF d
  <2> QED
    BY <2>1, <2>2, MoveOutcome DEF c
<1>5. CASE FinishScan(p)
  <2> DEFINE next == IF c.op = "scan_cached" THEN "begin" ELSE "open"
             d == [c EXCEPT !.pc = next]
  <2>1. Leave(p, "unsaved") \/ Becomes(p, d)
    BY <1>5 DEF FinishScan
  <2>2. next # "sync"
    OBVIOUS
  <2> HIDE DEF c, next
  <2>3. d.pc = next /\ d.ret = c.ret
    BY <1>c DEF Call
  <2> HIDE DEF d
  <2> QED
    BY <2>1, <2>2, <2>3, LeaveOutcome, MoveOutcome DEF c
<1>6. CASE FinishFallback(p) \/ SyncDirectory(p)
  BY <1>6, LeaveOutcome DEF FinishFallback, SyncDirectory
<1>7. CASE FinishRevalidate(p)
  <2>1. Checked(p) /\ Leave(p, "reused")
    BY <1>7 DEF FinishRevalidate, Checked
  <2> QED
    BY <2>1, LeaveOutcome
<1>8. CASE BeginWrite(p) \/ FinishWrite(p)
  <2> DEFINE d == [c EXCEPT !.pc = "write", !.temp = "torn", !.since = file]
             e == [c EXCEPT !.pc = "validate", !.temp = "whole", !.todo = Input]
  <2>1. Leave(p, "unsaved") \/ Becomes(p, d) \/ Becomes(p, e)
    BY <1>8 DEF BeginWrite, FinishWrite
  <2> HIDE DEF c
  <2>2. d.pc = "write" /\ d.ret = c.ret /\ e.pc = "validate" /\ e.ret = c.ret
    BY <1>c DEF Call
  <2> HIDE DEF d, e
  <2> QED
    BY <2>1, <2>2, LeaveOutcome, MoveOutcome DEF c
<1>9. CASE Replace(p)
  <2> DEFINE d == [c EXCEPT !.pc = "sync", !.temp = "none"]
  <2>1. (Leave(p, "unsaved") \/ Becomes(p, d)) /\ Checked(p)
    BY <1>9 DEF Replace, Checked
  <2> HIDE DEF c
  <2>2. d.ret = c.ret
    BY <1>c DEF Call
  <2> HIDE DEF d
  <2>3. ASSUME Becomes(p, d) PROVE call'[p].ret = c.ret
    BY <2>2, <2>3 DEF Becomes, TypeOK
  <2> QED
    BY <2>1, <2>3, LeaveOutcome DEF Outcome, c
<1>10. ASSUME NEW i \in Input, CheckInput(p, i) PROVE Outcome(p)
  <2> DEFINE d == [c EXCEPT !.todo = @ \ {i}]
  <2>1. (Miss(p) \/ Becomes(p, d)) /\ c.pc = "check"
    BY <1>10 DEF CheckInput
  <2> HIDE DEF c
  <2>2. d.pc = c.pc /\ d.ret = c.ret
    BY <1>c DEF Call
  <2> HIDE DEF d
  <2> QED
    BY <2>1, <2>2, MissOutcome, MoveOutcome DEF c
<1>11. ASSUME NEW i \in Input, ValidateInput(p, i) PROVE Outcome(p)
  <2> DEFINE d == [c EXCEPT !.todo = @ \ {i}]
  <2>1. \/ Becomes(p, d)
        \/ Leave(p, "changed") /\ Discovered(p)
        \/ Leave(p, "unsaved") \/ Leave(p, "error")
    BY <1>11 DEF ValidateInput, Discovered, Examines, TableTurn
  <2>2. c.pc \in {"validate", "revalidate"}
    BY <1>11 DEF ValidateInput
  <2> HIDE DEF c
  <2>3. d.pc = c.pc /\ d.ret = c.ret
    BY <1>c DEF Call
  <2> HIDE DEF d
  <2> QED
    BY <2>1, <2>2, <2>3, LeaveOutcome, MoveOutcome DEF c
<1>12. ASSUME NEW i \in Input, Capture(p, i) \/ CaptureFails(p, i) PROVE Outcome(p)
  <2> DEFINE s == file[i]
             d == [c EXCEPT !.cap[i] = s, !.todo = @ \ {i}]
             e == [c EXCEPT !.cap[i] = s, !.todo = @ \ {i}, !.unavailable = TRUE]
  <2>1. \/ Becomes(p, d) \/ Becomes(p, e)
        \/ Leave(p, "changed") /\ Discovered(p)
        \/ Leave(p, "rescan") \/ Leave(p, "error")
    BY <1>12 DEF Capture, CaptureFails, Discovered, Examines, ScanTurn
  <2>2. c.pc \in {"scan", "fallback"}
    BY <1>12 DEF Capture, CaptureFails
  <2> HIDE DEF c, s
  <2>3. d.pc = c.pc /\ d.ret = c.ret /\ e.pc = c.pc /\ e.ret = c.ret
    BY <1>c DEF Call
  <2> HIDE DEF d, e
  <2> QED
    BY <2>1, <2>2, <2>3, LeaveOutcome, MoveOutcome DEF c
<1> QED
  BY <1>1, <1>2, <1>3, <1>4, <1>5, <1>6, <1>7, <1>8, <1>9, <1>10, <1>11, <1>12 DEF Step

\* No other step ends a call that way.
LEMMA NextOutcome ==
    ASSUME TypeOK, [Next]_vars, NEW p \in Proc
    PROVE  Outcome(p)
<1>1. call'[p] = call[p] => Outcome(p)
  BY DEF Outcome, Silent
<1>2. CASE UNCHANGED vars
  BY <1>1, <1>2 DEF vars
<1>3. ASSUME NEW q \in Proc, Step(q) PROVE Outcome(p)
  <2>1. CASE q = p
    BY <1>3, <2>1, StepOutcome
  <2>2. CASE q # p
    <3>1. \E c : Becomes(q, c)
      BY <1>3, StepBecomes
    <3> QED
      BY <1>1, <2>2, <3>1 DEF Becomes, TypeOK
  <2> QED
    BY <2>1, <2>2
<1>4. ASSUME NEW q \in Proc, NEW op \in Ops, NEW policy \in Policies, Start(q, op, policy)
      PROVE  Outcome(p)
  <2> DEFINE pc == IF op = "scan_cached" THEN "read" ELSE "scan"
             todo == IF op = "scan_cached" THEN {} ELSE Input
             d == [Idle("none") EXCEPT !.op = op, !.policy = policy, !.pc = pc, !.todo = todo]
  <2>1. Becomes(q, d) /\ pc # "sync"
    BY <1>4 DEF Start
  <2> HIDE DEF pc, todo
  <2>2. d.ret = "none" /\ d.pc = pc
    BY DEF Idle
  <2> HIDE DEF d
  <2>3. CASE q = p
    BY <2>1, <2>2, <2>3, MoveOutcome
  <2>4. CASE q # p
    BY <1>1, <2>1, <2>4 DEF Becomes, TypeOK
  <2> QED
    BY <2>3, <2>4
<1>5. CASE PowerLoss
  <2>1. call'[p].ret = "none" /\ call'[p].pc = "idle"
    BY <1>5 DEF PowerLoss, Idle
  <2> QED
    BY <2>1 DEF Outcome, Silent
<1>6. ASSUME NEW q \in Proc, Interrupt(q) \/ Crash(q) PROVE Outcome(p)
  <2>1. Leave(q, "error") \/ Becomes(q, Idle("none"))
    BY <1>6 DEF Interrupt, Crash
  <2>2. Idle("none").pc = "idle" /\ Idle("none").ret = "none"
    BY DEF Idle
  <2>3. CASE q = p
    BY <2>1, <2>2, <2>3, LeaveOutcome, MoveOutcome
  <2>4. CASE q # p
    <3>1. \E c : Becomes(q, c)
      BY <2>1 DEF Leave
    <3> QED
      BY <1>1, <2>4, <3>1 DEF Becomes, TypeOK
  <2> QED
    BY <2>3, <2>4
<1>7. ASSUME NEW i \in Input, NEW s, SetFile(i, s) PROVE Outcome(p)
  <2> DEFINE c == call[p]
             l == IF c.pc = "check" THEN c.live[i] \cup {s.bytes} ELSE {}
             d == [c EXCEPT !.dirty = TRUE, !.live[i] = l]
  <2>1. c \in Call /\ (call'[p] = c \/ call'[p] = d)
    BY <1>7 DEF SetFile, TypeOK
  <2> HIDE DEF c, l
  <2>2. d.ret = c.ret /\ d.pc = c.pc
    BY <2>1 DEF Call
  <2> HIDE DEF d
  <2> QED
    BY <2>1, <2>2 DEF Outcome, Silent, c
<1>8. ASSUME NEW q \in Proc, ReleaseFails(q) PROVE Outcome(p)
  <2>1. PICK d \in Call : Becomes(q, d) /\ d.ret \in {"none", "unsaved"} /\ d.pc \in {"idle", "fallback"}
    BY <1>8, Unreleased
  <2>2. CASE q = p
    <3>1. call'[p] = d
      BY <2>1, <2>2 DEF Becomes, TypeOK
    <3> QED
      BY <2>1, <3>1 DEF Outcome, Silent
  <2>3. CASE q # p
    BY <1>1, <2>1, <2>3 DEF Becomes, TypeOK
  <2> QED
    BY <2>2, <2>3
<1>9. CASE HeirLetsGo
  BY <1>1, <1>9 DEF HeirLetsGo
<1> QED
  BY <1>2, <1>3, <1>4, <1>5, <1>6, <1>7, <1>8, <1>9
     DEF Next, Environment, RemoveInput, WriteInput, RestoreMtime

-----------------------------------------------------------------------------
(* The theorems *)

\* What is complete in a record of the invariant agrees with the instant it is about.
LEMMA SeenAgrees == ASSUME NEW s, NEW g, Seen(s, g, {}) PROVE AgreesWith(s, g)
BY DEF Seen, AgreesWith

\* For any dataset, however often it changes during the checks: every file listed by
\* a cache that scan_cached serves was, all at one instant of the load, in the state
\* the cache records, as long as a rewritten file gets a new modification time.
THEOREM HitsAreSnapshots == Spec => HitIsSnapshot
<1>1. ASSUME TypeOK, SnapshotInv, [Next]_vars, NEW p \in Proc, Ends(p, "hit"), ~restored
      PROVE  AgreesWith(call[p].loaded, call[p].since)
  <2>1. Served(p)
    BY <1>1, NextOutcome DEF Outcome, Silent, Ends
  <2>2. Seen(call[p].loaded, call[p].since, {})
    BY <1>1, <2>1 DEF SnapshotInv, Instant, Served
  <2> QED
    BY <2>2, SeenAgrees
<1>2. TypeOK /\ SnapshotInv /\ [Next]_vars =>
         \A p \in Proc : Ends(p, "hit") /\ ~restored => AgreesWith(call[p].loaded, call[p].since)
  BY <1>1
<1> QED
  BY <1>2, SnapshotInvariant, PTL DEF Spec, HitIsSnapshot

\* For any dataset and any number of writers: what a save publishes or reuses was the
\* dataset at one instant of the save, although it was captured input by input.
THEOREM PublicationsAreSnapshots == Spec => PublicationIsSnapshot
<1>1. ASSUME TypeOK, SnapshotInv, [Next]_vars, NEW p \in Proc, ~restored,
             (call[p].pc = "validate" /\ call'[p].pc = "sync") \/ Ends(p, "reused")
      PROVE  AgreesWith(call[p].cap, call[p].since)
  <2>1. Instant(call[p], file, writes)
    BY <1>1 DEF SnapshotInv
  <2>2. (Served(p) /\ call[p].loaded = call[p].cap) \/ Checked(p)
    BY <1>1, NextOutcome DEF Outcome, Silent, Ends, Served
  <2>3. Seen(call[p].cap, call[p].since, {})
    BY <2>1, <2>2 DEF Instant, Served, Checked
  <2> QED
    BY <2>3, SeenAgrees
<1>2. TypeOK /\ SnapshotInv /\ [Next]_vars =>
         \A p \in Proc :
            ((call[p].pc = "validate" /\ call'[p].pc = "sync") \/ Ends(p, "reused")) /\ ~restored
               => AgreesWith(call[p].cap, call[p].since)
  BY <1>1
<1> QED
  BY <1>2, SnapshotInvariant, PTL DEF Spec, PublicationIsSnapshot

\* For any dataset, also when rewrites restore modification times: a content hit
\* serves contents that were there at some moment of the load.
THEOREM ContentHitsAreLive == Spec => ContentHitIsLive
<1>1. ASSUME TypeOK, SnapshotInv, [Next]_vars, NEW p \in Proc, Ends(p, "hit"),
             call[p].policy = "content"
      PROVE  \A i \in Input : call[p].loaded[i].bytes \in call[p].live[i]
  <2>1. Served(p)
    BY <1>1, NextOutcome DEF Outcome, Silent, Ends
  <2> QED
    BY <1>1, <2>1 DEF SnapshotInv, Lively, Served
<1>2. TypeOK /\ SnapshotInv /\ [Next]_vars =>
         \A p \in Proc :
            Ends(p, "hit") /\ call[p].policy = "content" =>
               \A i \in Input : call[p].loaded[i].bytes \in call[p].live[i]
  BY <1>1
<1> QED
  BY <1>2, SnapshotInvariant, PTL DEF Spec, ContentHitIsLive

\* For any number of calls and failures: InputChangedError is raised only at a step
\* that examines an input, by a call whose inputs changed while it ran or whose
\* examination failed; a failing lock, write, replace or sync never raises it.
THEOREM ChangesAreRaisedTruly == Spec => RaisedOnlyOnChange
<1>1. ASSUME TypeOK, SnapshotInv, [Next]_vars, NEW p \in Proc, Ends(p, "changed")
      PROVE  Examines(p) /\ (call[p].dirty \/ faults' # faults)
  <2>1. Discovered(p)
    BY <1>1, NextOutcome DEF Outcome, Silent, Ends
  <2>2. ASSUME ReadTrouble(p) PROVE call[p].dirty \/ faults' # faults
    BY <1>1, <2>2, ProtocolAssumption DEF ReadTrouble, Fault, TypeOK
  <2>3. ASSUME NEW i \in Input, call[p].pc \in {"validate", "revalidate"},
               ~Matches(call[p].cap[i], file[i], TRUE)
        PROVE  call[p].dirty
    <3>1. call[p].cap[i] # file[i]
      BY <2>3 DEF Matches
    <3> QED
      BY <1>1, <2>3, <3>1 DEF SnapshotInv, Clean, Scanned
  <2> QED
    BY <2>1, <2>2, <2>3 DEF Discovered
<1>2. TypeOK /\ SnapshotInv /\ [Next]_vars =>
         \A p \in Proc :
            Ends(p, "changed") => Examines(p) /\ (call[p].dirty \/ faults' # faults)
  BY <1>1
<1> QED
  BY <1>2, SnapshotInvariant, PTL DEF Spec, RaisedOnlyOnChange
=============================================================================
