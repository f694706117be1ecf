---------------------------- MODULE CacheProtocol ----------------------------
(***************************************************************************)
(* The native annotation cache of _cache.py: several processes that call   *)
(* scan_cached, or scan followed by save_cache, for the same ordered       *)
(* dataset and the same cache path, while the dataset files change under   *)
(* them, cache I/O fails, processes die and the machine loses power.       *)
(*                                                                         *)
(* An input is read in one step here: snapshot.rs opens it, hashes it and  *)
(* compares its stamps before and after, and SnapshotRead shows that what  *)
(* it accepts was the file at one instant.  The annotations of a result    *)
(* are a function of the captured inputs, so a result is represented by    *)
(* its provenance: what was captured of every input.                       *)
(*                                                                         *)
(* Abstracted: relative paths and the working directory, the lock file's   *)
(* path, a destination that is one of the inputs, repair_jpeg="reference"  *)
(* (the scan modelled here is the default, which never writes an input),   *)
(* inputs that are directories or devices.                                 *)
(***************************************************************************)
EXTENDS Integers, FiniteSets

CONSTANTS
    Proc,           \* processes that use the cache
    Nobody,         \* the lock's owner when it is free
    Heir,           \* its owner when children of a call that has gone keep it
    Pair,           \* image/label pairs of the dataset
    Bytes,          \* contents a file can have (all of one size)
    NoBytes,        \* the digest field of a missing file
    Policies,       \* fingerprint policies the calls use
    MaxPolls,       \* polls of a held lock before lock_timeout expires
    MaxWrites,      \* bound: changes of the dataset
    MaxFaults       \* bound: injected failures and crashes

ASSUME ProtocolAssumption ==
    /\ Nobody \notin Proc /\ Heir \notin Proc /\ Heir # Nobody
    /\ Bytes # {} /\ NoBytes \notin Bytes
    /\ Policies \subseteq {"content", "metadata"} /\ Policies # {}
    /\ MaxPolls \in Nat /\ MaxWrites \in Nat /\ MaxFaults \in Nat

VARIABLES
    file,       \* the dataset: every input's current state
    writes,     \* changes of the dataset so far; the next fresh mtime is writes + 2
    restored,   \* has a rewrite kept the modification time of its file?
    faults,     \* failures injected so far
    cache,      \* the entry at the cache path
    disk,       \* the entry the directory would show after a power loss
    lock,       \* the owner of the exclusive lock on <path>.lock
    call        \* every process's call of scan_cached or save_cache

vars == <<file, writes, restored, faults, cache, disk, lock, call>>

-----------------------------------------------------------------------------
Kinds == {"image", "label"}
Input == Pair \X Kinds

\* snapshot.rs Fingerprint: kind, modification time and digest.  The size is
\* left out: contents of different sizes are told apart by either policy.
FileState == [kind : {"file", "missing"}, bytes : Bytes \cup {NoBytes}, mtime : Nat]
Missing == [kind |-> "missing", bytes |-> NoBytes, mtime |-> 0]
Present(b, t) == [kind |-> "file", bytes |-> b, mtime |-> t]
Snapshot == [Input -> FileState]

\* What a path of the cache directory holds.  "none": no file, a damaged one, or
\* one written under another profile, path list or configuration.
EntryStates == {"none", "torn", "unsynced", "whole"}
Entry == [state : EntryStates, policy : Policies, proof : Snapshot]

PCs == {"idle", "read", "check", "open", "acquire", "scan", "begin", "write",
        "validate", "sync", "revalidate", "release", "fallback"}
Returns == {"none", "hit", "saved", "reused", "unsaved", "changed", "error", "rescan"}
Ops == {"scan_cached", "save_cache"}

Call == [op : Ops, policy : Policies, pc : PCs,
         polls : 0..MaxPolls,        \* polls left before the deadline
         todo : SUBSET Input,        \* inputs still to be read in this phase
         loaded : Snapshot,          \* provenance of the decoded cache
         cap : Snapshot,             \* what this call's scan captured
         unavailable : BOOLEAN,      \* an input could not be captured: no provenance
         temp : EntryStates,         \* this call's temporary file
         ret : Returns,              \* how the call ended, "none" before
         since : Snapshot,           \* history: the dataset when the load or the save began
         live : [Input -> SUBSET (Bytes \cup {NoBytes})],
                                     \* history: contents since the load began
         dirty : BOOLEAN]            \* history: the dataset changed since the call began

\* Mutants of Matches: the kind byte alone; the 25-byte prefix under any policy.
MatchesKind(stored, now, content) == stored.kind = now.kind
MatchesPrefix(stored, now, content) == stored.kind = now.kind /\ stored.mtime = now.mtime

\* The fingerprint comparison of provenance.rs: 57 bytes, or the first 25.
Matches(stored, now, content) ==
    /\ stored.kind = now.kind
    /\ stored.mtime = now.mtime
    /\ content => stored.bytes = now.bytes

\* _decode accepts a file that is complete and written for this request.
Decodes(e, policy) == e.state \in {"unsynced", "whole"} /\ e.policy = policy

\* verify_fingerprint_table is called for the images, then for the labels; the
\* inputs of one kind are read in parallel.
TableTurn(i, todo) == i \in todo /\ (i[2] = "label" => \A j \in todo : j[2] = "label")

\* A chunk of scan verifies its images, then its labels.  Whatever the chunk
\* size, the label of a pair is read after its image.
ScanTurn(i, todo) == i \in todo /\ (i[2] = "label" => <<i[1], "image">> \notin todo)

Fault == faults < MaxFaults /\ faults' = faults + 1
NoFault == UNCHANGED faults

\* The read of an input fails with any of its errors when the input changes under
\* it or a system call fails.
ReadTrouble(p) == (call[p].dirty /\ NoFault) \/ Fault
Held(p) == lock = p
dataset == <<file, writes, restored>>
paths == <<cache, disk>>

Nothing == [i \in Input |-> Missing]
NoContents == [i \in Input |-> {}]
AnyPolicy == CHOOSE policy \in Policies : TRUE

\* A process between calls; ret tells how its last call ended.
Idle(r) ==
    [op |-> "scan_cached", policy |-> AnyPolicy, pc |-> "idle", polls |-> MaxPolls,
     todo |-> {}, loaded |-> Nothing, cap |-> Nothing, unavailable |-> FALSE,
     temp |-> "none", ret |-> r, since |-> Nothing, live |-> NoContents, dirty |-> FALSE]

Becomes(p, c) == call' = [call EXCEPT ![p] = c]

\* Leave the call with the outcome r: through the finally clauses, which unlink
\* the temporary file and release the lock, when the lock is held.
Leave(p, r) ==
    Becomes(p,
        IF Held(p)
        THEN [call[p] EXCEPT !.pc = "release", !.ret = r, !.temp = "none", !.todo = {},
                             !.loaded = Nothing, !.since = Nothing, !.live = NoContents]
        ELSE Idle(r))
-----------------------------------------------------------------------------
NoEntry == [state |-> "none", policy |-> AnyPolicy, proof |-> Nothing]

\* An earlier session may have left a cache of the present inputs, a cache of
\* contents some of them no longer have, or none that can be used.
Init ==
    /\ file \in [Input -> {Present(b, 1) : b \in Bytes} \cup {Missing}]
    /\ writes = 0 /\ restored = FALSE /\ faults = 0
    /\ \/ cache = NoEntry
       \/ \E policy \in Policies, old \in SUBSET Input :
             cache = [state |-> "whole", policy |-> policy,
                      proof |-> [i \in Input |-> IF i \in old THEN Present(NoBytes, 0)
                                                 ELSE file[i]]]
    /\ disk = cache
    /\ lock = Nobody
    /\ call = [p \in Proc |-> Idle("none")]

-----------------------------------------------------------------------------
(* The calls *)

\* scan_cached starts with a load outside the lock; the other operation is
\* scan(fingerprint=...) followed by result.save_cache(path).
Start(p, op, policy) ==
    /\ call[p].pc = "idle"
    /\ Becomes(p,
          [Idle("none") EXCEPT !.op = op, !.policy = policy,
                               !.pc = IF op = "scan_cached" THEN "read" ELSE "scan",
                               !.todo = IF op = "scan_cached" THEN {} ELSE Input])
    /\ UNCHANGED <<dataset, faults, paths, lock>>

\* A CacheMiss: outside the lock the call goes for the lock; under the lock
\* scan_cached scans and save_cache writes.
Miss(p) ==
    LET next == IF ~Held(p) THEN "open"
                ELSE IF call[p].op = "scan_cached" THEN "scan" ELSE "begin"
    IN  Becomes(p, [call[p] EXCEPT !.pc = next, !.todo = IF next = "scan" THEN Input ELSE {},
                                   !.loaded = Nothing, !.since = Nothing, !.live = NoContents])

\* read_cache_sections and _decode.  The file is read through one handle, and
\* a published file is never written again, so a replacement meanwhile does
\* not matter: the entry is the one at the path when it was opened.
ReadCache(p) ==
    /\ call[p].pc = "read"
    /\ \/ /\ Decodes(cache, call[p].policy)
          /\ Becomes(p, [call[p] EXCEPT !.pc = "check", !.loaded = cache.proof, !.todo = Input,
                            !.since = file, !.live = [i \in Input |-> {file[i].bytes}]])
          /\ NoFault
       \/ ~Decodes(cache, call[p].policy) /\ Miss(p) /\ NoFault
       \/ Miss(p) /\ Fault                             \* OSError
    /\ UNCHANGED <<dataset, paths, lock>>

\* _validate_inputs of a load: content only under the content policy.  A
\* mismatch, an I/O error, the byte limit and a change during the read are
\* all misses.
CheckInput(p, i) ==
    /\ call[p].pc = "check"
    /\ TableTurn(i, call[p].todo)
    /\ LET ok == Matches(call[p].loaded[i], file[i], call[p].policy = "content")
       IN  \/ ok /\ Becomes(p, [call[p] EXCEPT !.todo = @ \ {i}]) /\ NoFault
           \/ ~ok /\ Miss(p) /\ NoFault
           \/ Miss(p) /\ ReadTrouble(p)
    /\ UNCHANGED <<dataset, paths, lock>>

\* Mutant of Hit: save_cache reuses any cache of its request.
HitReusesAny(p) ==
    /\ call[p].pc = "check" /\ call[p].todo = {}
    /\ Leave(p, IF call[p].op = "scan_cached" THEN "hit" ELSE "reused")
    /\ UNCHANGED <<dataset, faults, paths, lock>>

\* The load succeeded.  scan_cached returns it; save_cache compares it with its
\* own provenance and reuses it, after a content validation of its result when
\* the policy is metadata, or writes its own.
Hit(p) ==
    /\ call[p].pc = "check" /\ call[p].todo = {}
    /\ \/ call[p].op = "scan_cached" /\ Leave(p, "hit")
       \/ /\ call[p].op = "save_cache" /\ call[p].loaded = call[p].cap
          /\ call[p].policy = "content" /\ Leave(p, "reused")
       \/ /\ call[p].op = "save_cache" /\ call[p].loaded = call[p].cap
          /\ call[p].policy = "metadata"
          /\ Becomes(p, [call[p] EXCEPT !.pc = "revalidate", !.todo = Input])
       \/ /\ call[p].op = "save_cache" /\ call[p].loaded # call[p].cap
          /\ Becomes(p, [call[p] EXCEPT !.pc = "begin", !.loaded = Nothing,
                                         !.live = NoContents])
    /\ UNCHANGED <<dataset, faults, paths, lock>>

-----------------------------------------------------------------------------
(* The lock *)

\* A cache that cannot be used or written does not fail the call: scan_cached
\* scans without it, save_cache returns SaveResult(False).
WithoutCache(p) ==
    IF call[p].op = "scan_cached"
    THEN Becomes(p, [call[p] EXCEPT !.pc = "fallback", !.todo = Input])
    ELSE Leave(p, "unsaved")

\* _locked: create the directory, open the lock file, start the deadline.
OpenLock(p) ==
    /\ call[p].pc = "open"
    /\ \/ Becomes(p, [call[p] EXCEPT !.pc = "acquire", !.polls = MaxPolls]) /\ NoFault
       \/ WithoutCache(p) /\ Fault
    /\ UNCHANGED <<dataset, paths, lock>>

\* Mutants of Acquire: a lock that does not exclude; no second load.
AcquireShared(p) ==
    /\ call[p].pc = "acquire"
    /\ lock' = p
    /\ Becomes(p, [call[p] EXCEPT !.pc = "read", !.polls = MaxPolls])
    /\ UNCHANGED <<dataset, faults, paths>>
AcquireWithoutReload(p) ==
    /\ call[p].pc = "acquire" /\ lock = Nobody
    /\ lock' = p
    /\ Becomes(p, [call[p] EXCEPT
          !.pc = IF call[p].op = "scan_cached" THEN "scan" ELSE "begin",
          !.todo = IF call[p].op = "scan_cached" THEN Input ELSE {}])
    /\ UNCHANGED <<dataset, faults, paths>>

\* try_acquire succeeds; both operations load again under the lock.
Acquire(p) ==
    /\ call[p].pc = "acquire" /\ lock = Nobody
    /\ lock' = p
    /\ Becomes(p, [call[p] EXCEPT !.pc = "read", !.polls = MaxPolls])
    /\ UNCHANGED <<dataset, faults, paths>>

\* Mutants of Poll: the deadline is tested after the sleep only; never tested.
PollLate(p) ==
    /\ call[p].pc = "acquire" /\ lock # Nobody
    /\ IF call[p].polls >= 0
       THEN Becomes(p, [call[p] EXCEPT !.polls = @ - 1])
       ELSE WithoutCache(p)
    /\ UNCHANGED <<dataset, faults, paths, lock>>
PollForever(p) ==
    /\ call[p].pc = "acquire" /\ lock # Nobody
    /\ UNCHANGED vars

\* The lock is held by another process: sleep and poll, until the deadline.
Poll(p) ==
    /\ call[p].pc = "acquire" /\ lock # Nobody
    /\ IF call[p].polls > 0
       THEN Becomes(p, [call[p] EXCEPT !.polls = @ - 1])
       ELSE WithoutCache(p)                            \* TimeoutError
    /\ UNCHANGED <<dataset, faults, paths, lock>>

\* try_acquire raises an OSError that is not contention.
AcquireFails(p) ==
    /\ call[p].pc = "acquire"
    /\ WithoutCache(p) /\ Fault
    /\ UNCHANGED <<dataset, paths, lock>>

Release(p) ==
    /\ call[p].pc = "release"
    /\ lock' = Nobody
    /\ Becomes(p,
          IF call[p].ret = "rescan"
          THEN [call[p] EXCEPT !.pc = "fallback", !.todo = Input, !.ret = "none"]
          ELSE Idle(call[p].ret))
    /\ UNCHANGED <<dataset, faults, paths>>

-----------------------------------------------------------------------------
(* The scan *)

\* One input is captured: its fingerprint and the bytes the parser gets.
Capture(p, i) ==
    /\ call[p].pc \in {"scan", "fallback"}
    /\ ScanTurn(i, call[p].todo)
    /\ Becomes(p, [call[p] EXCEPT !.cap[i] = file[i], !.todo = @ \ {i}])
    /\ UNCHANGED <<dataset, faults, paths, lock>>

\* A fingerprinted read failed.  A byte limit or an OSError on an image makes the
\* result uncacheable, and the image is read again without a snapshot, as are the
\* labels of the chunk; InputChangedError ends the call; an OSError that leaves
\* scan makes scan_cached scan once more without the cache.
CaptureFails(p, i) ==
    /\ call[p].pc = "scan"
    /\ ScanTurn(i, call[p].todo)
    /\ \/ Becomes(p, [call[p] EXCEPT !.cap[i] = file[i], !.todo = @ \ {i},
                                     !.unavailable = TRUE])
       \/ Leave(p, "changed")
       \/ Leave(p, IF call[p].op = "scan_cached" THEN "rescan" ELSE "error")
    /\ ReadTrouble(p)
    /\ UNCHANGED <<dataset, paths, lock>>

FinishScan(p) ==
    /\ call[p].pc = "scan" /\ call[p].todo = {}
    /\ \/ call[p].unavailable /\ Leave(p, "unsaved")
       \/ /\ ~call[p].unavailable
          /\ Becomes(p, [call[p] EXCEPT
                !.pc = IF call[p].op = "scan_cached" THEN "begin" ELSE "open"])
    /\ UNCHANGED <<dataset, faults, paths, lock>>

\* The scan without fingerprints that replaces an unusable cache.
FinishFallback(p) ==
    /\ call[p].pc = "fallback" /\ call[p].todo = {}
    /\ Leave(p, "unsaved")
    /\ UNCHANGED <<dataset, faults, paths, lock>>

-----------------------------------------------------------------------------
(* The publication: _save_locked *)

\* write_cache_sections creates the uniquely named temporary file.
BeginWrite(p) ==
    /\ call[p].pc = "begin"
    /\ \/ /\ Becomes(p, [call[p] EXCEPT !.pc = "write", !.temp = "torn", !.since = file])
          /\ NoFault
       \/ Leave(p, "unsaved") /\ Fault                 \* OSError, the size limit
    /\ UNCHANGED <<dataset, paths, lock>>

\* Mutants of FinishWrite: no sync_all; no validation after the serialization.
FinishWriteUnsynced(p) ==
    /\ call[p].pc = "write"
    /\ Becomes(p, [call[p] EXCEPT !.pc = "validate", !.temp = "unsynced", !.todo = Input])
    /\ UNCHANGED <<dataset, faults, paths, lock>>
FinishWriteUnchecked(p) ==
    /\ call[p].pc = "write"
    /\ Becomes(p, [call[p] EXCEPT !.pc = "validate", !.temp = "whole", !.todo = {}])
    /\ UNCHANGED <<dataset, faults, paths, lock>>

\* All sections written, flushed and synced.
FinishWrite(p) ==
    /\ call[p].pc = "write"
    /\ \/ /\ Becomes(p, [call[p] EXCEPT !.pc = "validate", !.temp = "whole", !.todo = Input])
          /\ NoFault
       \/ Leave(p, "unsaved") /\ Fault
    /\ UNCHANGED <<dataset, paths, lock>>

\* Mutant of ValidateInput: the inputs are compared with the cache that was loaded.
ValidateLoaded(p, i) ==
    /\ call[p].pc \in {"validate", "revalidate"}
    /\ TableTurn(i, call[p].todo)
    /\ IF Matches(call[p].loaded[i], file[i], TRUE)
       THEN Becomes(p, [call[p] EXCEPT !.todo = @ \ {i}])
       ELSE Leave(p, "changed")
    /\ UNCHANGED <<dataset, faults, paths, lock>>

\* _validate_inputs of a save, under either policy with content: the last step
\* before the publication, and the check of a result about to be reused.
ValidateInput(p, i) ==
    /\ call[p].pc \in {"validate", "revalidate"}
    /\ TableTurn(i, call[p].todo)
    /\ LET ok == Matches(call[p].cap[i], file[i], TRUE)
       IN  \/ ok /\ Becomes(p, [call[p] EXCEPT !.todo = @ \ {i}]) /\ NoFault
           \/ ~ok /\ Leave(p, "changed") /\ NoFault
           \/ Leave(p, "changed") /\ ReadTrouble(p)
           \/ Leave(p, "unsaved") /\ ReadTrouble(p)    \* OSError, SnapshotLimitError
           \/ call[p].pc = "revalidate" /\ Leave(p, "error") /\ ReadTrouble(p)
                                       \* save_cache lets SnapshotLimitError out
    /\ UNCHANGED <<dataset, paths, lock>>

FinishRevalidate(p) ==
    /\ call[p].pc = "revalidate" /\ call[p].todo = {}
    /\ Leave(p, "reused")
    /\ UNCHANGED <<dataset, faults, paths, lock>>

\* Mutant of Replace: a failure of os.replace raises what a changed input raises.
ReplaceRaises(p) ==
    /\ call[p].pc = "validate" /\ call[p].todo = {}
    /\ \/ /\ cache' = [state |-> call[p].temp, policy |-> call[p].policy, proof |-> call[p].cap]
          /\ Becomes(p, [call[p] EXCEPT !.pc = "sync", !.temp = "none"])
          /\ NoFault
       \/ Leave(p, "changed") /\ Fault /\ UNCHANGED cache
    /\ UNCHANGED <<dataset, disk, lock>>

\* os.replace moves the temporary file over the cache path.
Replace(p) ==
    /\ call[p].pc = "validate" /\ call[p].todo = {}
    /\ \/ /\ cache' = [state |-> call[p].temp, policy |-> call[p].policy, proof |-> call[p].cap]
          /\ Becomes(p, [call[p] EXCEPT !.pc = "sync", !.temp = "none"])
          /\ NoFault
       \/ Leave(p, "unsaved") /\ Fault /\ UNCHANGED cache
    /\ UNCHANGED <<dataset, disk, lock>>

\* sync_directory.  Its failure is reported, with the new cache in place.
SyncDirectory(p) ==
    /\ call[p].pc = "sync"
    /\ \/ disk' = cache /\ Leave(p, "saved") /\ NoFault
       \/ Leave(p, "unsaved") /\ Fault /\ UNCHANGED disk
    /\ UNCHANGED <<dataset, cache, lock>>

-----------------------------------------------------------------------------
(* The environment *)

\* KeyboardInterrupt or MemoryError: the call ends through its finally clauses.
Interrupt(p) ==
    /\ call[p].pc \notin {"idle", "release"}
    /\ Leave(p, "error") /\ Fault
    /\ UNCHANGED <<dataset, paths, lock>>

\* The unlock call of release fails.  The lock file is closed all the same, and the
\* lock goes with it unless a child forked meanwhile has inherited the file.  The
\* OSError takes the place of what the call was about to return or to raise; then
\* scan_cached, if it has no result yet, scans without the cache.
ReleaseFails(p) ==
    /\ call[p].pc = "release"
    /\ lock' \in {Nobody, Heir}
    /\ \/ /\ call[p].op = "save_cache" \/ call[p].ret \notin {"hit", "rescan"}
          /\ Becomes(p, Idle("unsaved"))
       \/ /\ call[p].op = "scan_cached" /\ call[p].ret \in {"hit", "rescan", "changed", "error"}
          /\ Becomes(p, [call[p] EXCEPT !.pc = "fallback", !.todo = Input, !.ret = "none"])
    /\ Fault
    /\ UNCHANGED <<dataset, paths>>

\* The last child that kept the lock closes its file or dies.
HeirLetsGo ==
    /\ lock = Heir /\ lock' = Nobody
    /\ UNCHANGED <<dataset, faults, paths, call>>

\* A killed process: the kernel drops its lock with the file, which a child may
\* still have open; its temporary file stays under a name nothing else uses.
Crash(p) ==
    /\ call[p].pc # "idle"
    /\ Becomes(p, Idle("none"))
    /\ lock' \in IF Held(p) THEN {Nobody, Heir} ELSE {lock}
    /\ Fault
    /\ UNCHANGED <<dataset, paths>>

\* A power loss ends every process, keeps the old or the new directory entry
\* when the rename was not synced, and tears contents that were not synced.
PowerLoss ==
    /\ \E e \in {cache, disk} :
          cache' = IF e.state = "unsynced" THEN [e EXCEPT !.state = "torn"] ELSE e
    /\ disk' = cache'
    /\ lock' = Nobody
    /\ call' = [p \in Proc |-> Idle("none")]
    /\ Fault
    /\ UNCHANGED dataset

\* The dataset changes: written (with a fresh modification time, or with the
\* old one restored), or removed.
SetFile(i, s) ==
    /\ writes < MaxWrites /\ s # file[i]
    /\ writes' = writes + 1
    /\ file' = [file EXCEPT ![i] = s]
    /\ call' = [p \in Proc |->
          IF call[p].pc = "idle" THEN call[p]
          ELSE [call[p] EXCEPT !.dirty = TRUE,
                               !.live[i] = IF call[p].pc = "check" THEN @ \cup {s.bytes} ELSE {}]]
    /\ UNCHANGED <<faults, paths, lock>>

WriteInput(i, b) == SetFile(i, Present(b, writes + 2)) /\ UNCHANGED restored
RestoreMtime(i, b) ==
    /\ file[i].kind = "file" /\ restored' = TRUE
    /\ SetFile(i, Present(b, file[i].mtime))
RemoveInput(i) == SetFile(i, Missing) /\ UNCHANGED restored

-----------------------------------------------------------------------------
\* The steps a process takes by itself, in the order of a call.
Step(p) ==
    \/ ReadCache(p) \/ Hit(p) \/ OpenLock(p) \/ Acquire(p) \/ Poll(p)
    \/ AcquireFails(p) \/ Release(p)
    \/ FinishScan(p) \/ FinishFallback(p)
    \/ BeginWrite(p) \/ FinishWrite(p) \/ FinishRevalidate(p) \/ Replace(p) \/ SyncDirectory(p)
    \/ \E i \in Input :
          CheckInput(p, i) \/ Capture(p, i) \/ CaptureFails(p, i) \/ ValidateInput(p, i)

Environment ==
    \/ PowerLoss \/ HeirLetsGo
    \/ \E p \in Proc : Interrupt(p) \/ ReleaseFails(p) \/ Crash(p)
    \/ \E i \in Input : RemoveInput(i) \/ \E b \in Bytes : WriteInput(i, b) \/ RestoreMtime(i, b)

Next ==
    \/ \E p \in Proc : Step(p) \/ \E op \in Ops, policy \in Policies : Start(p, op, policy)
    \/ Environment

Spec == Init /\ [][Next]_vars

\* A process that is scheduled keeps executing its call.  Nothing makes it
\* start one, and the dataset and the failures owe nothing.
FairSpec == Spec /\ \A p \in Proc : WF_vars(Step(p))

-----------------------------------------------------------------------------
(* Properties *)

TypeOK ==
    /\ file \in Snapshot
    /\ writes \in 0..MaxWrites /\ restored \in BOOLEAN /\ faults \in 0..MaxFaults
    /\ cache \in Entry /\ disk \in Entry
    /\ lock \in Proc \cup {Nobody, Heir}
    /\ call \in [Proc -> Call]

\* Every file of the recorded snapshot was in that state when the dataset was g.
\* A missing input has no stamp that tells two absences apart.
AgreesWith(s, g) == \A i \in Input : s[i].kind = "file" => g[i] = s[i]

\* The lock is held through the whole critical section and by no call outside
\* it, so two writers never publish at once (_locked, CacheLock).
LockOwnership ==
    \A p \in Proc :
        LET c == call[p]
        IN  /\ c.pc \in {"begin", "write", "validate", "sync", "revalidate", "release"} => Held(p)
            /\ c.pc = "scan" => (Held(p) <=> c.op = "scan_cached")
            /\ c.pc \in {"idle", "open", "acquire", "fallback"} => ~Held(p)

\* What the cache path shows is never a partly written file, whoever dies and
\* whenever the power fails: the file is synced before it is moved there.
NeverTorn == cache.state # "torn" /\ disk.state # "torn"

\* The step in which p's call ends with the outcome r.
Ends(p, r) == call[p].ret = "none" /\ call'[p].ret = r

\* A hit is the dataset at one instant of the call: every file it lists was, all
\* at the same time, in the state the cache recorded, although the check reads
\* the inputs one after the other (_load_requested, _validate_inputs).  It holds
\* as long as a rewritten file gets a new modification time.
HitIsSnapshot ==
    [][\A p \in Proc : Ends(p, "hit") /\ ~restored => AgreesWith(call[p].loaded, call[p].since)]_vars

\* What is published or reused is the dataset at one instant of the call,
\* although it was captured input by input while files changed: a scan whose
\* inputs changed is never saved (_save_locked validates after serialization).
PublicationIsSnapshot ==
    [][\A p \in Proc :
          ((call[p].pc = "validate" /\ call'[p].pc = "sync") \/ Ends(p, "reused")) /\ ~restored
             => AgreesWith(call[p].cap, call[p].since)]_vars

\* While a call that reports saved or reused still has the lock, the cache path
\* holds its result; a save also made it durable (save_cache, scan_cached).
SavedMeansPublished ==
    \A p \in Proc :
        call[p].pc = "release" /\ call[p].ret \in {"saved", "reused"} =>
            /\ cache = [state |-> "whole", policy |-> call[p].policy, proof |-> call[p].cap]
            /\ call[p].ret = "saved" => disk = cache

\* The call reads its inputs to capture or to validate them, and has not read all.
Examines(p) == call[p].pc \in {"scan", "validate", "revalidate"} /\ call[p].todo # {}

\* InputChangedError is raised only at a step that examines an input, and only when
\* an input has changed during the call or that examination itself failed.  No
\* failure of the cache, the lock or the publication is turned into one, whether or
\* not the dataset changed meanwhile, and neither is a stale cache (save_cache,
\* scan_cached, the handlers of _save_locked).
RaisedOnlyOnChange ==
    [][\A p \in Proc :
          Ends(p, "changed") => Examines(p) /\ (call[p].dirty \/ faults' # faults)]_vars

\* A content hit never serves contents that were gone before the load began,
\* even when a rewrite restored the modification time (docs/CACHE.md).
ContentHitIsLive ==
    [][\A p \in Proc :
          Ends(p, "hit") /\ call[p].policy = "content" =>
             \A i \in Input : call[p].loaded[i].bytes \in call[p].live[i]]_vars

\* A call whose inputs stayed the same and which met no failure never scans
\* under the lock while the cache path holds a cache that serves it: the writer
\* it waited for has done the scan (the second load of scan_cached).
NoRepeatedScan ==
    [][\A p \in Proc :
          (call[p].pc # "scan" /\ call'[p].pc = "scan" /\ lock' = p /\ ~call[p].dirty /\ faults' = 0)
          => ~ (/\ Decodes(cache, call[p].policy)
                /\ \A i \in Input : Matches(cache.proof[i], file[i], call[p].policy = "content"))]_vars

\* Every call returns: it gets the lock or gives up at its deadline.
EveryCallReturns == \A p \in Proc : call[p].pc # "idle" ~> call[p].pc = "idle"
=============================================================================
