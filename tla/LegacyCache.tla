----------------------------- MODULE LegacyCache -----------------------------
(***************************************************************************)
(* The dataset adapter of ultralytics.py: FastYOLODataset gets its labels  *)
(* from the trusted legacy cache, from the native one (CacheProtocol, here *)
(* only its outcome) or from a scan.  Loading a legacy cache goes through  *)
(* a helper that switches the process's garbage collector off and on, so   *)
(* the adapter serializes its loads and restores the collector; a cache is *)
(* published by replacement.  Threads of a process, a process it forks,    *)
(* the original YOLODataset writing the same path in place, changes of the *)
(* dataset, power loss.                                                    *)
(*                                                                         *)
(* A content of the dataset stands for the labels a scan makes of it.  The *)
(* schema checks of a loaded value are those only its writer decides.      *)
(***************************************************************************)
EXTENDS Integers

CONSTANTS
    Proc,           \* processes that run, or can be forked
    FirstProc,      \* those that run from the start
    Thread,         \* their threads
    HomeOf,         \* the process of every thread
    NoThread,       \* nobody has the lock
    Content,        \* contents of the dataset
    SizeOf,         \* what get_hash makes of a content: its total size
    Labelled,       \* contents with a label
    WithImages,     \* contents with a valid image
    Requests,       \* how datasets are constructed: records of
                    \*   mode          annotation_cache
                    \*   setting       what _cache_profile depends on
                    \*   augment       is it a training dataset?
    MaxCalls,       \* bound: datasets constructed
    MaxChanges,     \* bound: changes of the dataset or of the collector's setting
    MaxTrouble      \* bound: failing calls, foreign writes, deaths, power losses

ASSUME LegacyAssumption ==
    /\ FirstProc \subseteq Proc /\ HomeOf \in [Thread -> Proc] /\ NoThread \notin Thread
    /\ SizeOf \in [Content -> Nat] /\ Labelled \subseteq WithImages /\ WithImages \subseteq Content
    /\ \A r \in Requests : r.mode \in {"none", "native", "ultralytics"} /\ r.augment \in BOOLEAN
    /\ MaxCalls \in Nat /\ MaxChanges \in Nat /\ MaxTrouble \in Nat

VARIABLES
    running,        \* "unborn", "up" or "down"
    collector,      \* is the process's garbage collector enabled?
    wanted,         \* did the application want it enabled?
    inherited,      \* was the process forked in the middle of its parent's load?
    mutex,          \* _LEGACY_GC_LOCK of every process
    pc,             \* where every thread is
    enabled,        \* the collector's setting a load has remembered
    call,           \* the dataset every thread constructs
    content,        \* the dataset's files
    cache,          \* the legacy cache file
    calls, changes, trouble

collecting == <<running, collector, wanted, inherited, mutex>>
legacyVars == <<collecting, pc, enabled, call, content, cache, calls, changes, trouble>>

-----------------------------------------------------------------------------
\* The cache file.  A fast cache remembers what it was made of, the size it was
\* filed under, and whether the dataset stayed the same from scan to hash.
Absent == [kind |-> "absent"]
Torn(by) == [kind |-> "torn", by |-> by]
Foreign(c) == [kind |-> "foreign", of |-> c]
Fast(labels, size, steady, synced) ==
    [kind |-> "fast", labels |-> labels, size |-> size, steady |-> steady, synced |-> synced]

NoLabels == [kind |-> "none"]
LabelsOf(c, setting) == [kind |-> "labels", of |-> c, setting |-> setting]

NoCall ==
    [mode |-> "none", setting |-> "none", augment |-> FALSE, key |-> 0,
     got |-> Absent, labels |-> NoLabels, stored |-> 0, steady |-> TRUE,
     synced |-> FALSE, hit |-> FALSE, writeOk |-> "none"]

Home(t) == HomeOf[t]
At(t, place) == pc[t] = place /\ running[Home(t)] = "up"

\* The thread has taken the lock; it is changing the collector.
Locked(t) == pc[t] \in {"snapshot", "load", "reading", "restore"}
Loading(t) == pc[t] \in {"reading", "restore"}

NoTrouble == UNCHANGED trouble
Trouble == trouble < MaxTrouble /\ trouble' = trouble + 1

LegacyInit ==
    /\ running = [p \in Proc |-> IF p \in FirstProc THEN "up" ELSE "unborn"]
    /\ collector = [p \in Proc |-> TRUE] /\ wanted = [p \in Proc |-> TRUE]
    /\ inherited = [p \in Proc |-> FALSE]
    /\ mutex = [p \in Proc |-> NoThread]
    /\ pc = [t \in Thread |-> "idle"] /\ enabled = [t \in Thread |-> TRUE]
    /\ call = [t \in Thread |-> NoCall]
    /\ content \in Content /\ cache = Absent
    /\ calls = 0 /\ changes = 0 /\ trouble = 0

Step(t, place) == pc' = [pc EXCEPT ![t] = place]
Set(t, c) == call' = [call EXCEPT ![t] = c]

\* The request of a training or validation set, from build_yolo_dataset or not.
Built(r) == [NoCall EXCEPT !.mode = r.mode, !.setting = r.setting, !.augment = r.augment]

\* get_labels: the base class computes the hash that a cache must have; a native
\* cache needs none.
Keyed(c) == IF c.mode = "native" THEN c ELSE [c EXCEPT !.key = SizeOf[content]]

FirstStep(mode) == CASE mode = "none" -> "scan" [] mode = "native" -> "native" [] OTHER -> "stat"

\* check_profile: the versions, the image opener, the source of every function,
\* the module aliases and the dataset class must be those it was written for.
Hooks == {"version", "opener", "source", "alias", "class"}
Supported(replaced) == replaced \cap Hooks = {}

\* FastYOLODataset.__init__: a drifted dependency or an unsupported option is
\* refused before anything is read or written.
Construct(t, r) ==
    /\ running[Home(t)] = "up" /\ pc[t] \in {"idle", "ended", "raised"} /\ calls < MaxCalls
    /\ calls' = calls + 1
    /\ \E replaced \in {{}} \cup {{h} : h \in Hooks} :
          \/ Supported(replaced) /\ Set(t, Keyed(Built(r))) /\ Step(t, FirstStep(r.mode))
          \/ ~Supported(replaced) /\ Set(t, NoCall) /\ Step(t, "raised")
    /\ UNCHANGED <<collecting, enabled, content, cache, changes, trouble>>

\* What a step of a construction leaves alone.
Calling == UNCHANGED <<content, cache, calls, changes>>
Labelling == Calling /\ UNCHANGED <<collecting, enabled>>

\* A training dataset without any label raises, and so does one without an image.
Unusable(c) == (content \notin Labelled /\ c.augment) \/ content \notin WithImages

\* scan_cached finds a cache, or scans and writes one or not; all it leaves here
\* is what the dataset reports of it.
NativeLabels(t) ==
    /\ At(t, "native")
    /\ \E hit \in BOOLEAN, written \in BOOLEAN :
          Set(t, [call[t] EXCEPT
              !.hit = hit, !.writeOk = IF hit THEN "none" ELSE IF written THEN "yes" ELSE "no",
              !.labels = LabelsOf(content, call[t].setting)])
    /\ Step(t, IF Unusable(call[t]) THEN "raised" ELSE "ended")
    /\ Labelling /\ NoTrouble

-----------------------------------------------------------------------------
(* _read_trusted_legacy *)

\* A missing file is a miss before the lock is taken.
Stat(t) ==
    /\ At(t, "stat")
    /\ Step(t, IF cache.kind = "absent" THEN "scan" ELSE "lock")
    /\ Labelling /\ NoTrouble /\ UNCHANGED call

\* Mutant of Acquire: loads are not serialized.
AcquireNothing(t) ==
    /\ At(t, "lock") /\ Step(t, "snapshot")
    /\ Labelling /\ NoTrouble /\ UNCHANGED call

Acquire(t) ==
    /\ At(t, "lock") /\ mutex[Home(t)] = NoThread
    /\ mutex' = [mutex EXCEPT ![Home(t)] = t] /\ Step(t, "snapshot")
    /\ Calling /\ NoTrouble /\ UNCHANGED <<running, collector, wanted, inherited, enabled, call>>

\* enabled = gc.isenabled()
Snapshot(t) ==
    /\ At(t, "snapshot")
    /\ enabled' = [enabled EXCEPT ![t] = collector[Home(t)]] /\ Step(t, "load")
    /\ Calling /\ NoTrouble /\ UNCHANGED <<collecting, call>>

\* The helper disables the collector, reads the file, and enables the collector
\* again unless the read raised.
LoadBegins(t) ==
    /\ At(t, "load")
    /\ collector' = [collector EXCEPT ![Home(t)] = FALSE] /\ Step(t, "reading")
    /\ Calling /\ NoTrouble /\ UNCHANGED <<running, wanted, inherited, mutex, enabled, call>>

LoadEnds(t) ==
    /\ At(t, "reading")
    /\ Set(t, [call[t] EXCEPT !.got = cache])
    /\ collector' = [collector EXCEPT ![Home(t)] = cache.kind \in {"fast", "foreign"}]
    /\ Step(t, "restore")
    /\ Calling /\ NoTrouble /\ UNCHANGED <<running, wanted, inherited, mutex, enabled>>

\* The collector is restored, then the lock released.
Restore(t) ==
    /\ At(t, "restore")
    /\ collector' = [collector EXCEPT ![Home(t)] = enabled[t]]
    /\ mutex' = [mutex EXCEPT ![Home(t)] = NoThread] /\ Step(t, "check")
    /\ enabled' = [enabled EXCEPT ![t] = TRUE]
    /\ Calling /\ NoTrouble /\ UNCHANGED <<running, wanted, inherited, call>>

\* Version, hash and profile; a cache of the original class has no profile.
Accepted(c) ==
    c.got.kind = "fast" /\ c.got.size = c.key /\ c.got.labels.setting = c.setting

\* Anything else is a miss; a damaged pickle may also raise what nobody handles.
CheckLoaded(t) ==
    /\ At(t, "check")
    /\ \/ /\ Accepted(call[t]) /\ Step(t, "ended")
          /\ Set(t, [call[t] EXCEPT !.hit = TRUE, !.labels = call[t].got.labels,
                                    !.steady = call[t].got.steady])
       \/ ~Accepted(call[t]) /\ Step(t, "scan") /\ Set(t, [call[t] EXCEPT !.got = Absent])
       \/ call[t].got.kind = "torn" /\ Step(t, "raised") /\ UNCHANGED call
    /\ Labelling /\ NoTrouble

-----------------------------------------------------------------------------
(* cache_labels and _write_legacy *)

ScanLabels(t) ==
    /\ At(t, "scan")
    /\ Set(t, [call[t] EXCEPT !.labels = LabelsOf(content, call[t].setting)])
    /\ Step(t, IF Unusable(call[t]) THEN "raised" ELSE "hash")
    /\ Labelling /\ NoTrouble

\* Mutant of FiledUnder: the hash that get_labels computed before the scan.
FiledUnderKey(t) == call[t].key

\* get_cache_hash, once the labels are there.
FiledUnder(t) == SizeOf[content]

HashAfterScan(t) ==
    /\ At(t, "hash")
    /\ Set(t, [call[t] EXCEPT !.stored = FiledUnder(t), !.steady = (content = call[t].labels.of)])
    /\ Step(t, IF call[t].mode = "ultralytics" THEN "make" ELSE "ended")
    /\ Labelling /\ NoTrouble

\* An OSError leaves the labels without a cache.
Fails(t, place) ==
    Set(t, [call[t] EXCEPT !.writeOk = "no"]) /\ Step(t, place) /\ Trouble

MakeTemporary(t) ==
    /\ At(t, "make")
    /\ \/ Step(t, "save") /\ NoTrouble /\ UNCHANGED call
       \/ Fails(t, "ended")
    /\ Labelling

\* The helper writes the temporary, or only warns and leaves it empty.
Save(t) ==
    /\ At(t, "save")
    /\ \/ Step(t, "sync") /\ NoTrouble /\ UNCHANGED call
       \/ Fails(t, "clean")
    /\ Labelling

\* Mutant of Sync: fsync is left out.
NoSync(t) ==
    /\ At(t, "sync") /\ Step(t, "publish") /\ NoTrouble /\ UNCHANGED call
    /\ Labelling

Sync(t) ==
    /\ At(t, "sync")
    /\ \/ Step(t, "publish") /\ NoTrouble /\ Set(t, [call[t] EXCEPT !.synced = TRUE])
       \/ Fails(t, "clean")
    /\ Labelling

Publish(t) ==
    /\ At(t, "publish")
    /\ \/ /\ cache' = Fast(call[t].labels, call[t].stored, call[t].steady, call[t].synced)
          /\ Set(t, [call[t] EXCEPT !.writeOk = "yes"]) /\ Step(t, "clean") /\ NoTrouble
       \/ Fails(t, "clean") /\ UNCHANGED cache
    /\ UNCHANGED <<collecting, enabled, content, calls, changes>>

\* unlink, in the finally clause, raises unless the file is merely missing.
Clean(t) ==
    /\ At(t, "clean") /\ UNCHANGED call
    /\ \/ Step(t, "ended") /\ NoTrouble
       \/ Step(t, "raised") /\ Trouble
    /\ Labelling

-----------------------------------------------------------------------------
(* Processes and other programs *)

\* Mutant of ChildLock: the child keeps the lock it inherits.
ChildLockInherited(p) == mutex[p]

\* _reset_legacy_gc_lock, registered to run in every child.
ChildLock(p) == NoThread

\* A thread that is not itself loading forks; another one may be.
ForkChild(p, child) ==
    /\ running[p] = "up" /\ running[child] = "unborn"
    /\ \E t \in Thread : Home(t) = p /\ pc[t] \in {"idle", "ended", "raised"}
    /\ running' = [running EXCEPT ![child] = "up"]
    /\ collector' = [collector EXCEPT ![child] = collector[p]]
    /\ wanted' = [wanted EXCEPT ![child] = wanted[p]]
    /\ inherited' = [inherited EXCEPT ![child] =
           inherited[p] \/ \E t \in Thread : Home(t) = p /\ Loading(t)]
    /\ mutex' = [mutex EXCEPT ![child] = ChildLock(p)]
    /\ Calling /\ UNCHANGED <<pc, enabled, call, trouble>>

\* The application switches its collector while none of its threads loads.
Toggle(p) ==
    /\ running[p] = "up" /\ \A t \in Thread : Home(t) = p => ~Locked(t)
    /\ collector' = [collector EXCEPT ![p] = ~wanted[p]]
    /\ wanted' = [wanted EXCEPT ![p] = ~wanted[p]]
    /\ inherited' = [inherited EXCEPT ![p] = FALSE]
    /\ changes < MaxChanges /\ changes' = changes + 1
    /\ UNCHANGED <<running, mutex, pc, enabled, call, content, cache, calls, trouble>>

\* A killed process leaves the cache as it is.
Kill(p) ==
    /\ running[p] = "up" /\ Trouble
    /\ running' = [running EXCEPT ![p] = "down"]
    /\ pc' = [t \in Thread |-> IF Home(t) = p THEN "idle" ELSE pc[t]]
    /\ call' = [t \in Thread |-> IF Home(t) = p THEN NoCall ELSE call[t]]
    /\ Calling /\ UNCHANGED <<collector, wanted, inherited, mutex, enabled>>

\* What was not written through is lost; the first processes start again.
PowerLoss ==
    /\ Trouble
    /\ cache' = IF cache.kind = "fast" /\ ~cache.synced THEN Torn("power loss") ELSE cache
    /\ running' = [p \in Proc |-> IF p \in FirstProc THEN "up" ELSE "unborn"]
    /\ collector' = [p \in Proc |-> TRUE] /\ wanted' = [p \in Proc |-> TRUE]
    /\ inherited' = [p \in Proc |-> FALSE]
    /\ mutex' = [p \in Proc |-> NoThread] /\ pc' = [t \in Thread |-> "idle"]
    /\ call' = [t \in Thread |-> NoCall] /\ UNCHANGED <<enabled, content, calls, changes>>

\* The original class writes its cache to the path itself.
ForeignWrite ==
    /\ Trouble /\ cache' \in {Torn("foreign"), Foreign(content)}
    /\ UNCHANGED <<collecting, pc, enabled, call, content, calls, changes>>

ChangeDataset(c) ==
    /\ changes < MaxChanges /\ c # content
    /\ content' = c /\ changes' = changes + 1
    /\ UNCHANGED <<collecting, pc, enabled, call, cache, calls, trouble>>

LoadOrScan(t) ==
    \/ NativeLabels(t)
    \/ Stat(t) \/ Acquire(t) \/ Snapshot(t) \/ LoadBegins(t) \/ LoadEnds(t) \/ Restore(t)
    \/ CheckLoaded(t) \/ ScanLabels(t) \/ HashAfterScan(t)
    \/ MakeTemporary(t) \/ Save(t) \/ Sync(t) \/ Publish(t) \/ Clean(t)

LegacyNext ==
    \/ \E t \in Thread :
          \/ LoadOrScan(t)
          \/ \E r \in Requests : Construct(t, r)
    \/ \E p \in Proc : Kill(p) \/ Toggle(p) \/ \E child \in Proc : ForkChild(p, child)
    \/ PowerLoss \/ ForeignWrite
    \/ \E c \in Content : ChangeDataset(c)

LegacySpec == LegacyInit /\ [][LegacyNext]_legacyVars

-----------------------------------------------------------------------------
(* Properties *)

\* A load leaves the application's collector as the application set it, in every
\* process that was not forked in the middle of a load, whichever loads of its
\* threads overlap, fail or find nothing (_read_trusted_legacy, lines 94-103).
CollectorKept ==
    \A p \in Proc :
        /\ running[p] = "up" /\ ~inherited[p]
        /\ \A t \in Thread : Home(t) = p => ~Loading(t)
        => collector[p] = wanted[p]

\* A lock is held by a thread of its own process that is in the locked part, so no
\* load waits for a thread the fork left behind (_reset_legacy_gc_lock).
LockIsLocal ==
    \A p \in Proc :
        running[p] = "up" /\ mutex[p] # NoThread =>
            Home(mutex[p]) = p /\ Locked(mutex[p])

\* The labels a legacy cache answers with were scanned from a dataset of the size
\* the caller computed, with the caller's settings, unless the dataset changed
\* between the scan and the hash of their writer: neither a change, a writer with
\* other settings, the original class nor a torn file makes a wrong hit
\* (_read_trusted_legacy and cache_labels, lines 104-109 and 350-359).
HitIsSizeFresh ==
    \A t \in Thread :
        pc[t] = "ended" /\ call[t].mode = "ultralytics" /\ call[t].hit /\ call[t].steady =>
            /\ SizeOf[call[t].labels.of] = call[t].key
            /\ call[t].labels.setting = call[t].setting

\* A cache the adapter has published is whole whenever a reader finds it, also
\* after a power loss: only the original class, which writes the path in place,
\* leaves a torn one (mkstemp, fsync, os.replace of _write_legacy, lines 165-173).
TornIsForeign == cache.kind = "torn" => cache.by = "foreign"

\* A load never snapshots a collector that another load, of whichever process, has
\* switched off for a moment (the comment at lines 94-97 says so).
SnapshotIsWanted ==
    \A t \in Thread : pc[t] = "load" => enabled[t] = wanted[Home(t)]
=============================================================================
