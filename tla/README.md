# Verification of ultrafast-yolo-dataset

TLA+ specifications of the library's annotation scan, its caches and the
experiments that measured it, checked with TLC on small instances and, where it
says so, proved with TLAPS for every value of the constants.

## The system

`scan` verifies the images of a dataset with Pillow and parses their label files
with a Rust engine; labels the engine is not sure of go to a preserved copy of
the Ultralytics verifier. `scan(fingerprint=...)` also captures, for every input,
a fingerprint of exactly the bytes that were parsed. `save_cache` and
`scan_cached` publish such a result in a `.uydcache` file that `load_cache`
serves again as long as the inputs match their fingerprints. Several processes
(the ranks of a training job) share one cache path. `FastYOLODataset` puts this
under the Ultralytics dataset class, and can also use that class's own `.cache`
file. The numbers in the documentation come from experiments that run one worker
process after the other and audit what they left.

| Part | Source | State it keeps | Operations | Module |
|---|---|---|---|---|
| Cache protocol | `_cache.py`, `cache.rs` | the cache file, its lock file, temporary files | `load_cache`, `save_cache`, `scan_cached` | `CacheProtocol`, `ExclusiveLock` |
| Cache container | `cache.rs` | none between calls; a file during one | `write_cache_sections`, `read_cache_sections` | `CacheContainer` |
| Input snapshot | `snapshot.rs` | none between calls; an open handle during one | `read_impl` and its callers | `SnapshotRead`, `AtomicRead` |
| Label parser | `parser.rs`, `_reference.py` | none | `parse`, `verify_image_label` | `Labels` |
| Scan and merge | `_scan.py`, `_snapshots.py`, `snapshot.rs`, `lib.rs` | the lists a result is built of, the shared fallback budget | `scan`, `snapshot_labels`, `parse_files`, `ScanResult` | `ScanMerge` |
| Materialisation | `materialize.rs` | none | `materialize_labels` | `ScanMerge` (`Materialize`) |
| Provenance table | `provenance.rs` | none | pack, check, verify | `CacheProtocol` (`Matches`) |
| Cache encoder | `_cache.py` | none | `_encode`, `_decode` | `ScanMerge` (`ValidArrays`), `CacheProtocol` (entry states) |
| Lock handle across fork | `cache.rs` | pid, held flag | `try_acquire`, `release`, drop | `LockHandle`, `ExclusiveLock` |
| JPEG repair | `_snapshots.py`, `_scan.py` | the image file | `verify_image` with `save_repaired` | `ImageRepair` |
| Legacy bridge, dataset adapter, profile check | `ultralytics.py` | the collector switch and its lock, the `.cache` file | `_read_trusted_legacy`, `_write_legacy`, `FastYOLODataset`, `build_yolo_dataset`, `check_profile` | `LegacyCache` |
| Worker experiments | `validation_workers.py`, `startup_worker_trial.py`, `cache_startup.py`, `summarize_validation_workers.py` and `audit_startup_workers.py` of `bench/`, the pilot and the full campaign of `docs/validation/` | reports, files that must not change, worker processes | series, pilot, full campaign, audits | `WorkerCampaigns` |
| Version comparison | `snapshot_startup_comparison.py`, `cache_startup.py` and the checks of `cache_read_comparison.py` in `bench/`; its launcher, watcher, auditor and sealer in `docs/validation/` | receipts, the report, the caches of both versions, worker processes, the archive | launch, compare, watch and audit, seal | `VersionComparison` |
| Other benchmarks, audits and build scripts | `bench/`, `docs/validation/` | | | not modelled |

How they meet:

- `scan` calls the snapshot reader for every image and label: a read accepted by
  `SnapshotRead` is one step of `ScanMerge`, and one of `CacheProtocol`.
- A `ScanResult` carries the fingerprints, and `ScanMerge!AnnotationsMatchProofs` is
  the reason why `CacheProtocol` may represent a result by its fingerprints alone.
- `ReadCache` of `CacheProtocol` reads the cache in one step, and a save's file is
  whole or torn there: `CacheContainer!AcceptedWasThere` is why it may.
- `ImageRepair` is the one place where the library itself writes the dataset;
  `VerifyImage` of `ScanMerge` is a call of it on an image that needs no repair.
- `ExclusiveLock` stands between `LockHandle`, which implements it, and `CacheProtocol`,
  whose `Acquire`, `Release`, `ReleaseFails` and `Crash` use nothing else of a lock. A
  forked child that outlives the owner, or an unlock that fails, leaves the lock
  taken in all three (`Heir` of `CacheProtocol`).
- `LegacyCache` calls the native cache and the scan, each as one step with its
  outcome. Beside `LockHandle` it is the other part a fork copies, and `MCForks`
  checks both.
- The programs of `WorkerCampaigns` meet in files only: the series is audited, the
  pilot needs the audit, the full campaign the pilot, the final audit all of them.
- Those of `VersionComparison` meet in files and in processes: the launcher waits for
  the comparison and the comparison for its workers, but the watcher is told of the
  launcher and the comparison only, and the sealer of nobody.

What is hard here: other programs write the dataset during every one of these
steps; processes race for one cache path and may die or lose power while they
publish; results of parallel readers are put back in order by index arithmetic;
two parsers must agree; a fork copies locks and switches in the middle of a use;
an experiment must notice whatever would make its evidence worthless.
`PROJECT.json` lists each hazard at its line with the properties that cover it.

## Modules

**`CacheProtocol`.** Every process has a record `call[p]` with the point of
`scan_cached` or `save_cache` it has reached (`pc`), what it loaded, captured and
wrote, and how the call ended. One action per step that other processes or the
environment can see: `ReadCache`/`CheckInput`/`Hit` are `_load_requested`,
`OpenLock`/`Acquire`/`Poll`/`AcquireFails`/`Release` are `_locked` with
`CacheLock`, `Capture`/`CaptureFails`/`FinishScan` the scan inside the lock,
`BeginWrite`/`FinishWrite`/`ValidateInput`/`Replace`/`SyncDirectory` are
`_save_locked`, `ValidateInput` in the phase `revalidate` the reuse branch of
`save_cache`, and `FinishFallback` ends the uncached scan that follows a cache
failure. `file` is the dataset, `cache` what the cache path shows, `disk` what
the directory would show after a power loss. The environment writes, removes and
restores inputs, interrupts and kills processes and cuts the power. A process
that is killed while it has the lock, or fails to unlock it (`ReleaseFails`), leaves
it free or with `Heir`, the children it forked, until they let go (`HeirLetsGo`). The
error of a failing unlock takes the place of whatever the call was about to return
or raise, as in any `finally`. `since`,
`live` and `dirty` are history for the properties; no action reads them but
`dirty`, which bounds when a read may fail because its input changed.

**`CacheContainer`.** A cache file is a sequence of cells: a header with the number
of sections, a row with length and checksum for each, and the sections' chunks.
`BeginSave` compares the limits and creates the file, `WriteCell` is one
`write_all`, `PublishSave` the sync with the replace, `AbandonSave` a failure or a
death. The reader goes `Examine`, `OpenCache`, `Measure`, `ReadHeader`, `ReadRow`
(every bound of the table, in machine words), `ReadChunk`, `CheckSection`,
`FinalCheck`. Other programs damage, cut and extend the file, copy another cache
over it, give it an old time, or move it. What the path holds at first is any of
a set of damaged files.

**`SnapshotRead`, `AtomicRead`.** `read_impl` system call by system call:
`StatPath`, `Open`, `CompareHandle`, `ReadBlock` once per buffer, `RecheckPath`,
`Finish`. Other programs overwrite, extend, truncate, rename, unlink, create and
set times. A stamp holds size, modification time, inode and change time; the
clock may stand still between two changes, and then stamps cannot tell them
apart: `settled` says whether the file's last change was older than the present
tick when the call first looked. `AtomicRead` is the promise: a settled call
answers with what the path showed at one instant between its start and its
end, or with an error.

**`Labels`.** `Parse` is `parser.rs`, `Verify` the label half of
`verify_image_label`. A text is a sequence of lines of tokens; numbers are exact
integers in units of 1/200. A sort is `Ordered`, the members of a set in the order of
a relation: the member of rank i is that with i smaller ones.

**`ScanMerge`.** `scan` chunk by chunk: `VerifyImage` for each image of the chunk
in any order, `CaptureLabel` for each label of a valid image in any order with
the budget they share, `FingerprintInvalid` for the rest, `PackChunk`
(`PackedLabels`), then `SkipInvalid`/`MergeNative`/`MergeReference`/`MergeTooLarge`
source by source with `position` and `segmentIndex` of the loop. When a capture
fails the chunk goes through `ParseFile` instead and the result becomes
unavailable for caching. `Result` is `ScanResult.__init__`, `Materialize` is
`materialize_labels`, `ValidArrays` the data-dependent part of `_validate_arrays`.
A constant set of scans says which datasets, options and disturbances are tried;
one of them is a single label with every text of a few lines.

**`LockHandle`.** `CacheLock` of `cache.rs` in processes that fork. A handle shares
one open file among all processes that inherited it, and the file lock belongs to
that open file; what each process has of its own is its copy of the `held` flag
and of the descriptor. `TryAcquire`, `Release` and `Drop` compare the process
with `creator`, `Release` may fail to unlock, `Die` closes what a process had.
A process is
inside (`Inside`) from a successful `TryAcquire` until it closes its descriptor.

**`ExclusiveLock`.** What a lock promises: `Enter` only when it is free, `Leave` frees it,
`Abandon` leaves it to children of a user that died or failed to unlock, `Lapse` is
their giving it up. Under the mapping of `LockHandle` the processes that are
`Inside` are inside, the lock is taken as long as an open file has it, and lost are the dead
processes, and all of them once an unlock call has failed, because the model does
not record whose call it was.

**`LegacyCache`.** Threads of a process and of a child it may fork construct
datasets. `Construct` decides with the mode, the profile (`Supported`) and the
hyperparameters which cache is tried; `NativeLabels` is `scan_cached` with its
outcome. `Stat`, `Acquire`, `Snapshot`, `LoadBegins`, `LoadEnds`, `Restore`,
`CheckLoaded` are `_read_trusted_legacy`: the helper of Ultralytics switches the
garbage collector of the process off and on, and the adapter remembers and
restores it under `mutex`. `ScanLabels`, `HashAfterScan`, `MakeTemporary`, `Save`,
`Sync`, `Publish`, `Clean` are the scan and `_write_legacy`. `ForkChild` copies the
collector and replaces the lock as the registered handler does. The original
class writes the same path in place (`ForeignWrite`), the dataset changes,
processes die, the power fails.

**`WorkerCampaigns`.** Three controllers (series, pilot, full campaign) and two
auditors, each invoked at most twice; a trial is a worker process with its own
steps (`Opens`, `Imports`, `Checks`, `Verifies`, `Fingerprints`, `Starts`, `Ends`).
A controller reserves its report, prepares and hashes what must not change,
then for every trial of its plan announces, launches, waits, and after a timeout
terminates and kills; it collects the trial's report, validates it, and goes on or
fails. Auditors read the report they rest on, hash and read every raw report, and
accept. Accidents: second invocations, interrupts, deaths, workers that hang, fail
or are stopped, a file or a library that is replaced, a raw report that is
damaged. A digest is represented by what it was computed from.

**`VersionComparison`.** Two wheels are compared by fresh workers: rebuilds by turns,
a primer of each, hits by turns (`WholePlan`). `LaunchChecks`, `Announces`,
`OpensLog`, `Returns`, `Confirms` are the launcher, whose log is the file that is
created exclusively; `Prepares`, then for every trial `LaunchesTrial`,
`CollectsTrial`, `RecordsTrial`, and `Completes` or `SavesFailure`, the comparison;
`Loads`, `Describes`, `ClearsCache`, `ConstructsDataset`, `ConfirmsTrial`, `Inspects`
a worker, which imports the library before it compares it with what names it. The
watcher goes `WatchReserves`, `Looks`, `Awaits`, `ReadsReceipts`, and runs the
auditor (`AuditsCaches`, then `AuditsRow` and `Digests` for every record) before it
`Concludes`; the sealer `Gathers`, `Packs` and `ReadsBack`. `caches` records with every
cache the trial that built it, which is not in its bytes. Any program can be started
a second time or too early, interrupted (`subprocess.run` then kills the child it
waits for, but not the child's own) or killed; workers fail, inputs and installed
versions change, caches are damaged, outputs edited.

**`ImageRepair`.** `verify_image` on one path, by as many workers as the path is
listed. `ReadSnapshot`, `Check` and the `Direct...` actions decide as
`_check_image` does; `CheckBeforeRepair`, `OpenForWrite`, `WritePart`, `WriteAll`,
`Reread` are `save_repaired`. Contents are kinds (intact, damaged, too large once
repaired, ...) and the number of times they were encoded; the state between the
truncation and the end of a write is visible to everybody else. `Change` and
`Unlink` are other programs, `faults` counts failing system calls.

**`*Proofs`** hold the theorems; `MC*` and the `.cfg` files the instances for TLC.
Three of them hold two components whose states are disjoint: a behaviour of
`MCForks`, `MCImageRepair` or `MCExperiments` is of one of the two, and the other stays
as it began.

## Runs

| Run | Instance | Shows |
|---|---|---|
| `protocol_two` | 2 processes, 1 pair, 1 change, 1 failure/crash/power loss, content policy | `LockOwnership`, `NeverTorn`, `SavedMeansPublished`, `RaisedOnlyOnChange`, `NoRepeatedScan`, `TypeOK` |
| `protocol_dataset` | 1 process, both policies, 2 contents, 3 changes of the dataset | `HitIsSnapshot`, `PublicationIsSnapshot`, `ContentHitIsLive` |
| `protocol_live` | 2 processes, 1 failure, fairness | `EveryCallReturns` |
| `snapshot_read` | 2 inodes, 2 block contents, limit 2, length 3, 3 changes, 1 failure | `ImplementsAtomicRead` (refinement), `ChangedIsReal`, `RetainedWithinLimit` |
| `scan` | 3 steady sources in chunks of 2 and of 3; 2 sources with 1 change and 1 failure; one label with every text of up to 3 of 33 lines, and one with a row of infinite class, both values of `single_cls` | `ScanIsReference`, `FallbackWithinLimit`, `AnnotationsMatchProofs`, `RefusedOnlyForInfinite`, `NativeIsReference`, `ReferenceOnlyWhenUnclear` |
| `forks` | 2 processes and 2 forked children, 3 handles, 1 failing unlock; or 2 threads and a forked child, 2 datasets constructed, 1 change, 1 trouble | `InsideMeansLocked`, `ImplementsExclusiveLock` (refinement); `CollectorKept`, `LockIsLocal`, `HitIsSizeFresh`, `TornIsForeign` |
| `image_repair` | 2 workers on one image, 2 changes, 1 failing call; or a cache of up to 2 sections in one of 2 files, 5 files that are there at first, 1 change, 1 trouble | `PublishableIsRight`, `RepairsCompose`, `OverwritesOnlyWhatItRead`; `AcceptedWasThere`, `PublishedIsAccepted`, `ReservedWithinBudget` |
| `experiments` | 2 settings (a series of 6 trials), a pilot of 2 cases, a full campaign of 2 pairs, 1 accident anywhere in the chain; or a comparison of 2 rebuilds, 2 primers and 2 hits, 2 invocations of each program, 1 mishap | `PassedIsWholePlan`, `MeasuredUsedTheNamed`, `OneWorkerAtATime`, `SummaryIsCollected`, `FinalRestsOnPassed`, `EarlierReportKept`, `CampaignEnds`; `AuditedAlone`, `SealedIsMeasured` |
| `scan_infinite` | 1 source, a label of infinite class, `single_cls` | a finding: `ValidResultIsEncodable` is violated |
| `image_grows` | 1 worker, 1 change | a finding: `ChangeIsNotCorrupt` is violated |
| `legacy_child` | 2 threads and a forked child | a finding: `SnapshotIsWanted` is violated |
| `pilot_again` | 2 invocations of the pilot | a finding: `PilotReportKept` is violated |

*Why these bounds are enough.* Mutual exclusion and the second load need two
processes; a third only repeats the role of the second. Files are read one after
the other, so a mixture needs two inputs: one pair. To be mistaken for unchanged
an input must change and change back; the dataset run has three changes, enough
for that and one more in between. `protocol_two` has one content, because a
rewrite already shows in its modification time and the properties checked there
do not speak of contents. One failure at any step reaches every handler, and a
second failure only meets handlers of the first, which do nothing but clean up.
A read must be able to mix two blocks, exceed its limit by one and see a file
go away and come back. A cache must be able to mix the rows of one save with the
sections of another, which takes two sections and one copy; the sum of lengths
wraps around within three rows, the first of which is bounded. Three lines are the
fewest in which a duplicate, a row out of order and a third row occur together.
Three sources with chunks of two give a full chunk and a partial one, and an
invalid image before, between and after valid ones. A lock is disputed by two
processes, and one child of each suffices to keep, drop or release what it
inherited, and an open file can outlive both; the collector is disputed by two threads, and one child can be forked
at any step of either. A repair is disturbed by one other worker or one other
program, and the second change can undo the first. What these two leave open is
proved for any number (`RepairsAreOne`, `CollectorIsRestored`). An experiment needs
a primer, a measured trial of each setting and an order in which each comes
first; its accidents do not repair each other, so one at any moment is what a
check has to find. A comparison of one pair of each mode has a rebuild, a primer and a
hit of both versions; one mishap suffices to break both of its properties when a
check is missing, and with two (478,325 states, too long for a run beside the other
chain) they hold as well. Bounds are constants named in each module (`MaxPolls`, `MaxWrites`,
`MaxFaults`, `MaxChanges`, `MaxLen`, `MaxCalls`, `MaxEdits`, `MaxTicks`, `MaxTrouble`,
`MaxMishaps`).
What these bounds keep out: two accidents of one chain of experiments, a change of
an experiment's file that is undone in time, and two changes of a cache file
during one read.

*Deadlock* is checked in the protocol and snapshot runs. `scan` stops when it
returns, `image_repair` when every worker has, `forks` when every process has died
or the datasets are constructed, `experiments` when all invocations are over or
a comparison has nothing left to do.

*Fairness.* `protocol_live` needs weak fairness of each process's own steps, that
is, a thread that can run is eventually run. Nothing starts a call, and failures
and changes of the dataset owe nothing. The lock has no queue, so getting it is
not promised: a call that is passed over ends by its deadline. `experiments` needs
that the controllers and auditors go on, their timeouts included, and that the
kernel delivers a signal it has accepted. Nothing is assumed of a worker: it may
hang, and `CampaignEnds` holds because the watchdog does not. Of the comparison
nothing is promised: it has no timeout, and waits for a hanging worker for ever.

## Findings

`scan_infinite`: with `single_cls=True` a row whose class is `inf` is not read by
the native engine, and the verifier accepts it because `max_cls` is then 0
(`_reference.py:56`). `scan` returns it as valid. `_encode` refuses it with a
plain `ValueError` ("nonfinite cache annotation", `_cache.py:170`), which neither
`_save_locked` nor `scan_cached` handles, so `scan_cached` raises and the valid
result is lost; `docs/CACHE.md:92` says that write failures preserve it.
`RefusedOnlyForInfinite`, checked by `scan` and proved (`EncoderAccepts`), says that there
is no other result the encoder refuses.

`image_grows`: a damaged image that is replaced by one beyond `max_image_bytes`
between its snapshot and its repair is recorded as `corrupt_image`, with the
fingerprint of the file that is gone. The comparison in `save_repaired`
(`_snapshots.py:57`) raises `SnapshotLimitError`, which is no `InputChangedError`,
and the handler meant for Pillow (`_snapshots.py:85`) takes it; `docs/CACHE.md:50`
says that a detected change "does not become a corrupt annotation". The record
is not published (`PublishableIsRight`), but `scan` returns it.

`legacy_child`: the comment at `ultralytics.py:94` says that no load can "snapshot
a temporary disabled state and restore it last". The fork handler replaces the
lock in a child (`ultralytics.py:40`) but not the collector's state: a child that
is forked while a thread of its parent is between the two switches starts with
the collector off, its first load remembers that state, and restores it for good.

`pilot_again`: `run-startup-worker-tuning-full-m2-v1.py:188` reserves its report
"so an accidental second invocation cannot replace an earlier completed or failed
campaign". The pilot of the same experiment asserts that there is no report inside
the handler that saves one when it fails
(`run-startup-worker-tuning-m2-pilot-v1.py:89-95`), so a second invocation replaces
a completed qualification by a failed one. `FinalRestsOnPassed` holds all the same:
the full campaign takes the digest of what it finds.

## Proofs

All from the assumptions on the constants the modules state, and no other. They
say what a configuration is (`ScanAssumption`: a label's text is a sequence of lines
of tokens; `InfiniteAssumption`: the integer that stands for an infinite number is
beyond the value of every finite token and every class in range) or what a library function of the code returns
(`OrdersAreSequences` of `WorkerCampaigns`: the constant orders of settings and cases,
put in sequence, are sequences); TLC evaluates them on every run.

Folds and flattenings are recursions over data, and the induction theorems of the
library take an operator, which no prover here can instantiate. `SequenceFacts`
does without: induction is the least counterexample of a set, and what a
recursive definition computes follows from a function that satisfies its equation on
an initial segment. It proves for any operator what `FoldLeft` makes of an empty,
an extended and a joined sequence, and where an element of a flattened sequence
comes from; the modules below instantiate it with their own operators.

- `TypeCorrect` (`CacheProtocolProofs`): `TypeOK` is inductive by itself. Every
  action gives a call a new record, so each action is proved by showing that the
  record has its type.
- `LockIsExclusive` (`CacheProtocolProofs`): `LockOwnership` alone is not inductive,
  because a hit or a load happens with the lock and without it. The invariant
  adds, for every phase, whether the lock must be, may be or must not be held,
  and that the phases of a save are never reached by a call that left it.
- `CacheIsNeverTorn`, `SaveIsPublished`, `ScansAreNotRepeated`
  (`CacheProtocolProofs`): the invariant relates a writer's temporary file to its
  phase (whole from the end of the write on), says that `cache` and `disk` are
  whole or absent, that they can differ only while one call is between its
  replace and the end of its critical section, and what the owner of the lock has
  published. Exclusion from `LockIsExclusive` is what keeps another writer from
  undoing it. An undisturbed call that scans under the lock has loaded after
  it got the lock, and nobody else has published since.
- `HitsAreSnapshots`, `PublicationsAreSnapshots`, `ContentHitsAreLive`,
  `ChangesAreRaisedTruly` (`CacheProtocolProofs`): as long as no time is restored, a
  recorded stamp identifies its contents, because a changed file gets a later
  time (`Genuine`). So an input that matches its record now has not changed since
  the record was made (`Since`), those already read were then what the record
  says (`Seen`), and at the last input all of them were so at the instant the
  call began to check. None of it needs the lock. `ChangesAreRaisedTruly` says besides at
  which steps a change may be reported: those that examine an input (`Examines`), so that
  a failing lock, write, replace or sync is not, even if the dataset did change.
- `ReadIsAtomic` (`SnapshotReadProofs`): the refinement. Its invariant says that
  an unchanged stamp on a settled file means unchanged data since the first look,
  so every block in the buffer is a block of that one version; every step then
  maps to a step of `AtomicRead` or to a stutter. `RetainedIsBounded` and
  `ChangesAreReal` are beside it: a buffer that differs from the file in length
  while the stamps agree belongs to a file that was changed. A failing system call is
  taken for a change at one place, the last look at the path.
- `ChildrenCannotUnlock`, `ReleaseFreesLock` (`ForkProofs`): besides the two
  properties, `InsideMeansLocked` and `LockedMeansInside`, the invariant says that a
  handle not yet created is open nowhere, and that a taken lock has an open file
  somewhere. Only the creator of a handle may clear its lock, and the creator is the
  process inside. `LockedMeansInside` is in no run: it follows from the refinement
  that comes next.
- `LockIsExclusiveAcrossForks` (`ForkProofs`): the refinement of `ExclusiveLock`. The
  process inside is one (`WithinIsOne`), because whoever is inside has the one handle
  that owns the lock. `TryAcquire` enters, and only when nobody is inside; every other
  step at most takes the process out or frees the lock (`Hands`). That alone would allow
  a process to leave and keep the lock: `LockedMeansInside` of the state that
  follows says that then it has died or an unlock has failed, which is `Abandon`.
  `OneProcessInside` is what the specification promises of every state, for any
  number of processes, handles and forks.
- `UsesExclusiveLock` (`CacheProtocolProofs`): the protocol is a user of the same
  lock. Each action enters, leaves, abandons, lapses or leaves the lock alone
  (`StepPasses`, `NextPasses`), and a power loss frees it. No run lists this refinement;
  TLC has confirmed it on the instance of `protocol_two`. Together the two say that
  exclusion in `CacheProtocol` is no assumption of the model but what `cache.rs` does.
- `CollectorIsRestored`, `LockStaysAtHome`, `PublishedIsWhole`, `HitsAreFresh`
  (`ForkProofs`): whoever is in the locked part has the lock of its own
  process, so what it remembers is what the application wants unless the process
  was forked in the middle of a load. A temporary file is synced before it is
  published, and a cache that is filed under a size was scanned at that size or
  says that the dataset moved meanwhile.
- `PublishedIsRight`, `RepairsWhatItRead` (`ImageRepairProofs`): every change of the
  file takes a later time, so a recorded fingerprint either is still the file or
  is stale for good. The invariant carries this (`Kept`), what each phase knows of
  its fingerprint (`Phase`), and that the outcome of a finished call agrees with
  its fingerprint or the fingerprint is stale (`Recorded`). It is this last
  alternative that covers a change taken for a corrupt image. `RepairsAreOne`: with
  only workers that hold snapshots, the path shows one original content, that
  content being rewritten, or its one repaired form, and what every worker is
  doing follows from which (`Composes`): all write the same bytes.
- `PassedIsWhole`, `EarlierReportIsKept`, `FinalRestsOnEvidence`, `OneWorkerRuns`
  (`ExperimentProofs`): a reserved report has one writer, its records follow
  the plan, and a record counts as validated only after its worker ended. An
  invocation that goes on has read evidence that passed, and what passed is not
  reserved again except by the pilot, whose second report never passes
  (`EvidenceInv`). A trial is launched only when the earlier ones of its plan have
  ended, and a program goes on only when those before it have (`OrderInv`).

- `MeasuredAreTrue`, `SummariesAreTrue` (`ExperimentProofs`): for every phase of
  a trial, what its worker has loaded, read and checked so far, and which of the
  checks must fail if a file was replaced after it (`PhaseInv`); a file that was
  changed stays changed, so the check after the last trial confirms all of them
  (`ConfirmInv`). A raw report can be damaged between any two of its readings; an
  audit that hashes, reads and hashes again takes its rows from the bytes whose
  digest the campaign recorded (`SummaryInv`).
- `ReservesWithinBudget`, `AcceptsWhatWasThere`, `AcceptsWhatWasSaved`
  (`CacheContainerProofs`) from `ContainerInvariant`: a file that counts as saved is the
  container of sections within the writer's limits; a reader at an offset has
  read rows and chunks that stand at that offset of the file it opened, as long as
  its time says so; and the sum of the lengths it has accepted is bounded before
  it is formed, so that no addition wraps around. Arithmetic is that of a machine
  word of any width.
- `ScanTypes` (`ScanMergeProofs`), the type invariant of the scan, is what the other
  theorems of the module rest on. `FallbackBounded`: the bytes that are kept are at
  most what the shared counter says (`BudgetInv`).
- `KeptIsUnique`, `NativeAgrees`, `UnclearTokens` (`ScanMergeProofs`): for every text
  whatever its length. Sorting indices by row and then by index, and dropping the
  repeated ones, leaves the same indices in the same order as `np.unique`; so the two
  parsers agree wherever the first does not ask for the second, and where it asks
  in vain there is a token on which they differ. `NativeReadsLikeReference` and
  `ReferenceOnlyForTokens` carry this to every scan, by the invariant that a record of
  a file that stays the same is that of the file (`SteadyInv`).

- `SteadyScanIsReference`, `SavedAreOfTheirProofs` (`ScanMergeProofs`): the index
  arithmetic of a scan, for any number of sources and any chunk size. The packed
  arrays of a chunk hold each record at its place (`PackingHolds`): one more record only
  extends them. The merge loop stands at the source that follows those it has merged,
  with as many records and segments of the chunk behind it (`MergeInv`), so what it
  reads is the record of its source (`CurrentIs`). What it has merged is what the
  verifier makes of the files so far (`MergedFrom`), kept by each of its four steps; and
  dividing a merged result at its offsets gives these records back (`Unpacked`). For
  files that stay the same they are those of the files (`SteadyMerged`), for a
  scan with fingerprints those of the bytes the fingerprints were computed from
  (`ProvenMerged`).

- `EncoderAccepts` (`ScanMergeProofs`): every result that can be saved passes
  `_validate_arrays`, except with `single_cls` and a row of infinite class. Each merged
  record is in range for its options (`Sound`), its numbers finite unless that row is
  there (`InfiniteRows`); the offsets ascend and the polygons belong to ascending
  objects of their image (`ListsSound`, `OffsetsGrow`, `Between`); and the counts the
  encoder compares with the records are those of the sources merged so far, kept by
  each of the merge's four steps (`CountInv`). The last is what `scan` adds up beside
  the records, in two different places for the two parsers.

- `AuditedAfterTheWorkers`, `SealedComparisonIsMeasured` (`ExperimentProofs`), from
  `ComparisonIsTracked`, for any number of rounds and mishaps. `AuditedAlone` is not
  inductive: the watcher sees two processes end, and a worker survives the death of
  both. The invariant (`ComparisonCore`) says that the trials before the current one
  have ended well and those after it have not begun (`Phases`), also when the
  comparison is dead. So a complete report, which only a comparison that has waited for
  its last worker writes, means that no worker runs, and what the watcher requires of
  the receipts is enough (`ComparisonTrail`). For the archive it follows a version's cache:
  what each worker has loaded and used at each of its steps (`TrialSound`), that the
  cache left by the primer stays the version's unless a hit has missed, which ends the
  comparison (`Retained`), and that every record is that of its worker (`Reported`). A
  cache can be damaged after the audit; the archive's is whole because the sealer
  compares what it reads back with what it gathered, and that with the audit. The
  inductive parts were first checked by TLC with two mishaps.

Only model-checked: `EveryCallReturns`, `CampaignEnds`: liveness under fairness, and
ENABLED, are outside what the prover does. Every other property of a passing run is
stated by a theorem. A property of a `violation` run has its counterexample.

## Not modelled

Working directories and relative paths; a cache path that is one of the inputs;
inputs that are devices, and images that are directories; Pillow's removal of a
file it created and could not write; the 57-byte table, the arrays' layout and the
metadata's JSON; the digests of source text `check_profile` compares; NumPy and
Pillow internals; binary rounding; the non-unix build, whose stamps have no
identity. Of the experiments: statistics, telemetry, command lines, and the
licences, sources and machine facts the auditors compare, and the tests the auditors
must reject. The other benchmark, build, seal and audit programs ran once for one
artefact each; where they run trials they repeat the shape of the worker
experiments, and the rest is measurement.

Seen while modelling, and covered by no property: the auditor compares a raw output
with the report first and takes the digest it reports of it later, by reading the file
again (`audit-snapshot-startup-v1.py:310-314`). A file edited between the two is sealed
under the digest of the edited one. `SealedIsMeasured` speaks of the report's records,
which are not affected. And the `finally` of `_locked` unlocks while an
`InputChangedError` is on its way: if that call fails, its `OSError` is what `scan_cached`
sees, which then returns a result as unsaved, or scans once more, although
`docs/CACHE.md:50` says that a detected change raises. `ReleaseFails` models it;
`RaisedOnlyOnChange` speaks of the other direction only.

## Plan

The theorems state every invariant and action property of the passing runs. What is
left is model work:

1. A property for the unlock that fails while an error is on its way, with a run of
   its own.
2. `LegacyCache` with the native cache as a composed module instead of one step with
   its outcome.
3. Cache paths that are given in two ways (relative, linked), which `CacheProtocol`
   takes to be one.
