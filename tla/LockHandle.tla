----------------------------- MODULE LockHandle -----------------------------
(***************************************************************************)
(* CacheLock of cache.rs, a handle on the advisory lock, in the process    *)
(* that created it and in the children that one forks: data loader         *)
(* workers, say, which inherit every handle of their parent.  The          *)
(* operating system's lock belongs to the open file, which a fork shares:  *)
(* it goes with an explicit unlock through any descriptor, or with the     *)
(* last descriptor.  The handle remembers the process that created it.     *)
(*                                                                         *)
(* Calls that only return False or raise change nothing and are left out.  *)
(* The handle's mutex is never contended: every method keeps the GIL.      *)
(***************************************************************************)
EXTENDS Integers, FiniteSets

CONSTANTS
    Process,        \* processes that run, or can be forked
    Initial,        \* those that run from the start
    Handle,         \* CacheLock objects that can be created, each with its open file
    Nobody,         \* no process, no handle
    MaxFaults       \* bound: failing unlock calls

ASSUME LockAssumption ==
    /\ Initial \subseteq Process /\ Nobody \notin Process /\ Nobody \notin Handle
    /\ MaxFaults \in Nat

VARIABLES
    process,        \* "unborn", "alive" or "dead"
    creator,        \* the process that created each handle (its pid field)
    open,           \* the handles whose file is open in each process
    held,           \* the handles whose held flag is set in each process
    owner,          \* the handle whose open file has the advisory lock
    faults          \* unlock calls that have failed

vars == <<process, creator, open, held, owner, faults>>

-----------------------------------------------------------------------------
\* The kernel drops the lock with the last descriptor of its file.
LeftBy(o, files) == IF \E p \in Process : o \in files[p] THEN o ELSE Nobody

Unlocked(h) == IF owner = h THEN Nobody ELSE owner

Closed(p, h) == [open EXCEPT ![p] = @ \ {h}]
Cleared(p, h) == [held EXCEPT ![p] = @ \ {h}]

Init ==
    /\ process = [p \in Process |-> IF p \in Initial THEN "alive" ELSE "unborn"]
    /\ creator = [h \in Handle |-> Nobody]
    /\ open = [p \in Process |-> {}] /\ held = [p \in Process |-> {}]
    /\ owner = Nobody /\ faults = 0

\* CacheLock::new opens the lock file.
New(p, h) ==
    /\ process[p] = "alive" /\ creator[h] = Nobody
    /\ creator' = [creator EXCEPT ![h] = p]
    /\ open' = [open EXCEPT ![p] = @ \cup {h}]
    /\ UNCHANGED <<process, held, owner, faults>>

\* try_acquire returns True.
TryAcquire(p, h) ==
    /\ process[p] = "alive" /\ creator[h] = p
    /\ h \in open[p] /\ h \notin held[p] /\ owner = Nobody
    /\ owner' = h
    /\ held' = [held EXCEPT ![p] = @ \cup {h}]
    /\ UNCHANGED <<process, creator, open, faults>>

\* Mutant of Release: the file is closed and the kernel left to drop its lock.
ReleaseByClosing(p, h) ==
    /\ process[p] = "alive" /\ creator[h] = p /\ h \in open[p]
    /\ open' = Closed(p, h) /\ held' = Cleared(p, h)
    /\ owner' = LeftBy(owner, open')
    /\ UNCHANGED <<process, creator, faults>>

\* release takes the file out of the handle, unlocks it if the flag is set, and
\* closes it.  A failing unlock leaves the flag, and the file is closed all the same.
Release(p, h) ==
    /\ process[p] = "alive" /\ creator[h] = p /\ h \in open[p]
    /\ open' = Closed(p, h)
    /\ \/ /\ held' = Cleared(p, h)
          /\ owner' = LeftBy(IF h \in held[p] THEN Unlocked(h) ELSE owner, open')
          /\ UNCHANGED faults
       \/ /\ h \in held[p] /\ faults < MaxFaults /\ faults' = faults + 1
          /\ owner' = LeftBy(owner, open') /\ UNCHANGED held
    /\ UNCHANGED <<process, creator>>

\* Mutant of Drop: whoever drops a held handle unlocks it.
DropUnlocks(p, h) ==
    /\ process[p] = "alive" /\ h \in open[p]
    /\ open' = Closed(p, h) /\ held' = Cleared(p, h)
    /\ owner' = LeftBy(IF h \in held[p] THEN Unlocked(h) ELSE owner, open')
    /\ UNCHANGED <<process, creator, faults>>

\* The object is collected, in its creator or in a child: only the creator unlocks.
Drop(p, h) ==
    /\ process[p] = "alive" /\ h \in open[p]
    /\ open' = Closed(p, h) /\ held' = Cleared(p, h)
    /\ \/ owner' = LeftBy(IF creator[h] = p /\ h \in held[p] THEN Unlocked(h) ELSE owner, open')
          /\ UNCHANGED faults
       \/ /\ creator[h] = p /\ h \in held[p] /\ faults < MaxFaults /\ faults' = faults + 1
          /\ owner' = LeftBy(owner, open')
    /\ UNCHANGED <<process, creator>>

-----------------------------------------------------------------------------
\* A child starts with a copy of every handle, its flag and its descriptor.
Fork(p, c) ==
    /\ process[p] = "alive" /\ process[c] = "unborn"
    /\ process' = [process EXCEPT ![c] = "alive"]
    /\ open' = [open EXCEPT ![c] = open[p]] /\ held' = [held EXCEPT ![c] = held[p]]
    /\ UNCHANGED <<creator, owner, faults>>

\* A process dies, without running any destructor.
Die(p) ==
    /\ process[p] = "alive"
    /\ process' = [process EXCEPT ![p] = "dead"]
    /\ open' = [open EXCEPT ![p] = {}] /\ held' = [held EXCEPT ![p] = {}]
    /\ owner' = LeftBy(owner, open')
    /\ UNCHANGED <<creator, faults>>

Use(p) == \E h \in Handle : New(p, h) \/ TryAcquire(p, h) \/ Release(p, h) \/ Drop(p, h)

Next == \E p \in Process : Use(p) \/ Die(p) \/ \E c \in Process : Fork(p, c)

Spec == Init /\ [][Next]_vars

-----------------------------------------------------------------------------
(* Properties *)

TypeOK ==
    /\ process \in [Process -> {"unborn", "alive", "dead"}]
    /\ creator \in [Handle -> Process \cup {Nobody}]
    /\ open \in [Process -> SUBSET Handle] /\ held \in [Process -> SUBSET Handle]
    /\ owner \in Handle \cup {Nobody} /\ faults \in 0..MaxFaults

\* p is in the critical section it entered with h.
Inside(p, h) == creator[h] = p /\ h \in open[p] /\ h \in held[p]

\* A process inside its critical section has the operating system's lock, hence
\* no other is inside: nothing a forked child does with its copies, dropping,
\* releasing or dying, takes the lock from its parent (docs/CACHE.md, "a forked
\* child cannot release its parent's lock").
InsideMeansLocked == \A p \in Process, h \in Handle : Inside(p, h) => owner = h

\* The lock is not kept by children that inherited its file: while the creator
\* lives, it is taken only as long as the creator is inside (release unlocks
\* before it closes).
LockedMeansInside ==
    \A h \in Handle :
        owner = h /\ process[creator[h]] = "alive" /\ faults = 0 => Inside(creator[h], h)

\* Dead processes, and any once an unlock call has failed.
Lost == {p \in Process : process[p] = "dead" \/ faults # 0}

Abstract == INSTANCE ExclusiveLock WITH
    User <- Process, inside <- {p \in Process : \E h \in Handle : Inside(p, h)},
    taken <- owner # Nobody, lost <- Lost

\* CacheLock is the lock the cache protocol relies on, whatever processes are
\* forked, and whichever of them drop, release or keep what they inherited: it is
\* entered only when it is free, by one process, it is free again when that one
\* leaves, and what its children keep of it, should it die or fail to unlock, lets
\* no one in until they let go.
ImplementsExclusiveLock == Abstract!Spec
=============================================================================
