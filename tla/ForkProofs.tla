------------------------------ MODULE ForkProofs ------------------------------
(***************************************************************************)
(* Proofs about what a fork copies, for any processes, threads and         *)
(* handles, in two parts.                                                  *)
(*                                                                         *)
(* 1. LockHandle: its two safety invariants are inductive once it is known *)
(*    that an unborn process has created nothing and that a handle no one  *)
(*    has created is nowhere open or held; they give the step simulation   *)
(*    by which it implements ExclusiveLock.                                *)
(* 2. LegacyCache: the collector and its lock, and what a published cache  *)
(*    holds.                                                               *)
(***************************************************************************)
EXTENDS LockHandle, LegacyCache, TLAPS

-----------------------------------------------------------------------------
(* 1. The lock handle *)

\* What New and Fork need to know of processes and handles that do not exist yet.
NotYet ==
    /\ \A h \in Handle : creator[h] # Nobody => process[creator[h]] # "unborn"
    /\ \A h \in Handle, p \in Process :
          creator[h] = Nobody \/ process[p] = "unborn" => h \notin open[p] /\ h \notin held[p]

\* The kernel's side: a locked file is open somewhere.
LockedMeansOpen == \A h \in Handle : owner = h => \E p \in Process : h \in open[p]

IInv == TypeOK /\ NotYet /\ LockedMeansOpen /\ InsideMeansLocked /\ LockedMeansInside

-----------------------------------------------------------------------------
LEMMA InitIInv == Init => IInv
  BY LockAssumption DEF Init, IInv, TypeOK, NotYet, LockedMeansOpen, InsideMeansLocked, LockedMeansInside, Inside

-----------------------------------------------------------------------------
(* The steps that give a file away: what they have in common. *)

\* Process p closes the files in gone and clears no flag but theirs; it has unlocked
\* those in unlocked, which are its own.  A file of its own that it closes with the
\* flag set and does not unlock, it closes in a failure or as it dies.
Closes(p, gone, unlocked) ==
    /\ unlocked \subseteq gone /\ \A h \in unlocked : creator[h] = p
    /\ process' \in [Process -> {"unborn", "alive", "dead"}]
    /\ \A q \in Process : process[q] = "unborn" <=> process'[q] = "unborn"
    /\ \A q \in Process : process'[q] = "alive" => process[q] = "alive"
    /\ creator' = creator
    /\ faults' \in 0..MaxFaults /\ (faults' = 0 => faults = 0)
    /\ open' = [open EXCEPT ![p] = @ \ gone]
    /\ held' \in [Process -> SUBSET Handle]
    /\ \A q \in Process, h \in Handle :
          /\ h \in held'[q] => h \in held[q]
          /\ (q # p \/ h \notin gone) /\ h \in held[q] => h \in held'[q]
    /\ owner' = LeftBy(IF owner \in unlocked THEN Nobody ELSE owner, open')
    /\ \A h \in gone : creator[h] = p /\ h \in held[p] /\ h \notin unlocked
                          => process'[p] = "dead" \/ faults' # 0

LEMMA Closing ==
    ASSUME IInv, NEW p \in Process, NEW gone \in SUBSET Handle, NEW unlocked \in SUBSET gone,
           Closes(p, gone, unlocked)
    PROVE  IInv'
  <1> USE LockAssumption DEF Closes
  <1>1. TypeOK /\ NotYet /\ LockedMeansOpen /\ InsideMeansLocked /\ LockedMeansInside
    BY DEF IInv
  <1>2. open' \in [Process -> SUBSET Handle]
    BY <1>1 DEF TypeOK
  <1> DEFINE kept == IF owner \in unlocked THEN Nobody ELSE owner
  <1>3. kept \in Handle \cup {Nobody} /\ owner' = LeftBy(kept, open')
    BY <1>1 DEF TypeOK
  <1> HIDE DEF kept
  <1>4. owner' \in {kept, Nobody} /\ \A q \in Process : kept \in open'[q] => owner' = kept
    BY <1>2, <1>3 DEF LeftBy
  <1>5. TypeOK'
    BY <1>1, <1>2, <1>3, <1>4 DEF TypeOK, kept
  <1>6. \A q \in Process : open'[q] \subseteq open[q]
    BY <1>1 DEF TypeOK
  <1>7. NotYet'
    BY <1>1, <1>6 DEF NotYet, TypeOK
  <1>8. InsideMeansLocked'
    <2> SUFFICES ASSUME NEW q \in Process, NEW h \in Handle, Inside(q, h)'
                 PROVE  owner' = h
      BY DEF InsideMeansLocked
    <2>1. Inside(q, h) /\ h \in open'[q] /\ creator[h] = q
      BY <1>6 DEF Inside
    <2>2. owner = h
      BY <1>1, <2>1 DEF InsideMeansLocked
    <2>3. q # p \/ h \notin gone
      BY <1>1, <2>1 DEF TypeOK
    <2>4. h \notin unlocked
      BY <2>1, <2>3
    <2> QED BY <2>1, <2>2, <2>4, <1>4 DEF kept
  <1>9. LockedMeansInside'
    <2> SUFFICES ASSUME NEW h \in Handle, owner' = h, process'[creator'[h]] = "alive", faults' = 0
                 PROVE  Inside(creator[h], h)'
      BY DEF LockedMeansInside, Inside
    <2>1. owner = h /\ h \notin unlocked
      BY <1>4, LockAssumption DEF kept
    <2>2. creator[h] \in Process
      <3>1. creator[h] # Nobody \/ \A q \in Process : h \notin open[q]
        BY <1>1 DEF NotYet
      <3>2. \E q \in Process : h \in open[q]
        BY <1>1, <2>1 DEF LockedMeansOpen
      <3> QED BY <3>1, <3>2, <1>1 DEF TypeOK
    <2>3. Inside(creator[h], h)
      BY <1>1, <2>1, <2>2 DEF LockedMeansInside
    <2>4. creator[h] # p \/ h \notin gone
      BY <2>1, <2>2, <2>3 DEF Inside
    <2> QED BY <2>2, <2>3, <2>4, <1>1 DEF Inside, TypeOK
  <1>10. LockedMeansOpen'
    <2> SUFFICES ASSUME NEW h \in Handle, owner' = h PROVE \E q \in Process : h \in open'[q]
      BY DEF LockedMeansOpen
    <2>1. h # Nobody
      OBVIOUS
    <2> QED BY <1>3, <2>1 DEF LeftBy
  <1> QED BY <1>5, <1>7, <1>8, <1>9, <1>10 DEF IInv

-----------------------------------------------------------------------------
LEMMA NewIInv ==
    ASSUME IInv, NEW p \in Process, NEW h \in Handle, New(p, h) PROVE IInv'
  <1> USE LockAssumption
  <1>1. TypeOK /\ NotYet /\ LockedMeansOpen /\ InsideMeansLocked /\ LockedMeansInside
    BY DEF IInv
  <1>2. TypeOK'
    BY <1>1 DEF New, TypeOK
  <1>3. NotYet'
    BY <1>1 DEF New, TypeOK, NotYet
  <1>4. InsideMeansLocked'
    BY <1>1 DEF New, TypeOK, NotYet, InsideMeansLocked, Inside
  <1>5. LockedMeansInside'
    <2>1. \A g \in Handle : g # h => creator'[g] = creator[g]
      BY <1>1 DEF New, TypeOK
    <2>2. \A q \in Process : open[q] \subseteq open'[q]
      BY <1>1 DEF New, TypeOK
    <2> QED BY <1>1, <2>1, <2>2 DEF New, TypeOK, NotYet, LockedMeansOpen, LockedMeansInside, Inside
  <1>10. LockedMeansOpen'
    BY <1>1 DEF New, TypeOK, LockedMeansOpen
  <1> QED BY <1>2, <1>3, <1>4, <1>5, <1>10 DEF IInv

LEMMA TryAcquireIInv ==
    ASSUME IInv, NEW p \in Process, NEW h \in Handle, TryAcquire(p, h) PROVE IInv'
  <1> USE LockAssumption
  <1>1. TypeOK /\ NotYet /\ LockedMeansOpen /\ InsideMeansLocked /\ LockedMeansInside
    BY DEF IInv
  <1>2. TypeOK'
    BY <1>1 DEF TryAcquire, TypeOK
  <1>3. NotYet'
    BY <1>1 DEF TryAcquire, TypeOK, NotYet
  <1>4. InsideMeansLocked'
    BY <1>1 DEF TryAcquire, TypeOK, InsideMeansLocked, Inside
  <1>5. LockedMeansInside'
    BY <1>1 DEF TryAcquire, TypeOK, LockedMeansInside, Inside
  <1>10. LockedMeansOpen'
    BY <1>1 DEF TryAcquire, TypeOK, LockedMeansOpen
  <1> QED BY <1>2, <1>3, <1>4, <1>5, <1>10 DEF IInv

LEMMA ReleaseIInv ==
    ASSUME IInv, NEW p \in Process, NEW h \in Handle, Release(p, h) PROVE IInv'
  <1> DEFINE done == IF h \in held[p] /\ faults' = faults THEN {h} ELSE {}
  <1>1. TypeOK
    BY DEF IInv
  <1>2. owner' = LeftBy(IF owner \in done THEN Nobody ELSE owner, open')
    BY <1>1 DEF Release, Unlocked, TypeOK
  <1>3. faults' \in 0..MaxFaults /\ (faults' = 0 => faults = 0)
    BY <1>1, LockAssumption DEF Release, TypeOK
  <1>4. held' \in [Process -> SUBSET Handle]
    BY <1>1 DEF Release, Cleared, TypeOK
  <1>5. h \in held[p] /\ h \notin done => faults' # 0
    BY <1>1, LockAssumption DEF Release, TypeOK
  <1>6. Closes(p, {h}, done)
    BY <1>1, <1>2, <1>3, <1>4, <1>5 DEF Closes, Release, Closed, Cleared, TypeOK
  <1> QED BY <1>6, Closing

LEMMA DropIInv ==
    ASSUME IInv, NEW p \in Process, NEW h \in Handle, Drop(p, h) PROVE IInv'
  <1> DEFINE done == IF creator[h] = p /\ h \in held[p] /\ faults' = faults THEN {h} ELSE {}
  <1>1. TypeOK
    BY DEF IInv
  <1>2. owner' = LeftBy(IF owner \in done THEN Nobody ELSE owner, open')
    BY <1>1 DEF Drop, Unlocked, TypeOK
  <1>3. faults' \in 0..MaxFaults /\ (faults' = 0 => faults = 0)
    BY <1>1, LockAssumption DEF Drop, TypeOK
  <1>4. held' \in [Process -> SUBSET Handle]
    BY <1>1 DEF Drop, Cleared, TypeOK
  <1>5. creator[h] = p /\ h \in held[p] /\ h \notin done => faults' # 0
    BY <1>1, LockAssumption DEF Drop, TypeOK
  <1>6. Closes(p, {h}, done)
    BY <1>1, <1>2, <1>3, <1>4, <1>5 DEF Closes, Drop, Closed, Cleared, TypeOK
  <1> QED BY <1>6, Closing

LEMMA DieIInv ==
    ASSUME IInv, NEW p \in Process, Die(p) PROVE IInv'
  <1>1. TypeOK
    BY DEF IInv
  <1>2. open' = [open EXCEPT ![p] = @ \ Handle]
    BY <1>1 DEF Die, TypeOK
  <1>3. owner' = LeftBy(IF owner \in {} THEN Nobody ELSE owner, open')
    BY DEF Die
  <1>4. held' \in [Process -> SUBSET Handle]
    BY <1>1 DEF Die, TypeOK
  <1>5. process' \in [Process -> {"unborn", "alive", "dead"}]
    BY <1>1 DEF Die, TypeOK
  <1>6. /\ \A q \in Process : process[q] = "unborn" <=> process'[q] = "unborn"
        /\ \A q \in Process : process'[q] = "alive" => process[q] = "alive"
        /\ process'[p] = "dead"
    BY <1>1 DEF Die, TypeOK
  <1>7. \A q \in Process, h \in Handle : (h \in held'[q] => h \in held[q])
                                       /\ (q # p /\ h \in held[q] => h \in held'[q])
    BY <1>1 DEF Die, TypeOK
  <1>8. UNCHANGED <<creator, faults>> /\ faults \in 0..MaxFaults
    BY <1>1 DEF Die, TypeOK
  <1>9. Closes(p, Handle, {})
    BY <1>2, <1>3, <1>4, <1>5, <1>6, <1>7, <1>8 DEF Closes
  <1> QED BY <1>9, Closing

LEMMA ForkIInv ==
    ASSUME IInv, NEW p \in Process, NEW c \in Process, Fork(p, c) PROVE IInv'
  <1> USE LockAssumption
  <1>1. TypeOK /\ NotYet /\ LockedMeansOpen /\ InsideMeansLocked /\ LockedMeansInside
    BY DEF IInv
  <1>2. TypeOK'
    BY <1>1 DEF Fork, TypeOK
  <1>3. NotYet'
    BY <1>1 DEF Fork, TypeOK, NotYet
  <1>4. \A h \in Handle : creator[h] # c
    BY <1>1 DEF Fork, NotYet
  <1>5. InsideMeansLocked'
    BY <1>1, <1>4 DEF Fork, TypeOK, InsideMeansLocked, Inside
  <1>6. LockedMeansInside'
    <2> SUFFICES ASSUME NEW h \in Handle, owner' = h, process'[creator'[h]] = "alive", faults' = 0
                 PROVE  Inside(creator[h], h)'
      BY DEF LockedMeansInside, Fork
    <2>1. process[creator[h]] = "alive"
      BY <1>1, <1>4 DEF Fork, TypeOK
    <2>2. Inside(creator[h], h)
      BY <1>1, <2>1 DEF Fork, LockedMeansInside
    <2> QED BY <1>1, <1>4, <2>2 DEF Fork, TypeOK, Inside
  <1>10. LockedMeansOpen'
    <2>1. \A q \in Process, h \in Handle : h \in open[q] => h \in open'[q]
      BY <1>1 DEF Fork, TypeOK, NotYet
    <2> QED BY <1>1, <2>1 DEF Fork, LockedMeansOpen
  <1> QED BY <1>2, <1>3, <1>5, <1>6, <1>10 DEF IInv

-----------------------------------------------------------------------------
LEMMA StepIInv == IInv /\ [Next]_vars => IInv'
  <1> SUFFICES ASSUME IInv, [Next]_vars PROVE IInv'
    OBVIOUS
  <1>1. CASE UNCHANGED vars
    BY <1>1 DEF vars, IInv, TypeOK, NotYet, LockedMeansOpen, InsideMeansLocked, LockedMeansInside, Inside
  <1>2. CASE Next
    BY <1>2, NewIInv, TryAcquireIInv, ReleaseIInv, DropIInv, DieIInv, ForkIInv DEF Next, Use
  <1> QED BY <1>1, <1>2

LEMMA Inductive == Spec => []IInv
  BY InitIInv, StepIInv, PTL DEF Spec

\* No handle leaves its types, whatever processes fork, die and drop
\* (CacheLock of cache.rs and the kernel's lock).
THEOREM TypeCorrect == Spec => []TypeOK
  <1>1. IInv => TypeOK
    BY DEF IInv
  <1> QED BY <1>1, Inductive, PTL

\* Nothing forked children do with the handles they inherit, dropping them,
\* releasing them or dying, takes the lock from the process inside (the pid tests
\* of CacheLock::release and of its destructor).
THEOREM ChildrenCannotUnlock == Spec => []InsideMeansLocked
  <1>1. IInv => InsideMeansLocked
    BY DEF IInv
  <1> QED BY <1>1, Inductive, PTL

\* Children that keep the inherited file open do not keep the lock once their
\* living parent has left its critical section (release unlocks before it closes).
THEOREM ReleaseFreesLock == Spec => []LockedMeansInside
  <1>1. IInv => LockedMeansInside
    BY DEF IInv
  <1> QED BY <1>1, Inductive, PTL

-----------------------------------------------------------------------------
(* The handle implements an exclusive lock.  Every step but an acquisition can only
   take processes out of their critical sections and free the lock. *)

Within == {p \in Process : \E h \in Handle : Inside(p, h)}

Hands ==
    /\ \A p \in Process, h \in Handle : Inside(p, h)' => Inside(p, h)
    /\ owner' \in {owner, Nobody}
    /\ \A h \in Handle : creator[h] # Nobody => creator'[h] = creator[h]
    /\ Lost \subseteq Lost'

LEMMA ReleaseHands ==
    ASSUME IInv, NEW p \in Process, NEW h \in Handle, Release(p, h) \/ Drop(p, h) PROVE Hands
  <1> USE LockAssumption
  <1>1. TypeOK
    BY DEF IInv
  <1>2. open' = Closed(p, h) /\ UNCHANGED <<process, creator>> /\ faults' \in {faults, faults + 1}
    BY DEF Release, Drop
  <1>3. held' \in {held, Cleared(p, h)}
    BY DEF Release, Drop
  <1>4. owner' \in {owner, Nobody}
    BY DEF Release, Drop, LeftBy, Unlocked
  <1>5. \A q \in Process, g \in Handle : Inside(q, g)' => Inside(q, g)
    BY <1>1, <1>2, <1>3 DEF Inside, Closed, Cleared, TypeOK
  <1>6. Lost \subseteq Lost'
    BY <1>1, <1>2 DEF Lost, TypeOK
  <1> QED BY <1>2, <1>4, <1>5, <1>6 DEF Hands

LEMMA OtherHands ==
    ASSUME IInv, NEW p \in Process,
           \/ Die(p) \/ \E h \in Handle : New(p, h)
           \/ \E c \in Process : Fork(p, c)
    PROVE  Hands
  <1> USE LockAssumption
  <1>1. TypeOK /\ NotYet
    BY DEF IInv
  <1>2. CASE Die(p)
    <2>1. \A q \in Process : open'[q] \subseteq open[q] /\ held'[q] \subseteq held[q]
      BY <1>1, <1>2 DEF Die, TypeOK
    <2>2. owner' \in {owner, Nobody}
      BY <1>2 DEF Die, LeftBy
    <2>3. Lost \subseteq Lost'
      BY <1>1, <1>2 DEF Die, Lost, TypeOK
    <2> QED BY <1>2, <2>1, <2>2, <2>3 DEF Die, Hands, Inside
  <1>3. ASSUME NEW h \in Handle, New(p, h) PROVE Hands
    BY <1>1, <1>3 DEF New, Hands, Inside, Lost, NotYet, TypeOK
  <1>4. ASSUME NEW c \in Process, Fork(p, c) PROVE Hands
    <2>1. \A h \in Handle : creator[h] # c
      BY <1>1, <1>4 DEF Fork, NotYet
    <2>2. Lost \subseteq Lost'
      BY <1>1, <1>4 DEF Fork, Lost, TypeOK
    <2> QED BY <1>1, <1>4, <2>1, <2>2 DEF Fork, Hands, Inside, TypeOK
  <1> QED BY <1>2, <1>3, <1>4

\* Two processes are never inside.
LEMMA WithinIsOne ==
    ASSUME IInv, NEW p \in Process, NEW h \in Handle, Inside(p, h)
    PROVE  Within = {p} /\ owner = h /\ creator[h] = p
  <1>1. \A q \in Process, g \in Handle : Inside(q, g) => owner = g /\ creator[g] = q
    BY DEF IInv, InsideMeansLocked, Inside
  <1> QED BY <1>1 DEF Within

LEMMA AcquireEnters ==
    ASSUME IInv, IInv', NEW p \in Process, NEW h \in Handle, TryAcquire(p, h)
    PROVE  Abstract!Next
  <1> USE LockAssumption
  <1>1. Inside(p, h)' /\ owner = Nobody /\ owner' = h
    BY DEF TryAcquire, Inside, IInv, TypeOK
  <1>2. Within' = {p}
    <2>1. \A q \in Process, g \in Handle : Inside(q, g)' => owner' = g /\ creator'[g] = q
      BY DEF IInv, InsideMeansLocked, Inside
    <2>2. creator'[h] = p
      BY <1>1 DEF Inside
    <2> QED BY <1>1, <2>1, <2>2 DEF Within
  <1>3. Abstract!Enter(p)
    BY <1>1, <1>2 DEF Abstract!Enter, Within
  <1>4. Lost \subseteq Lost' /\ Lost' \subseteq Process
    BY DEF TryAcquire, Lost
  <1> QED BY <1>3, <1>4 DEF Abstract!Next

LEMMA HandsLeave ==
    ASSUME IInv, IInv', Hands
    PROVE  Abstract!Next
  <1> USE LockAssumption
  <1>1. Within' \subseteq Within /\ Lost \subseteq Lost' /\ Lost' \subseteq Process
    BY DEF Hands, Within, Lost
  <1>2. CASE Within = {}
    <2>1. Within' = {}
      BY <1>1, <1>2
    <2>2. CASE owner' = owner
      BY <1>1, <1>2, <2>1, <2>2 DEF Abstract!Next, Within
    <2>3. CASE owner' # owner
      <3>1. owner # Nobody /\ owner' = Nobody
        BY <2>3 DEF Hands
      <3>2. Abstract!Lapse
        BY <1>2, <2>1, <3>1 DEF Abstract!Lapse, Within
      <3> QED BY <1>1, <3>2 DEF Abstract!Next
    <2> QED BY <2>2, <2>3
  <1>3. CASE Within # {}
    <2>1. PICK p \in Process, h \in Handle : Inside(p, h)
      BY <1>3 DEF Within
    <2>2. Within = {p} /\ owner = h /\ creator[h] = p
      BY <2>1, WithinIsOne
    <2>3. CASE owner' = Nobody
      <3>1. Within' = {}
        BY <2>3 DEF Within, IInv, InsideMeansLocked
      <3>2. Abstract!Leave(p)
        BY <2>2, <2>3, <3>1 DEF Abstract!Leave, Within
      <3> QED BY <1>1, <3>2 DEF Abstract!Next
    <2>4. CASE owner' = h /\ Within' = {p}
      BY <1>1, <2>2, <2>4 DEF Abstract!Next, Within
    <2>5. CASE owner' = h /\ Within' # {p}
      <3>1. Within' = {}
        BY <1>1, <2>2, <2>5
      <3>2. creator'[h] = p
        BY <2>2 DEF Hands
      <3>3. ~Inside(p, h)'
        BY <3>1 DEF Within
      <3>4. process'[p] # "alive" \/ faults' # 0
        BY <2>5, <3>2, <3>3 DEF IInv, LockedMeansInside, Inside
      <3>5. process'[p] \in {"alive", "dead"}
        BY <3>2 DEF IInv, TypeOK, NotYet
      <3>6. Abstract!Abandon(p)
        BY <2>2, <2>5, <3>1, <3>4, <3>5 DEF Abstract!Abandon, Within, Lost
      <3> QED BY <1>1, <3>6 DEF Abstract!Next
    <2> QED BY <2>2, <2>3, <2>4, <2>5 DEF Hands
  <1> QED BY <1>2, <1>3

\* For any processes, handles and failing unlock calls: CacheLock is an exclusive
\* lock.  It is entered only when free and by one process at a time, leaving frees
\* it, and what the children of a dead or failing process keep of it lets no one in
\* until they let go (CacheLock::try_acquire, release and drop; the pid tests).
THEOREM LockIsExclusiveAcrossForks == Spec => ImplementsExclusiveLock
  <1>1. Init => Abstract!Init
    BY LockAssumption DEF Init, Abstract!Init, Inside, Lost
  <1>2. IInv /\ IInv' /\ [Next]_vars => [Abstract!Next]_(Abstract!vars)
    <2> SUFFICES ASSUME IInv, IInv', [Next]_vars PROVE Abstract!Next
      OBVIOUS
    <2>1. ASSUME NEW p \in Process, NEW h \in Handle, TryAcquire(p, h) PROVE Abstract!Next
      BY <2>1, AcquireEnters
    <2>2. ASSUME Hands PROVE Abstract!Next
      BY <2>2, HandsLeave
    <2>3. CASE UNCHANGED vars
      <3>1. Hands
        BY <2>3 DEF vars, Hands, Inside, Lost
      <3> QED BY <2>2, <3>1
    <2>4. ASSUME NEW p \in Process, Use(p) \/ Die(p) \/ \E c \in Process : Fork(p, c) PROVE Abstract!Next
      <3>1. Hands \/ \E h \in Handle : TryAcquire(p, h)
        BY <2>4, ReleaseHands, OtherHands DEF Use
      <3> QED BY <2>1, <2>2, <3>1
    <2> QED BY <2>3, <2>4 DEF Next
  <1> QED BY <1>1, <1>2, Inductive, PTL DEF Spec, ImplementsExclusiveLock, Abstract!Spec

\* The abstract lock excludes, whatever its users are.
LEMMA AbstractExcludes == Abstract!Spec => []Abstract!Exclusive
  <1>1. Abstract!Init => Abstract!Exclusive
    BY DEF Abstract!Init, Abstract!Exclusive
  <1>2. Abstract!Exclusive /\ [Abstract!Next]_(Abstract!vars) => Abstract!Exclusive'
    <2> SUFFICES ASSUME Abstract!Exclusive, [Abstract!Next]_(Abstract!vars) PROVE Abstract!Exclusive'
      OBVIOUS
    <2>1. CASE UNCHANGED Abstract!vars
      BY <2>1 DEF Abstract!vars, Abstract!Exclusive
    <2>2. CASE Abstract!Next
      BY <2>2 DEF Abstract!Next, Abstract!Enter, Abstract!Leave, Abstract!Abandon, Abstract!Lapse,
                  Abstract!Exclusive
    <2> QED BY <2>1, <2>2
  <1> QED BY <1>1, <1>2, PTL DEF Abstract!Spec

\* By the refinement: at most one process is inside, always with the lock, and until
\* a process dies or an unlock call fails the lock is taken only for one inside.
THEOREM OneProcessInside == Spec => []Abstract!Exclusive
  BY LockIsExclusiveAcrossForks, AbstractExcludes, PTL DEF ImplementsExclusiveLock

-----------------------------------------------------------------------------
(* 2. The adapter *)

(* The inductive invariant *)

States == {"unborn", "up", "down"}
Held == {"snapshot", "load", "reading", "restore"}
Outside == {"idle", "native", "stat", "lock", "check", "scan", "hash", "make", "save",
            "sync", "publish", "clean", "ended", "raised"}

\* Types of what the collector and its lock depend on.
CollectingType ==
    /\ running \in [Proc -> States]
    /\ collector \in [Proc -> BOOLEAN] /\ wanted \in [Proc -> BOOLEAN]
    /\ inherited \in [Proc -> BOOLEAN]
    /\ mutex \in [Proc -> Thread \cup {NoThread}]
    /\ pc \in [Thread -> Held \cup Outside] /\ enabled \in [Thread -> BOOLEAN]

\* Threads run in a running process.
OnlyRunning == \A t \in Thread : running[Home(t)] # "up" => pc[t] = "idle"

\* A thread in the locked part has the lock of its process.
LockedHasLock == \A t \in Thread : Locked(t) => mutex[Home(t)] = t

\* What a load remembers is what the application wants, between the snapshot of the
\* collector and its restoration.
Remembered ==
    \A t \in Thread :
        pc[t] \in {"load", "reading", "restore"} /\ ~inherited[Home(t)] =>
            enabled[t] = wanted[Home(t)]

CollectorInv ==
    /\ CollectingType /\ OnlyRunning /\ LockedHasLock /\ LockIsLocal
    /\ Remembered /\ CollectorKept

-----------------------------------------------------------------------------
(* Steps that leave the collector alone *)

\* Nothing of the collector, its lock or its snapshots changes, and no thread enters
\* or leaves the locked part.
Aside(t) ==
    /\ UNCHANGED <<collecting, enabled>>
    /\ running[Home(t)] = "up" /\ pc[t] \notin Held
    /\ pc' \in [Thread -> Held \cup Outside] /\ pc'[t] \notin Held
    /\ \A u \in Thread : u # t => pc'[u] = pc[u]

LEMMA AsideKeeps ==
    ASSUME LegacyAssumption, CollectorInv, NEW t \in Thread, Aside(t)
    PROVE  CollectorInv'
<1> USE DEF Held, Outside
<1>1. \A u \in Thread : Home(u) \in Proc
    BY DEF LegacyAssumption, Home
<1>3. CollectingType'
    BY DEF CollectorInv, CollectingType, Held, Outside, Aside, collecting
<1>4. \A u \in Thread : (Locked(u)' <=> Locked(u)) /\ (Loading(u)' <=> Loading(u))
    BY DEF CollectorInv, CollectingType, Held, Outside, Aside, Locked, Loading
<1>5. OnlyRunning'
    BY DEF CollectorInv, CollectingType, Held, Outside, OnlyRunning, Aside, collecting, Home
<1>6. LockedHasLock' /\ LockIsLocal'
    BY <1>4 DEF CollectorInv, CollectingType, Held, Outside, LockedHasLock, LockIsLocal, Aside, collecting, Home
<1>7. Remembered'
    BY DEF CollectorInv, CollectingType, Held, Outside, Remembered, Aside, collecting, Home
<1>8. CollectorKept'
    BY <1>4 DEF CollectorInv, CollectorKept, Aside, collecting, Home
<1> QED BY <1>3, <1>5, <1>6, <1>7, <1>8 DEF CollectorInv

\* The steps of a construction outside the locked part, which change at most the
\* dataset it constructs and the cache file.
LEMMA OutsideIsAside ==
    ASSUME NEW t \in Thread, CollectorInv,
           \/ \E r \in Requests : Construct(t, r)
           \/ NativeLabels(t) \/ Stat(t) \/ CheckLoaded(t) \/ ScanLabels(t) \/ HashAfterScan(t)
           \/ MakeTemporary(t) \/ Save(t) \/ Sync(t) \/ Publish(t) \/ Clean(t)
    PROVE  Aside(t)
<1> USE DEF Aside, Held, Outside, At, Step, collecting, CollectorInv, CollectingType
<1>1. ASSUME NEW r \in Requests, Construct(t, r) PROVE Aside(t)
  <2>1. FirstStep(r.mode) \in Outside
    BY DEF FirstStep, Outside
  <2> QED BY <1>1, <2>1 DEF Construct
<1>2. CASE NativeLabels(t)
    BY <1>2 DEF NativeLabels, Labelling
<1>3. CASE Stat(t)
    BY <1>3 DEF Stat, Labelling
<1>4. CASE CheckLoaded(t)
    BY <1>4 DEF CheckLoaded, Labelling
<1>5. CASE ScanLabels(t)
    BY <1>5 DEF ScanLabels, Labelling
<1>6. CASE HashAfterScan(t)
    BY <1>6 DEF HashAfterScan, Labelling
<1>7. CASE MakeTemporary(t)
    BY <1>7 DEF MakeTemporary, Labelling, Fails
<1>8. CASE Save(t)
    BY <1>8 DEF Save, Labelling, Fails
<1>9. CASE Sync(t)
    BY <1>9 DEF Sync, Labelling, Fails
<1>10. CASE Publish(t)
    BY <1>10 DEF Publish, Fails
<1>11. CASE Clean(t)
    BY <1>11 DEF Clean, Labelling
<1> QED BY <1>1, <1>2, <1>3, <1>4, <1>5, <1>6, <1>7, <1>8, <1>9, <1>10, <1>11

-----------------------------------------------------------------------------
(* The locked part *)

LEMMA AcquireKeeps ==
    ASSUME LegacyAssumption, CollectorInv, NEW t \in Thread, Acquire(t)
    PROVE  CollectorInv'
<1>1. \A u \in Thread : Home(u) \in Proc
    BY DEF LegacyAssumption, Home
<1>2. /\ pc[t] = "lock" /\ running[Home(t)] = "up" /\ mutex[Home(t)] = NoThread
      /\ mutex' = [mutex EXCEPT ![Home(t)] = t] /\ pc' = [pc EXCEPT ![t] = "snapshot"]
      /\ UNCHANGED <<running, collector, wanted, inherited, enabled>>
    BY DEF Acquire, At, Step
<1>3. \A u \in Thread : u # NoThread
    BY DEF LegacyAssumption
<1>4. CollectingType'
    BY <1>1, <1>2 DEF CollectorInv, CollectingType, Held, Outside
<1>5. OnlyRunning'
    BY <1>1, <1>2 DEF CollectorInv, CollectingType, Held, Outside, OnlyRunning, Home
<1>6. LockedHasLock'
    BY <1>1, <1>2, <1>3 DEF CollectorInv, CollectingType, Held, Outside, LockedHasLock, Locked, Home
<1>7. LockIsLocal'
    BY <1>1, <1>2, <1>3 DEF CollectorInv, CollectingType, Held, Outside, LockIsLocal, Locked, Home
<1>8. Remembered'
    BY <1>1, <1>2 DEF CollectorInv, CollectingType, Held, Outside, Remembered, Home
<1>9. CollectorKept'
  <2>1. \A u \in Thread : Loading(u)' <=> Loading(u)
    BY <1>2 DEF CollectorInv, CollectingType, Held, Outside, Loading
  <2> QED BY <1>2, <2>1 DEF CollectorInv, CollectorKept, Home
<1> QED BY <1>4, <1>5, <1>6, <1>7, <1>8, <1>9 DEF CollectorInv

\* The other steps of a load keep the lock where it is, and only its owner changes
\* the collector of the process.
LEMMA OwnerIsAlone ==
    ASSUME LegacyAssumption, CollectorInv, NEW t \in Thread, Locked(t)
    PROVE  \A u \in Thread : u # t /\ Home(u) = Home(t) => ~Locked(u)
BY DEF CollectorInv, LockedHasLock

LEMMA SwitchKeepsType ==
    ASSUME NEW D, NEW f \in [D -> BOOLEAN], NEW x \in D, NEW on \in BOOLEAN
    PROVE  [f EXCEPT ![x] = on] \in [D -> BOOLEAN]
BY Zenon

LEMMA SnapshotKeeps ==
    ASSUME LegacyAssumption, CollectorInv, NEW t \in Thread, Snapshot(t)
    PROVE  CollectorInv'
<1>1. \A u \in Thread : Home(u) \in Proc
    BY DEF LegacyAssumption, Home
<1>2. /\ pc[t] = "snapshot" /\ running[Home(t)] = "up"
      /\ enabled' = [enabled EXCEPT ![t] = collector[Home(t)]]
      /\ pc' = [pc EXCEPT ![t] = "load"]
      /\ UNCHANGED <<running, collector, wanted, inherited, mutex>>
    BY DEF Snapshot, At, Step, collecting
<1>3. \A u \in Thread : (Locked(u)' <=> Locked(u)) /\ (Loading(u)' <=> Loading(u))
    BY <1>2 DEF CollectorInv, CollectingType, Held, Outside, Locked, Loading
<1>4. CollectingType'
  <2>1. collector[Home(t)] \in BOOLEAN
    BY <1>1 DEF CollectorInv, CollectingType
  <2>2. [enabled EXCEPT ![t] = collector[Home(t)]] \in [Thread -> BOOLEAN]
    BY <2>1, SwitchKeepsType, Zenon DEF CollectorInv, CollectingType
  <2> QED BY <1>1, <1>2, <2>2 DEF CollectorInv, CollectingType, Held, Outside
<1>5. OnlyRunning'
    BY <1>1, <1>2 DEF CollectorInv, CollectingType, Held, Outside, OnlyRunning, Home
<1>6. LockedHasLock' /\ LockIsLocal'
    BY <1>2, <1>3 DEF CollectorInv, CollectingType, LockedHasLock, LockIsLocal, Home
<1>7. Remembered'
  <2>1. \A u \in Thread : Home(u) = Home(t) => ~Loading(u)
    BY <1>2, OwnerIsAlone DEF Locked, Loading
  <2>2. ~inherited[Home(t)] => collector[Home(t)] = wanted[Home(t)]
    BY <1>1, <1>2, <2>1 DEF CollectorInv, CollectorKept
  <2> QED BY <1>1, <1>2, <2>2 DEF CollectorInv, CollectingType, Held, Outside, Remembered, Home
<1>8. CollectorKept'
    BY <1>2, <1>3 DEF CollectorInv, CollectorKept, Home
<1> QED BY <1>4, <1>5, <1>6, <1>7, <1>8 DEF CollectorInv

\* Both switches of the helper: while its owner is loading, the collector may be
\* anything.
LEMMA LoadKeeps ==
    ASSUME LegacyAssumption, CollectorInv, NEW t \in Thread, LoadBegins(t) \/ LoadEnds(t)
    PROVE  CollectorInv'
<1>1. \A u \in Thread : Home(u) \in Proc
    BY DEF LegacyAssumption, Home
<1>2. /\ pc[t] \in {"load", "reading"} /\ running[Home(t)] = "up"
      /\ \E place \in {"reading", "restore"} : pc' = [pc EXCEPT ![t] = place]
      /\ UNCHANGED <<running, wanted, inherited, mutex, enabled>>
    BY DEF LoadBegins, LoadEnds, At, Step
<1>0. /\ collector' \in [Proc -> BOOLEAN]
      /\ \A p \in Proc : p # Home(t) => collector'[p] = collector[p]
  <2>1. collector \in [Proc -> BOOLEAN] /\ Home(t) \in Proc
    BY <1>1 DEF CollectorInv, CollectingType
  <2>2. CASE LoadBegins(t)
    <3>1. [collector EXCEPT ![Home(t)] = FALSE] \in [Proc -> BOOLEAN]
      BY <2>1, SwitchKeepsType, Zenon
    <3> QED BY <2>1, <2>2, <3>1 DEF LoadBegins
  <2>3. CASE LoadEnds(t)
    <3> DEFINE on == cache.kind \in {"fast", "foreign"}
    <3>1. collector' = [collector EXCEPT ![Home(t)] = on]
      BY <2>3 DEF LoadEnds
    <3>2. on \in BOOLEAN
      OBVIOUS
    <3> HIDE DEF on
    <3>3. [collector EXCEPT ![Home(t)] = on] \in [Proc -> BOOLEAN]
      BY <2>1, <3>2, SwitchKeepsType, Zenon
    <3> QED BY <2>1, <3>1, <3>3
  <2> QED BY <2>2, <2>3
<1>3. \A u \in Thread : Locked(u)' <=> Locked(u)
    BY <1>2 DEF CollectorInv, CollectingType, Held, Outside, Locked
<1>4. CollectingType'
    BY <1>0, <1>2 DEF CollectorInv, CollectingType, Held, Outside
<1>5. OnlyRunning'
    BY <1>1, <1>2 DEF CollectorInv, CollectingType, Held, Outside, OnlyRunning, Home
<1>6. LockedHasLock' /\ LockIsLocal'
    BY <1>2, <1>3 DEF CollectorInv, CollectingType, LockedHasLock, LockIsLocal, Home
<1>7. Remembered'
    BY <1>1, <1>2 DEF CollectorInv, CollectingType, Held, Outside, Remembered, Home
<1>8. CollectorKept'
  <2>1. Loading(t)'
    BY <1>2 DEF CollectorInv, CollectingType, Held, Outside, Loading
  <2>2. \A u \in Thread : Home(u) # Home(t) => (Loading(u)' <=> Loading(u))
    BY <1>2 DEF CollectorInv, CollectingType, Held, Outside, Loading
  <2> QED BY <1>0, <1>2, <2>1, <2>2 DEF CollectorInv, CollectorKept, Home
<1> QED BY <1>4, <1>5, <1>6, <1>7, <1>8 DEF CollectorInv

LEMMA RestoreKeeps ==
    ASSUME LegacyAssumption, CollectorInv, NEW t \in Thread, Restore(t)
    PROVE  CollectorInv'
<1>1. \A u \in Thread : Home(u) \in Proc
    BY DEF LegacyAssumption, Home
<1>2. /\ pc[t] = "restore" /\ running[Home(t)] = "up"
      /\ collector' = [collector EXCEPT ![Home(t)] = enabled[t]]
      /\ mutex' = [mutex EXCEPT ![Home(t)] = NoThread]
      /\ enabled' = [enabled EXCEPT ![t] = TRUE]
      /\ pc' = [pc EXCEPT ![t] = "check"]
      /\ UNCHANGED <<running, wanted, inherited>>
    BY DEF Restore, At, Step
<1>3. \A u \in Thread : u # t /\ Home(u) = Home(t) => ~Locked(u)
    BY <1>2, OwnerIsAlone DEF Locked
<1>4. CollectingType'
    BY <1>1, <1>2 DEF CollectorInv, CollectingType, Held, Outside
<1>5. OnlyRunning'
    BY <1>1, <1>2 DEF CollectorInv, CollectingType, Held, Outside, OnlyRunning, Home
<1>6. LockedHasLock'
    BY <1>1, <1>2, <1>3 DEF CollectorInv, CollectingType, Held, Outside, LockedHasLock, Locked, Home
<1>7. LockIsLocal'
    BY <1>1, <1>2 DEF CollectorInv, CollectingType, Held, Outside, LockIsLocal, Locked, Home
<1>8. Remembered'
    BY <1>1, <1>2 DEF CollectorInv, CollectingType, Held, Outside, Remembered, Home
<1>9. CollectorKept'
  <2>1. ~inherited[Home(t)] => enabled[t] = wanted[Home(t)]
    BY <1>2 DEF CollectorInv, Remembered
  <2>2. \A u \in Thread : Home(u) # Home(t) => (Loading(u)' <=> Loading(u))
    BY <1>2 DEF CollectorInv, CollectingType, Held, Outside, Loading
  <2>3. /\ collector'[Home(t)] = enabled[t]
        /\ \A p \in Proc : p # Home(t) => collector'[p] = collector[p]
    BY <1>1, <1>2 DEF CollectorInv, CollectingType, Held, Outside
  <2> QED BY <1>2, <2>1, <2>2, <2>3 DEF CollectorInv, CollectorKept, Home
<1> QED BY <1>4, <1>5, <1>6, <1>7, <1>8, <1>9 DEF CollectorInv

-----------------------------------------------------------------------------
(* Processes *)

\* The child's lock is new, and its collector is its parent's: either some thread of
\* the parent is loading, and the child is inherited, or it is what was wanted.
LEMMA ForkKeeps ==
    ASSUME LegacyAssumption, CollectorInv, NEW p \in Proc, NEW child \in Proc, ForkChild(p, child)
    PROVE  CollectorInv'
<1>1. \A u \in Thread : Home(u) \in Proc
    BY DEF LegacyAssumption, Home
<1>2. /\ running[p] = "up" /\ running[child] = "unborn"
      /\ running' = [running EXCEPT ![child] = "up"]
      /\ collector' = [collector EXCEPT ![child] = collector[p]]
      /\ wanted' = [wanted EXCEPT ![child] = wanted[p]]
      /\ mutex' = [mutex EXCEPT ![child] = NoThread]
      /\ UNCHANGED <<pc, enabled>>
    BY DEF ForkChild, ChildLock
<1> DEFINE midway == inherited[p] \/ \E t \in Thread : Home(t) = p /\ Loading(t)
<1>3. inherited' = [inherited EXCEPT ![child] = midway]
    BY DEF ForkChild
<1>4. \A u \in Thread : Home(u) = child => pc[u] = "idle"
    BY <1>2 DEF CollectorInv, OnlyRunning
<1>5. collector[p] \in BOOLEAN /\ wanted[p] \in BOOLEAN
    BY DEF CollectorInv, CollectingType
<1>6. midway \in BOOLEAN
    BY DEF CollectorInv, CollectingType
<1>7. midway \/ collector[p] = wanted[p]
    BY <1>2 DEF CollectorInv, CollectorKept
<1> HIDE DEF midway
<1>8. CollectingType'
  <2>1. [collector EXCEPT ![child] = collector[p]] \in [Proc -> BOOLEAN]
    BY <1>5, SwitchKeepsType, Zenon DEF CollectorInv, CollectingType
  <2>2. [wanted EXCEPT ![child] = wanted[p]] \in [Proc -> BOOLEAN]
    BY <1>5, SwitchKeepsType, Zenon DEF CollectorInv, CollectingType
  <2>3. [inherited EXCEPT ![child] = midway] \in [Proc -> BOOLEAN]
    BY <1>6, SwitchKeepsType, Zenon DEF CollectorInv, CollectingType
  <2>4. running' \in [Proc -> States] /\ mutex' \in [Proc -> Thread \cup {NoThread}]
    BY <1>2 DEF CollectorInv, CollectingType, States
  <2> QED BY <1>2, <1>3, <2>1, <2>2, <2>3, <2>4 DEF CollectorInv, CollectingType
<1>9. OnlyRunning'
    BY <1>1, <1>2 DEF CollectorInv, CollectingType, OnlyRunning, Home
<1>10. LockedHasLock'
    BY <1>1, <1>2, <1>4 DEF CollectorInv, CollectingType, LockedHasLock, Locked, Home
<1>11. LockIsLocal'
    BY <1>1, <1>2, <1>4 DEF CollectorInv, CollectingType, LockIsLocal, Locked, Home
<1>12. Remembered'
    BY <1>1, <1>2, <1>3, <1>4 DEF CollectorInv, CollectingType, Remembered, Home
<1>13. CollectorKept'
  <2>1. \A u \in Thread : Loading(u)' <=> Loading(u)
    BY <1>2 DEF Loading
  <2>2. /\ collector'[child] = collector[p] /\ wanted'[child] = wanted[p]
        /\ inherited'[child] = midway
        /\ \A q \in Proc : q # child =>
              /\ running'[q] = running[q] /\ collector'[q] = collector[q]
              /\ wanted'[q] = wanted[q] /\ inherited'[q] = inherited[q]
    BY <1>2, <1>3 DEF CollectorInv, CollectingType
  <2> QED BY <1>7, <2>1, <2>2 DEF CollectorInv, CollectorKept, Home
<1> QED BY <1>8, <1>9, <1>10, <1>11, <1>12, <1>13 DEF CollectorInv

\* The application changes its mind while no load remembers anything.
LEMMA ToggleKeeps ==
    ASSUME LegacyAssumption, CollectorInv, NEW p \in Proc, Toggle(p)
    PROVE  CollectorInv'
<1>1. \A u \in Thread : Home(u) \in Proc
    BY DEF LegacyAssumption, Home
<1>2. \A u \in Thread : Home(u) = p => ~Locked(u)
    BY DEF Toggle
<1>3. /\ collector' = [collector EXCEPT ![p] = ~wanted[p]]
      /\ wanted' = [wanted EXCEPT ![p] = ~wanted[p]]
      /\ inherited' = [inherited EXCEPT ![p] = FALSE]
      /\ UNCHANGED <<running, mutex, pc, enabled>>
    BY DEF Toggle
<1>4. CollectingType'
  <2>1. (~wanted[p]) \in BOOLEAN
    OBVIOUS
  <2>2. [collector EXCEPT ![p] = ~wanted[p]] \in [Proc -> BOOLEAN]
    BY <2>1, SwitchKeepsType, Zenon DEF CollectorInv, CollectingType
  <2>3. [wanted EXCEPT ![p] = ~wanted[p]] \in [Proc -> BOOLEAN]
    BY <2>1, SwitchKeepsType, Zenon DEF CollectorInv, CollectingType
  <2>4. [inherited EXCEPT ![p] = FALSE] \in [Proc -> BOOLEAN]
    BY SwitchKeepsType, Zenon DEF CollectorInv, CollectingType
  <2> QED BY <1>3, <2>2, <2>3, <2>4 DEF CollectorInv, CollectingType
<1>5. OnlyRunning' /\ LockedHasLock' /\ LockIsLocal'
    BY <1>3 DEF CollectorInv, OnlyRunning, LockedHasLock, LockIsLocal, Locked, Home
<1>6. Remembered'
    BY <1>1, <1>2, <1>3 DEF CollectorInv, CollectingType, Remembered, Locked, Home
<1>7. CollectorKept'
  <2>1. collector'[p] = wanted'[p]
    BY <1>3 DEF CollectorInv, CollectingType
  <2>2. \A q \in Proc : q # p =>
            /\ collector'[q] = collector[q] /\ wanted'[q] = wanted[q]
            /\ inherited'[q] = inherited[q]
    BY <1>3 DEF CollectorInv, CollectingType
  <2> QED BY <1>3, <2>1, <2>2 DEF CollectorInv, CollectorKept, Loading, Home
<1> QED BY <1>4, <1>5, <1>6, <1>7 DEF CollectorInv

LEMMA KillKeeps ==
    ASSUME LegacyAssumption, CollectorInv, NEW p \in Proc, Kill(p)
    PROVE  CollectorInv'
<1>1. \A u \in Thread : Home(u) \in Proc
    BY DEF LegacyAssumption, Home
<1>2. /\ running' = [running EXCEPT ![p] = "down"]
      /\ pc' = [t \in Thread |-> IF Home(t) = p THEN "idle" ELSE pc[t]]
      /\ UNCHANGED <<collector, wanted, inherited, mutex, enabled>>
    BY DEF Kill
<1>3. /\ running'[p] # "up" /\ \A q \in Proc : q # p => running'[q] = running[q]
      /\ \A u \in Thread : pc'[u] = IF Home(u) = p THEN "idle" ELSE pc[u]
    BY <1>2 DEF CollectorInv, CollectingType
<1>4. CollectingType'
    BY <1>2 DEF CollectorInv, CollectingType, States, Held, Outside
<1>5. OnlyRunning'
    BY <1>1, <1>3 DEF CollectorInv, OnlyRunning, Home
<1>6. LockedHasLock'
    BY <1>2, <1>3 DEF CollectorInv, LockedHasLock, Locked, Home
<1>7. LockIsLocal'
    BY <1>1, <1>2, <1>3 DEF CollectorInv, CollectingType, LockIsLocal, Locked, Home
<1>8. Remembered'
    BY <1>2, <1>3 DEF CollectorInv, Remembered, Home
<1>9. CollectorKept'
    BY <1>1, <1>2, <1>3 DEF CollectorInv, CollectorKept, Loading, Home
<1> QED BY <1>4, <1>5, <1>6, <1>7, <1>8, <1>9 DEF CollectorInv

LEMMA PowerLossKeeps ==
    ASSUME LegacyAssumption, CollectorInv, PowerLoss
    PROVE  CollectorInv'
<1>1. /\ running' = [p \in Proc |-> IF p \in FirstProc THEN "up" ELSE "unborn"]
      /\ collector' = [p \in Proc |-> TRUE] /\ wanted' = [p \in Proc |-> TRUE]
      /\ inherited' = [p \in Proc |-> FALSE]
      /\ mutex' = [p \in Proc |-> NoThread] /\ pc' = [t \in Thread |-> "idle"]
      /\ UNCHANGED enabled
    BY DEF PowerLoss
<1>2. CollectingType'
    BY <1>1 DEF CollectorInv, CollectingType, States, Outside
<1>3. OnlyRunning' /\ LockedHasLock' /\ LockIsLocal' /\ Remembered'
    BY <1>1 DEF OnlyRunning, LockedHasLock, LockIsLocal, Remembered, Locked
<1>4. CollectorKept'
    BY <1>1 DEF CollectorKept
<1> QED BY <1>2, <1>3, <1>4 DEF CollectorInv

-----------------------------------------------------------------------------
(* The theorems *)

LEMMA CollectorInit ==
    ASSUME LegacyAssumption, LegacyInit
    PROVE  CollectorInv
<1>1. CollectingType
    BY DEF LegacyInit, CollectingType, States, Outside
<1>2. OnlyRunning /\ LockedHasLock /\ LockIsLocal /\ Remembered
    BY DEF LegacyInit, OnlyRunning, LockedHasLock, LockIsLocal, Remembered, Locked
<1>3. CollectorKept
    BY DEF LegacyInit, CollectorKept
<1> QED BY <1>1, <1>2, <1>3 DEF CollectorInv

\* A step that changes nothing of processes, threads and the collector.
LEMMA ElsewhereKeeps ==
    ASSUME CollectorInv, UNCHANGED <<collecting, pc, enabled>>
    PROVE  CollectorInv'
<1> USE DEF collecting
<1>1. CollectingType' /\ OnlyRunning' /\ LockedHasLock' /\ LockIsLocal'
    BY DEF CollectorInv, CollectingType, OnlyRunning, LockedHasLock, LockIsLocal, Locked, Home
<1>2. Remembered' /\ CollectorKept'
    BY DEF CollectorInv, Remembered, CollectorKept, Loading, Home
<1> QED BY <1>1, <1>2 DEF CollectorInv

LEMMA CollectorStep ==
    ASSUME LegacyAssumption, CollectorInv, [LegacyNext]_legacyVars
    PROVE  CollectorInv'
<1>1. ASSUME NEW t \in Thread, LoadOrScan(t) PROVE CollectorInv'
  <2>1. CASE Acquire(t)
    BY <2>1, AcquireKeeps
  <2>2. CASE Snapshot(t)
    BY <2>2, SnapshotKeeps
  <2>3. CASE LoadBegins(t) \/ LoadEnds(t)
    BY <2>3, LoadKeeps
  <2>4. CASE Restore(t)
    BY <2>4, RestoreKeeps
  <2>5. CASE \/ NativeLabels(t) \/ Stat(t) \/ CheckLoaded(t) \/ ScanLabels(t)
             \/ HashAfterScan(t) \/ MakeTemporary(t) \/ Save(t) \/ Sync(t)
             \/ Publish(t) \/ Clean(t)
    BY <2>5, OutsideIsAside, AsideKeeps
  <2> QED BY <1>1, <2>1, <2>2, <2>3, <2>4, <2>5 DEF LoadOrScan
<1>2. ASSUME NEW t \in Thread, NEW r \in Requests, Construct(t, r) PROVE CollectorInv'
    BY <1>2, OutsideIsAside, AsideKeeps
<1>3. ASSUME NEW p \in Proc, Kill(p) \/ Toggle(p) PROVE CollectorInv'
    BY <1>3, KillKeeps, ToggleKeeps
<1>4. ASSUME NEW p \in Proc, NEW child \in Proc, ForkChild(p, child) PROVE CollectorInv'
    BY <1>4, ForkKeeps
<1>5. CASE PowerLoss
    BY <1>5, PowerLossKeeps
<1>6. CASE ForeignWrite
    BY <1>6, ElsewhereKeeps DEF ForeignWrite
<1>7. ASSUME NEW c \in Content, ChangeDataset(c) PROVE CollectorInv'
    BY <1>7, ElsewhereKeeps DEF ChangeDataset
<1>8. CASE UNCHANGED legacyVars
    BY <1>8, ElsewhereKeeps DEF legacyVars
<1> QED BY <1>1, <1>2, <1>3, <1>4, <1>5, <1>6, <1>7, <1>8 DEF LegacyNext

\* The collector of every process that was not forked in the middle of a load is as
\* the application set it whenever no thread of it is loading, whatever the number
\* of threads, processes, failures and power losses (_read_trusted_legacy).
THEOREM CollectorIsRestored == LegacySpec => []CollectorKept
<1>1. LegacyInit => CollectorInv
    BY LegacyAssumption, CollectorInit
<1>2. CollectorInv /\ [LegacyNext]_legacyVars => CollectorInv'
    BY LegacyAssumption, CollectorStep
<1>3. CollectorInv => CollectorKept
    BY DEF CollectorInv
<1> QED BY <1>1, <1>2, <1>3, PTL DEF LegacySpec

\* No fork leaves a process with a lock that one of its own threads does not hold
\* (_reset_legacy_gc_lock).
THEOREM LockStaysAtHome == LegacySpec => []LockIsLocal
<1>1. LegacyInit => CollectorInv
    BY LegacyAssumption, CollectorInit
<1>2. CollectorInv /\ [LegacyNext]_legacyVars => CollectorInv'
    BY LegacyAssumption, CollectorStep
<1>3. CollectorInv => LockIsLocal
    BY DEF CollectorInv
<1> QED BY <1>1, <1>2, <1>3, PTL DEF LegacySpec

-----------------------------------------------------------------------------
(* What a cache and a construction hold *)

Settings == {"none"} \cup {r.setting : r \in Requests}
LabelsType == [kind : {"labels"}, of : Content, setting : Settings]
FastType == [kind : {"fast"}, labels : LabelsType, size : Nat, steady : BOOLEAN, synced : BOOLEAN]
CacheType == FastType \cup {Absent, Torn("foreign")} \cup {Foreign(c) : c \in Content}
CallType ==
    [mode : {"none", "native", "ultralytics"}, setting : Settings, augment : BOOLEAN, key : Nat,
     got : CacheType, labels : LabelsType \cup {NoLabels}, stored : Nat, steady : BOOLEAN,
     synced : BOOLEAN, hit : BOOLEAN, writeOk : {"none", "yes", "no"}]

\* A published cache was written through, and is filed under the size of what was
\* scanned unless its writer saw the dataset change.
Entry(k) == k.kind = "fast" => k.synced /\ (k.steady => k.size = SizeOf[k.labels.of])

Loads == {"stat", "lock", "check"} \cup Held
Writes == {"make", "save", "sync", "publish"}

\* What a construction c knows at a place.
Knows(c, place) ==
    /\ place = "native" => c.mode = "native"
    /\ place \in Loads \cup Writes => c.mode = "ultralytics"
    /\ c.mode = "ultralytics" /\ place # "ended" => ~c.hit
    /\ place \in {"hash"} \cup Writes => c.labels \in LabelsType
    /\ place \in Writes => (c.steady => c.stored = SizeOf[c.labels.of])
    /\ place = "publish" => c.synced
    /\ Entry(c.got)
    /\ place = "ended" /\ c.mode = "ultralytics" /\ c.hit /\ c.steady =>
          SizeOf[c.labels.of] = c.key /\ c.labels.setting = c.setting

EntryInv ==
    /\ pc \in [Thread -> Held \cup Outside] /\ call \in [Thread -> CallType]
    /\ content \in Content /\ cache \in CacheType /\ Entry(cache)
    /\ \A t \in Thread : Knows(call[t], pc[t])

LEMMA NoCallKnows ==
    ASSUME NEW place \in {"idle", "raised"}
    PROVE  NoCall \in CallType /\ Knows(NoCall, place)
BY DEF NoCall, CallType, CacheType, Absent, NoLabels, Settings, Knows, Entry, Loads, Held, Writes

LEMMA FastOrNot ==
    ASSUME NEW k \in CacheType, k.kind = "fast"
    PROVE  k \in FastType
BY DEF CacheType, FastType, Absent, Torn, Foreign

\* One construction takes a step, and publishes at most a good cache.
LEMMA CallStep ==
    ASSUME EntryInv, NEW t \in Thread, NEW d \in CallType, NEW place \in Held \cup Outside,
           Knows(d, place), call' = [call EXCEPT ![t] = d], pc' = [pc EXCEPT ![t] = place],
           content' = content, cache' \in CacheType, Entry(cache)'
    PROVE  EntryInv'
<1>1. pc' \in [Thread -> Held \cup Outside] /\ call' \in [Thread -> CallType]
    BY DEF EntryInv
<1>2. \A u \in Thread : Knows(call'[u], pc'[u])
    BY DEF EntryInv
<1> QED BY <1>1, <1>2 DEF EntryInv, Knows, Entry

LEMMA MoveStep ==
    ASSUME EntryInv, NEW t \in Thread, NEW place \in Held \cup Outside,
           Knows(call[t], place), UNCHANGED <<call, content, cache>>, pc' = [pc EXCEPT ![t] = place]
    PROVE  EntryInv'
<1>1. call[t] \in CallType /\ call' = [call EXCEPT ![t] = call[t]]
    BY DEF EntryInv
<1>2. cache' \in CacheType /\ Entry(cache)'
    BY DEF EntryInv, Entry
<1> QED BY <1>1, <1>2, CallStep

\* The steps that move a construction and change nothing of it.
LEMMA MovesKeepEntry ==
    ASSUME LegacyAssumption, EntryInv, NEW t \in Thread,
           \/ Stat(t) \/ Acquire(t) \/ Snapshot(t) \/ LoadBegins(t) \/ Restore(t) \/ Clean(t)
    PROVE  EntryInv'
<1> USE DEF At, Step, Calling, Labelling, Held, Outside
<1>1. Knows(call[t], pc[t])
    BY DEF EntryInv
<1>2. PICK place \in Held \cup Outside :
        /\ pc' = [pc EXCEPT ![t] = place] /\ UNCHANGED <<call, content, cache>>
        /\ \/ pc[t] \in Loads /\ place \in Loads \cup {"scan"}
           \/ pc[t] = "clean" /\ place \in {"ended", "raised"}
  <2>1. CASE Stat(t)
    BY <2>1 DEF Stat, Loads
  <2>2. CASE Acquire(t)
    BY <2>2 DEF Acquire, Loads
  <2>3. CASE Snapshot(t)
    BY <2>3 DEF Snapshot, Loads
  <2>4. CASE LoadBegins(t)
    BY <2>4 DEF LoadBegins, Loads
  <2>5. CASE Restore(t)
    BY <2>5 DEF Restore, Loads
  <2>6. CASE Clean(t)
    BY <2>6 DEF Clean, Loads
  <2> QED BY <2>1, <2>2, <2>3, <2>4, <2>5, <2>6
<1>3. Knows(call[t], place)
    BY <1>1, <1>2 DEF Knows, Loads, Writes
<1> QED BY <1>2, <1>3, MoveStep

LEMMA ConstructKeepsEntry ==
    ASSUME LegacyAssumption, EntryInv, NEW t \in Thread, NEW r \in Requests, Construct(t, r)
    PROVE  EntryInv'
<1> DEFINE d == Keyed(Built(r))
           place == FirstStep(r.mode)
<1>0. cache' \in CacheType /\ Entry(cache)' /\ content' = content
    BY DEF Construct, EntryInv, Entry
<1>1. CASE Set(t, d) /\ Step(t, place)
  <2>1. r.mode \in {"none", "native", "ultralytics"} /\ r.augment \in BOOLEAN /\ r.setting \in Settings
        /\ SizeOf[content] \in Nat
    BY DEF LegacyAssumption, EntryInv, Settings
  <2>2. Built(r) \in CallType /\ Built(r).mode = r.mode /\ ~Built(r).hit /\ Built(r).got = Absent
    BY <2>1 DEF Built, NoCall, CallType, CacheType
  <2>3. d \in CallType /\ d.mode = r.mode /\ ~d.hit /\ d.got = Absent
    BY <2>1, <2>2 DEF Keyed, CallType
  <2>4. /\ place \in {"scan", "native", "stat"}
        /\ place = "native" => r.mode = "native"
        /\ place = "stat" => r.mode = "ultralytics"
    BY <2>1 DEF FirstStep
  <2> HIDE DEF d, place
  <2>5. Knows(d, place)
    BY <2>3, <2>4 DEF Knows, Entry, Absent, Loads, Writes, Held
  <2> QED BY <1>0, <1>1, <2>3, <2>4, <2>5, CallStep DEF Set, Step, Outside
<1>2. CASE Set(t, NoCall) /\ Step(t, "raised")
    BY <1>0, <1>2, NoCallKnows, CallStep DEF Set, Step, Outside
<1> QED BY <1>1, <1>2 DEF Construct

LEMMA ReadKeepsEntry ==
    ASSUME LegacyAssumption, EntryInv, NEW t \in Thread, LoadEnds(t) \/ CheckLoaded(t)
    PROVE  EntryInv'
<1> DEFINE c == call[t]
<1>0. cache' \in CacheType /\ Entry(cache)' /\ content' = content
    BY DEF LoadEnds, CheckLoaded, Labelling, Calling, EntryInv, Entry
<1>1. c \in CallType /\ Knows(c, pc[t])
    BY DEF EntryInv
<1>2. CASE LoadEnds(t)
  <2> DEFINE d == [c EXCEPT !.got = cache]
  <2>1. d \in CallType
    BY <1>1 DEF CallType, EntryInv
  <2>2. Knows(d, "restore")
    BY <1>1, <1>2 DEF LoadEnds, At, Knows, EntryInv, CallType, Loads, Writes, Held
  <2> QED BY <1>0, <1>2, <2>1, <2>2, CallStep DEF LoadEnds, Set, Step, Held
<1>3. CASE CheckLoaded(t)
  <2>0. pc[t] = "check" /\ c.mode = "ultralytics" /\ ~c.hit
    BY <1>1, <1>3 DEF CheckLoaded, At, Knows, Loads
  <2>1. CASE Accepted(c) /\ Step(t, "ended") /\
             Set(t, [c EXCEPT !.hit = TRUE, !.labels = c.got.labels, !.steady = c.got.steady])
    <3> DEFINE d == [c EXCEPT !.hit = TRUE, !.labels = c.got.labels, !.steady = c.got.steady]
    <3>1. c.got \in FastType
      BY <1>1, <2>1, FastOrNot DEF Accepted, CallType
    <3>2. d \in CallType
      BY <1>1, <3>1 DEF CallType, FastType
    <3>3. Knows(d, "ended")
      BY <1>1, <2>1, <3>1 DEF Knows, Accepted, CallType, FastType, Entry, Loads, Writes, Held
    <3> QED BY <1>0, <2>1, <3>2, <3>3, CallStep DEF Set, Step, Outside
  <2>2. CASE Step(t, "scan") /\ Set(t, [c EXCEPT !.got = Absent])
    <3> DEFINE d == [c EXCEPT !.got = Absent]
    <3>1. d \in CallType
      BY <1>1 DEF CallType, CacheType
    <3>2. Knows(d, "scan")
      BY <1>1, <2>0 DEF Knows, CallType, Entry, Absent, Loads, Writes, Held
    <3> QED BY <1>0, <2>2, <3>1, <3>2, CallStep DEF Set, Step, Outside
  <2>3. CASE Step(t, "raised") /\ UNCHANGED call
    <3>1. Knows(c, "raised")
      BY <1>1, <2>0 DEF Knows, Loads, Writes, Held
    <3>2. UNCHANGED <<call, content, cache>>
      BY <1>3, <2>3 DEF CheckLoaded, Labelling, Calling
    <3> QED BY <2>3, <3>1, <3>2, MoveStep DEF Step, Outside
  <2> QED BY <1>3, <2>1, <2>2, <2>3 DEF CheckLoaded
<1> QED BY <1>2, <1>3

\* The steps that make labels.
LEMMA LabelsKeepEntry ==
    ASSUME LegacyAssumption, EntryInv, NEW t \in Thread,
           NativeLabels(t) \/ ScanLabels(t) \/ HashAfterScan(t)
    PROVE  EntryInv'
<1> DEFINE c == call[t]
<1>0. cache' \in CacheType /\ Entry(cache)' /\ content' = content
    BY DEF NativeLabels, ScanLabels, HashAfterScan, Labelling, Calling, EntryInv, Entry
<1>1. c \in CallType /\ Knows(c, pc[t])
    BY DEF EntryInv
<1>2. LabelsOf(content, c.setting) \in LabelsType
    BY <1>1 DEF LabelsOf, LabelsType, CallType, EntryInv
<1>3. CASE NativeLabels(t)
  <2>1. PICK hit \in BOOLEAN, written \in BOOLEAN :
          call' = [call EXCEPT ![t] = [c EXCEPT
              !.hit = hit, !.writeOk = IF hit THEN "none" ELSE IF written THEN "yes" ELSE "no",
              !.labels = LabelsOf(content, c.setting)]]
    BY <1>3 DEF NativeLabels, Set
  <2> DEFINE d == [c EXCEPT
              !.hit = hit, !.writeOk = IF hit THEN "none" ELSE IF written THEN "yes" ELSE "no",
              !.labels = LabelsOf(content, c.setting)]
             place == IF Unusable(c) THEN "raised" ELSE "ended"
  <2>2. d \in CallType /\ d.mode = c.mode /\ d.got = c.got
    BY <1>1, <1>2 DEF CallType
  <2>3. c.mode = "native" /\ Entry(c.got)
    BY <1>1, <1>3 DEF NativeLabels, At, Knows
  <2>4. place \in {"raised", "ended"}
    OBVIOUS
  <2> HIDE DEF d, place
  <2>5. Knows(d, place)
    BY <2>2, <2>3, <2>4 DEF Knows, Loads, Writes, Held
  <2>6. call' = [call EXCEPT ![t] = d] /\ pc' = [pc EXCEPT ![t] = place]
    BY <1>3, <2>1 DEF NativeLabels, Step, d, place
  <2> QED BY <1>0, <2>2, <2>4, <2>5, <2>6, CallStep DEF Outside
<1>4. CASE ScanLabels(t)
  <2> DEFINE d == [c EXCEPT !.labels = LabelsOf(content, c.setting)]
             place == IF Unusable(c) THEN "raised" ELSE "hash"
  <2>1. d \in CallType /\ d.mode = c.mode /\ d.hit = c.hit /\ d.got = c.got /\ d.labels \in LabelsType
    BY <1>1, <1>2 DEF CallType
  <2>2. Entry(c.got) /\ (c.mode = "ultralytics" => ~c.hit)
    BY <1>1, <1>4 DEF ScanLabels, At, Knows
  <2>3. place \in {"raised", "hash"}
    OBVIOUS
  <2>4. call' = [call EXCEPT ![t] = d] /\ pc' = [pc EXCEPT ![t] = place]
    BY <1>4 DEF ScanLabels, Set, Step
  <2> HIDE DEF d, place
  <2>5. Knows(d, place)
    BY <2>1, <2>2, <2>3 DEF Knows, Loads, Writes, Held
  <2> QED BY <1>0, <2>1, <2>3, <2>4, <2>5, CallStep DEF Outside
<1>5. CASE HashAfterScan(t)
  <2> DEFINE steady == content = c.labels.of
             d == [c EXCEPT !.stored = SizeOf[content], !.steady = steady]
             place == IF c.mode = "ultralytics" THEN "make" ELSE "ended"
  <2>0. SizeOf[content] \in Nat
    BY DEF LegacyAssumption, EntryInv
  <2>1. steady \in BOOLEAN /\ (steady => SizeOf[content] = SizeOf[c.labels.of])
    OBVIOUS
  <2>4. call' = [call EXCEPT ![t] = d] /\ pc' = [pc EXCEPT ![t] = place]
    BY <1>5 DEF HashAfterScan, FiledUnder, Set, Step
  <2> HIDE DEF steady
  <2>2. /\ d \in CallType /\ d.mode = c.mode /\ d.hit = c.hit /\ d.got = c.got
        /\ d.labels = c.labels /\ d.steady = steady /\ d.stored = SizeOf[content]
    BY <1>1, <2>0, <2>1 DEF CallType
  <2>3. c.labels \in LabelsType /\ Entry(c.got) /\ (c.mode = "ultralytics" => ~c.hit)
    BY <1>1, <1>5 DEF HashAfterScan, At, Knows
  <2>5. Knows(d, place)
    BY <2>1, <2>2, <2>3 DEF Knows, Loads, Writes, Held
  <2> QED BY <1>0, <2>2, <2>4, <2>5, CallStep DEF Outside
<1> QED BY <1>3, <1>4, <1>5

\* The steps that write: a failing one remembers that it failed.
LEMMA WritesKeepEntry ==
    ASSUME LegacyAssumption, EntryInv, NEW t \in Thread,
           MakeTemporary(t) \/ Save(t) \/ Sync(t) \/ Publish(t)
    PROVE  EntryInv'
<1> DEFINE c == call[t]
<1>1. /\ c \in CallType /\ Knows(c, pc[t]) /\ pc[t] \in Writes /\ content' = content
    BY DEF EntryInv, MakeTemporary, Save, Sync, Publish, At, Labelling, Calling, Writes
<1>2. /\ c.mode = "ultralytics" /\ ~c.hit /\ c.labels \in LabelsType /\ Entry(c.got)
      /\ c.steady => c.stored = SizeOf[c.labels.of]
    BY <1>1 DEF Knows, Writes
<1>3. ASSUME NEW place \in {"ended", "clean"}, Fails(t, place), UNCHANGED cache PROVE EntryInv'
  <2> DEFINE d == [c EXCEPT !.writeOk = "no"]
  <2>1. d \in CallType /\ d.mode = c.mode /\ d.hit = c.hit /\ d.got = c.got
    BY <1>1 DEF CallType
  <2>2. call' = [call EXCEPT ![t] = d] /\ pc' = [pc EXCEPT ![t] = place]
    BY <1>3 DEF Fails, Set, Step
  <2>3. cache' \in CacheType /\ Entry(cache)'
    BY <1>3 DEF EntryInv, Entry
  <2> HIDE DEF d
  <2>4. Knows(d, place)
    BY <1>2, <2>1 DEF Knows, Loads, Writes, Held
  <2> QED BY <1>1, <2>1, <2>2, <2>3, <2>4, CallStep DEF Outside
<1>4. CASE MakeTemporary(t)
  <2>1. CASE Fails(t, "ended")
    BY <1>3, <1>4, <2>1 DEF MakeTemporary, Labelling, Calling
  <2>2. CASE Step(t, "save") /\ UNCHANGED call
    <3>1. Knows(c, "save")
      BY <1>2 DEF Knows, Loads, Writes, Held
    <3> QED BY <1>4, <2>2, <3>1, MoveStep DEF MakeTemporary, Labelling, Calling, Step, Outside
  <2> QED BY <1>4, <2>1, <2>2 DEF MakeTemporary
<1>5. CASE Save(t)
  <2>1. CASE Fails(t, "clean")
    BY <1>3, <1>5, <2>1 DEF Save, Labelling, Calling
  <2>2. CASE Step(t, "sync") /\ UNCHANGED call
    <3>1. Knows(c, "sync")
      BY <1>2 DEF Knows, Loads, Writes, Held
    <3> QED BY <1>5, <2>2, <3>1, MoveStep DEF Save, Labelling, Calling, Step, Outside
  <2> QED BY <1>5, <2>1, <2>2 DEF Save
<1>6. CASE Sync(t)
  <2>1. CASE Fails(t, "clean")
    BY <1>3, <1>6, <2>1 DEF Sync, Labelling, Calling
  <2>2. CASE Step(t, "publish") /\ Set(t, [c EXCEPT !.synced = TRUE])
    <3> DEFINE d == [c EXCEPT !.synced = TRUE]
    <3>1. /\ d \in CallType /\ d.mode = c.mode /\ d.hit = c.hit /\ d.got = c.got /\ d.synced
          /\ d.labels = c.labels /\ d.steady = c.steady /\ d.stored = c.stored
      BY <1>1 DEF CallType
    <3>2. call' = [call EXCEPT ![t] = d] /\ pc' = [pc EXCEPT ![t] = "publish"]
      BY <2>2 DEF Set, Step
    <3>3. cache' \in CacheType /\ Entry(cache)'
      BY <1>6 DEF Sync, Labelling, Calling, EntryInv, Entry
    <3> HIDE DEF d
    <3>4. Knows(d, "publish")
      BY <1>2, <3>1 DEF Knows, Loads, Writes, Held
    <3> QED BY <1>1, <3>1, <3>2, <3>3, <3>4, CallStep DEF Outside
  <2> QED BY <1>6, <2>1, <2>2 DEF Sync
<1>7. CASE Publish(t)
  <2>1. CASE Fails(t, "clean") /\ UNCHANGED cache
    BY <1>3, <2>1
  <2>2. CASE /\ cache' = Fast(c.labels, c.stored, c.steady, c.synced)
             /\ Set(t, [c EXCEPT !.writeOk = "yes"]) /\ Step(t, "clean")
    <3> DEFINE d == [c EXCEPT !.writeOk = "yes"]
               k == Fast(c.labels, c.stored, c.steady, c.synced)
    <3>1. d \in CallType /\ d.mode = c.mode /\ d.hit = c.hit /\ d.got = c.got
      BY <1>1 DEF CallType
    <3>2. call' = [call EXCEPT ![t] = d] /\ pc' = [pc EXCEPT ![t] = "clean"]
      BY <2>2 DEF Set, Step
    <3>3. c.synced
      BY <1>1, <1>7 DEF Publish, At, Knows
    <3>4. k \in FastType
      BY <1>1, <1>2 DEF Fast, FastType, CallType
    <3>5. Entry(k)
      BY <1>2, <3>3 DEF Entry, Fast
    <3>6. cache' \in CacheType /\ Entry(cache)'
      BY <2>2, <3>4, <3>5 DEF CacheType, Entry
    <3> HIDE DEF d
    <3>7. Knows(d, "clean")
      BY <1>2, <3>1 DEF Knows, Loads, Writes, Held
    <3> QED BY <1>1, <3>1, <3>2, <3>6, <3>7, CallStep DEF Outside
  <2> QED BY <1>7, <2>1, <2>2 DEF Publish
<1> QED BY <1>4, <1>5, <1>6, <1>7

LEMMA EntryStep ==
    ASSUME LegacyAssumption, EntryInv, [LegacyNext]_legacyVars
    PROVE  EntryInv'
<1>1. ASSUME NEW t \in Thread, LoadOrScan(t) PROVE EntryInv'
    BY <1>1, MovesKeepEntry, ReadKeepsEntry, LabelsKeepEntry, WritesKeepEntry DEF LoadOrScan
<1>2. ASSUME NEW t \in Thread, NEW r \in Requests, Construct(t, r) PROVE EntryInv'
    BY <1>2, ConstructKeepsEntry
<1>3. ASSUME NEW p \in Proc, Kill(p) PROVE EntryInv'
  <2>1. pc' \in [Thread -> Held \cup Outside] /\ call' \in [Thread -> CallType]
    BY <1>3, NoCallKnows DEF Kill, EntryInv, Outside
  <2>2. \A t \in Thread : Knows(call'[t], pc'[t])
    BY <1>3, NoCallKnows DEF Kill, EntryInv
  <2>3. UNCHANGED <<content, cache>>
    BY <1>3 DEF Kill, Calling
  <2> QED BY <2>1, <2>2, <2>3 DEF EntryInv, Knows, Entry
<1>4. CASE PowerLoss
  <2>1. cache' = cache
    BY <1>4 DEF PowerLoss, EntryInv, Entry
  <2>2. pc' \in [Thread -> Held \cup Outside] /\ call' \in [Thread -> CallType]
    BY <1>4, NoCallKnows DEF PowerLoss, Outside
  <2>3. \A t \in Thread : Knows(call'[t], pc'[t])
    BY <1>4, NoCallKnows DEF PowerLoss
  <2>4. content' = content
    BY <1>4 DEF PowerLoss
  <2> QED BY <2>1, <2>2, <2>3, <2>4 DEF EntryInv, Knows, Entry
<1>5. CASE ForeignWrite
  <2>1. cache' \in CacheType /\ cache'.kind # "fast"
    BY <1>5 DEF ForeignWrite, CacheType, Torn, Foreign, EntryInv
  <2>2. UNCHANGED <<pc, call, content>>
    BY <1>5 DEF ForeignWrite
  <2> QED BY <2>1, <2>2 DEF EntryInv, Knows, Entry
<1>6. ASSUME NEW c \in Content, ChangeDataset(c) PROVE EntryInv'
    BY <1>6 DEF ChangeDataset, EntryInv, Knows, Entry
<1>7. CASE UNCHANGED <<pc, call, content, cache>>
    BY <1>7 DEF EntryInv, Knows, Entry
<1>8. ASSUME NEW p \in Proc, NEW child \in Proc, Toggle(p) \/ ForkChild(p, child) PROVE EntryInv'
    BY <1>7, <1>8 DEF Toggle, ForkChild, Calling
<1>9. CASE UNCHANGED legacyVars
    BY <1>7, <1>9 DEF legacyVars
<1> QED BY <1>1, <1>2, <1>3, <1>4, <1>5, <1>6, <1>8, <1>9 DEF LegacyNext

LEMMA EntryInit ==
    ASSUME LegacyAssumption, LegacyInit
    PROVE  EntryInv
<1>1. Absent \in CacheType /\ Entry(Absent)
    BY DEF Absent, CacheType, Entry
<1> QED BY <1>1, NoCallKnows DEF LegacyInit, EntryInv, Outside

\* No failure, death or power loss leaves a torn cache that the adapter wrote.
THEOREM PublishedIsWhole == LegacySpec => []TornIsForeign
<1>1. LegacyInit => EntryInv
    BY LegacyAssumption, EntryInit
<1>2. EntryInv /\ [LegacyNext]_legacyVars => EntryInv'
    BY LegacyAssumption, EntryStep
<1>3. EntryInv => TornIsForeign
    BY DEF EntryInv, TornIsForeign, CacheType, FastType, Absent, Torn, Foreign
<1> QED BY <1>1, <1>2, <1>3, PTL DEF LegacySpec

\* What a legacy cache answers with was scanned from a dataset of the size the caller
\* computed and with its settings, for any number of writers, readers, contents and
\* changes, unless the dataset changed between its writer's scan and hash.
THEOREM HitsAreFresh == LegacySpec => []HitIsSizeFresh
<1>1. LegacyInit => EntryInv
    BY LegacyAssumption, EntryInit
<1>2. EntryInv /\ [LegacyNext]_legacyVars => EntryInv'
    BY LegacyAssumption, EntryStep
<1>3. EntryInv => HitIsSizeFresh
    BY DEF EntryInv, HitIsSizeFresh, Knows
<1> QED BY <1>1, <1>2, <1>3, PTL DEF LegacySpec
=============================================================================
