---------------------------- MODULE ExclusiveLock ----------------------------
(***************************************************************************)
(* What the native cache relies on of its lock: one user is inside at a    *)
(* time, nobody enters before the last one has left, and leaving frees the *)
(* lock.  Only a user that dies, or whose unlock call fails, can leave it  *)
(* taken: by processes forked from it, which inherited the locked file and *)
(* give it up when they please.  LockHandle is how cache.rs implements it, *)
(* CacheProtocol how _cache.py uses it.                                    *)
(***************************************************************************)
CONSTANT User       \* those who can enter

VARIABLES
    inside,         \* the users that are in the critical section
    taken,          \* is the lock taken?
    lost            \* the users that may have left without giving it back

vars == <<inside, taken, lost>>

Init == inside = {} /\ taken = FALSE /\ lost = {}

Enter(u) == ~taken /\ taken' = TRUE /\ inside' = {u}

Leave(u) == inside = {u} /\ inside' = {} /\ taken' = FALSE

\* The user goes, and leaves the lock to its children.
Abandon(u) == inside = {u} /\ inside' = {} /\ u \in lost' /\ UNCHANGED taken

\* The last child that kept the lock gives it up.
Lapse == inside = {} /\ taken /\ taken' = FALSE /\ UNCHANGED inside

Next ==
    /\ lost \subseteq lost' /\ lost' \subseteq User
    /\ \/ \E u \in User : Enter(u) \/ Leave(u) \/ Abandon(u)
       \/ Lapse
       \/ UNCHANGED <<inside, taken>>

Spec == Init /\ [][Next]_vars

\* What follows of every state: one is inside at most, and with the lock; and if no
\* user is lost, the lock is taken for one that is inside.
Exclusive ==
    /\ \A u, v \in inside : u = v
    /\ inside # {} => taken
    /\ taken /\ lost = {} => inside # {}
=============================================================================
