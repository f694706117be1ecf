------------------------------ MODULE AtomicRead ------------------------------
(***************************************************************************)
(* What snapshot.rs promises of one input: an accepted snapshot is what    *)
(* the path showed at one instant between the call and its return, however *)
(* the file was written, replaced or removed meanwhile.  The promise needs *)
(* file system stamps that tell changes apart; a file changed in the same  *)
(* clock tick in which the call first looked at it is not trusted.         *)
(***************************************************************************)
CONSTANTS
    View,           \* what a path can show: kind, modification time and contents
    Fingerprint(_, _),  \* the fingerprint of a view, with or without its contents
    Failures,       \* the answers that are errors
    Pending         \* no answer yet

VARIABLES
    shown,          \* what the path shows now
    trusted,        \* do the stamps tell the changes of this call apart?
    taken,          \* the view the call may still answer with, if any
    answer

vars == <<shown, trusted, taken, answer>>

Init ==
    /\ shown \in View
    /\ trusted = TRUE /\ taken = {} /\ answer = Pending

\* The file system goes on; a view already taken may become unusable.
Change ==
    /\ shown' \in View
    /\ taken' \in {taken, {}}
    /\ UNCHANGED <<trusted, answer>>

\* The call looks at the path.
Look ==
    /\ answer = Pending
    /\ taken' \in {{shown}, {}}
    /\ trusted' \in {trusted, FALSE}
    /\ UNCHANGED <<shown, answer>>

\* The call answers with the contents it took, with the metadata it sees now,
\* or with an error.
Reply ==
    /\ answer = Pending
    /\ \/ answer' \in Failures
       \/ \E v \in taken : answer' = Fingerprint(v, TRUE)
       \/ answer' = Fingerprint(shown, FALSE)
       \/ ~trusted
    /\ taken' = {}
    /\ UNCHANGED <<shown, trusted>>

Again ==
    /\ answer # Pending
    /\ answer' = Pending /\ trusted' = TRUE /\ taken' = {}
    /\ UNCHANGED shown

Next == Change \/ Look \/ Reply \/ Again

Spec == Init /\ [][Next]_vars
=============================================================================
