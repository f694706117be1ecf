------------------------------- MODULE MCForks -------------------------------
(* What a fork copies, on small instances: the handles on the cache's lock    *)
(* (LockHandle) or the adapter's loads and their collector (LegacyCache).  A  *)
(* behaviour is of one of the two; the other's state stays as it began.       *)
EXTENDS LockHandle, LegacyCache, TLC

Symmetric == Permutations({t \in Thread : HomeOf[t] \in FirstProc})

HomeOfThree == [t \in Thread |-> IF ToString(t) = "t3" THEN "child" ELSE "parent"]
TwoSizes == [c \in Content |-> IF c = "grown" THEN 2 ELSE 1]

Request(mode, setting, augment) == [mode |-> mode, setting |-> setting, augment |-> augment]
SomeRequests == {Request("ultralytics", "detect", TRUE), Request("ultralytics", "segment", FALSE),
                 Request("native", "detect", TRUE), Request("none", "detect", FALSE)}

LockIdle == process = [p \in Process |-> "unborn"] /\ creator = [h \in Handle |-> Nobody]
            /\ open = [p \in Process |-> {}] /\ held = open /\ owner = Nobody /\ faults = 0
LegacyIdle ==
    /\ running = [p \in Proc |-> "unborn"] /\ collector = [p \in Proc |-> TRUE]
    /\ wanted = collector /\ inherited = [p \in Proc |-> FALSE]
    /\ mutex = [p \in Proc |-> NoThread] /\ pc = [t \in Thread |-> "idle"]
    /\ enabled = [t \in Thread |-> TRUE] /\ call = [t \in Thread |-> NoCall]
    /\ content = "first" /\ cache = Absent /\ calls = 0 /\ changes = 0 /\ trouble = 0

\* The dataset starts with its first content; every other is a change away.
MCInit == (Init /\ LegacyIdle) \/ (LegacyInit /\ content = "first" /\ LockIdle)
MCNext == \/ running = [p \in Proc |-> "unborn"] /\ Next /\ UNCHANGED legacyVars
          \/ process = [p \in Process |-> "unborn"] /\ LegacyNext /\ UNCHANGED vars
MCSpec == MCInit /\ [][MCNext]_<<vars, legacyVars>>
=============================================================================
