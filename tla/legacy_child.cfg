\* A cache of the original class is loaded by the child of a fork.
CONSTANTS
    Process = {p1}
    Initial = {p1}
    Handle = {h1}
    Nobody = Nobody
    MaxFaults = 0
    Proc = {"parent", "child"}
    FirstProc = {"parent"}
    Thread = {t1, t2, t3}
    HomeOf <- HomeOfThree
    NoThread = NoThread
    Content = {"first", "edited", "grown"}
    SizeOf <- TwoSizes
    Labelled = {"first", "grown"}
    WithImages = {"first", "grown"}
    Requests <- SomeRequests
    MaxCalls = 2
    MaxChanges = 0
    MaxTrouble = 1
SYMMETRY Symmetric
SPECIFICATION MCSpec
INVARIANTS
    SnapshotIsWanted
CHECK_DEADLOCK FALSE
