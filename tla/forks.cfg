\* Two processes, two children and three handles with one failing unlock; or two threads
\* and a forked child that construct two datasets, with one change and one trouble.
CONSTANTS
    Process = {p1, p2, c1, c2}
    Initial = {p1, p2}
    Handle = {h1, h2, h3}
    Nobody = Nobody
    MaxFaults = 1
    Proc = {"parent", "child"}
    FirstProc = {"parent"}
    Thread = {t1, t2, t3}
    HomeOf <- HomeOfThree
    NoThread = NoThread
    Content = {"first", "edited", "grown"}
    SizeOf <- TwoSizes
    Labelled = {"first", "grown"}
    WithImages = {"first", "grown"}
    Requests <- SomeRequests
    MaxCalls = 2
    MaxChanges = 1
    MaxTrouble = 1
SYMMETRY Symmetric
SPECIFICATION MCSpec
INVARIANTS
    InsideMeansLocked
    CollectorKept
    LockIsLocal
    HitIsSizeFresh
    TornIsForeign
PROPERTIES
    ImplementsExclusiveLock
CHECK_DEADLOCK FALSE
