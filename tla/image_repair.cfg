\* An image listed twice, two changes by other programs, one failing call; or a cache
\* of up to two sections in one of two files, one change and one failure.
CONSTANTS
    Worker = {w1, w2}
    Repair = "reference"
    Written = {"intact", "damaged", "swollen", "huge", "broken"}
    MaxChanges = 2
    MaxFaults = 1
    CacheFile = {f1, f2}
    NoFile = NoFile
    Directory = Directory
    Datum = {"x", "y"}
    Payloads <- SomePayloads
    Found <- SomeFound
    Junk <- SomeJunk
    Budgets = {5}
    MaxSections = 3
    MaxMetadata = 1
    MaxWord = 7
    MaxTicks = 1
    MaxEdits = 1
    MaxTrouble = 1
SYMMETRY Symmetric
SPECIFICATION MCSpec
INVARIANTS
    PublishableIsRight
    RepairsCompose
    ReservedWithinBudget
PROPERTIES
    OverwritesOnlyWhatItRead
    AcceptedWasThere
    PublishedIsAccepted
CHECK_DEADLOCK FALSE
