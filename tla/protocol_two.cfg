\* Two processes, one failure, crash or power loss, one change of the dataset.  One
\* content is enough here: a rewrite shows in the modification time.
CONSTANTS
    Proc = {p1, p2}
    Nobody = Nobody
    Heir = Heir
    Pair = {a}
    Bytes = {b1}
    NoBytes = NoBytes
    Policies = {"content"}
    MaxPolls = 1
    MaxWrites = 1
    MaxFaults = 1
SYMMETRY Symmetric
SPECIFICATION Spec
INVARIANTS
    TypeOK
    LockOwnership
    NeverTorn
    SavedMeansPublished
PROPERTIES
    RaisedOnlyOnChange
    NoRepeatedScan
