\* One process at a time, either policy, a dataset that changes three times.
CONSTANTS
    Proc = {p1}
    Nobody = Nobody
    Heir = Heir
    Pair = {a}
    Bytes = {b1, b2}
    NoBytes = NoBytes
    Policies = {"content", "metadata"}
    MaxPolls = 0
    MaxWrites = 3
    MaxFaults = 0
SYMMETRY Symmetric
SPECIFICATION Spec
PROPERTIES
    HitIsSnapshot
    PublicationIsSnapshot
    ContentHitIsLive
