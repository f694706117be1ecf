\* Two processes that call again and again, one failure or crash.
CONSTANTS
    Proc = {p1, p2}
    Nobody = Nobody
    Heir = Heir
    Pair = {a}
    Bytes = {b1}
    NoBytes = NoBytes
    Policies = {"content"}
    MaxPolls = 1
    MaxWrites = 0
    MaxFaults = 1
SPECIFICATION FairSpec
PROPERTIES
    EveryCallReturns
