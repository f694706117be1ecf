\* The worker experiments: one accident, failure or change at any moment of the chain.
\* The comparison: one pair of each mode and one mishap.  Both chains come to an end.
CONSTANTS
    Settings <- TwoSettings
    Two <- SevenSixteen
    Pairs = 2
    Cases <- TwoCases
    MaxTrouble = 1
    Rounds = 1
    MaxMishaps = 1
SPECIFICATION MCSpec
INVARIANTS
    PassedIsWholePlan
    MeasuredUsedTheNamed
    OneWorkerAtATime
    SummaryIsCollected
    FinalRestsOnPassed
    AuditedAlone
    SealedIsMeasured
PROPERTIES
    EarlierReportKept
    CampaignEnds
CHECK_DEADLOCK FALSE
