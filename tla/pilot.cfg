\* Two invocations of the pilot.
CONSTANTS
    Settings <- OneSetting
    Two <- SevenSixteen
    Pairs = 0
    Cases <- TwoCases
    MaxTrouble = 1
    Rounds = 1
    MaxMishaps = 0
SPECIFICATION MCSpec
PROPERTIES
    PilotReportKept
CHECK_DEADLOCK FALSE
