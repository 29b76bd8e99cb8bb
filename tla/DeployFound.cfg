SPECIFICATION Spec
CONSTANTS
    Configs <- TwoBatchSizes
    Incremental = {TRUE, FALSE}
    MaxPolls = 2
    MaxMacis = 2
    MaxCrashes = 1
    MaxOthers = 1
    OthersRace = TRUE
    EditsAnytime = TRUE
CHECK_DEADLOCK FALSE
INVARIANTS
    RegisteredIsUsable
    NothingUnknown
    ProcessKeyFits
    GoesOn
