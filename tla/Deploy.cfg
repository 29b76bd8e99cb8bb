SPECIFICATION Spec
CONSTANTS
    Configs <- TwoPolicies
    Incremental = {TRUE, FALSE}
    MaxPolls = 2
    MaxMacis = 1
    MaxCrashes = 1
    MaxOthers = 1
    OthersRace = FALSE
    EditsAnytime = FALSE
CHECK_DEADLOCK FALSE
INVARIANTS
    RegisteredIsUsable
    OnePollPerPolicy
PROPERTIES
    EventuallyDeployed
