SPECIFICATION Spec
CONSTANTS
    Polls = {p1}
    FirstStages = {"far", "near"}
    MaxTasks = 1
    MaxRequests = 1
    MaxFaults = 1
    MaxCrashes = 1
    FaultPoints = {"read", "merge", "generate", "submit", "process"}
    Overlap = FALSE
    CrashAnywhere = TRUE
CHECK_DEADLOCK FALSE
INVARIANTS
    RunsAfterTheEnd
PROPERTIES
    ReloadsScheduledPolls
    RestartedUntilFinalized
