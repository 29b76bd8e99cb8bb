SPECIFICATION TwoSpec
CONSTANTS
    Polls = {p1}
    FirstStages = {"near"}
    MaxTasks = 2
    MaxRequests = 3
    MaxFaults = 3
    MaxCrashes = 2
    FaultPoints = {"read", "merge", "generate", "submit", "process"}
    Overlap = FALSE
    CrashAnywhere = FALSE
CHECK_DEADLOCK FALSE
INVARIANTS
    PursuedOnce
    RecordNeverAhead
PROPERTIES
    DoneOnce
