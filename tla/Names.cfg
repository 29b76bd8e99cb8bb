SPECIFICATION Spec
CONSTANTS
    Accounts = {"op", "b"}
    Operator = "op"
    Labels = {"ana"}
    Visits = {"names", "ballot", "poll"}
    VoteStart = 1
    VoteEnd = 2
    MaxBlocks = 2
    MaxClicks = 2
    MaxTasks = 2
    MaxTroubles = 1
CHECK_DEADLOCK FALSE
INVARIANTS
    NeverRevived
    NamesAreRight
