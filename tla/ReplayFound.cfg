SPECIFICATION Spec
CONSTANTS
    MaxPolls = 2
    ActivePolls = {1}
    MaxTxs = 6
    MaxBlock = 2
    Sizes = {2}
    FirstOfTwo = {"PublishMessage"}
    PollId = 1
    BlocksPerRequest = 1
    StartBlocks = {0}
    HasBackups = TRUE
    Outputs = {"none", "file"}
CHECK_DEADLOCK FALSE
INVARIANTS
    NodeIsTheChain
    MergedTotals
    RegistryCount
PROPERTIES
    EventuallySaved
