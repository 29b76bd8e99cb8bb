SPECIFICATION Spec
CONSTANTS
    MaxPolls = 2
    ActivePolls = {1}
    MaxTxs = 5
    MaxBlock = 3
    Sizes = {2}
    FirstOfTwo = {"IpfsHashAdded"}
    PollId = 1
    BlocksPerRequest = 1
    StartBlocks = {0}
    HasBackups = TRUE
    Outputs = {"none", "file"}
CHECK_DEADLOCK FALSE
INVARIANTS
    NodeIsTheChain
    IndexCounts
PROPERTIES
    EventuallyReplayed
