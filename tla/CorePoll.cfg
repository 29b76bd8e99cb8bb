SPECIFICATION GeneratorSpec
CONSTANTS
    k1 = k1
    k2 = k2
    k3 = k3
    Modes = {"QV", "NON_QV"}
    Keys = {k1, k2, k3}
    NoSigner = none
    PadKey = pad
    JoinKeys <- TwoJoined
    Credits <- FewCredits
    VoteOptions = 2
    MaxVoteOptions = 5
    MaxLeaves = 4
    MessageBatchSize = 2
    TallyBatchSize = 2
    Commands <- SomeCommands
    MaxMessages = 4
CHECK_DEADLOCK FALSE
INVARIANTS
    InputsAreProvable
    MessagesCountOnce
    CountsAddUp
