SPECIFICATION ProverSpec
CONSTANTS
    Keys = {k1, k2}
    PadKey = pad
    MaxSignups = 4
    MessageBatchSize = 2
    StartDate = 1
    EndDate = 3
    Timestamps = {0, 2, 4}
    RelayLengths = {1}
    PublishLengths = {1, 2}
    MaxMessages = 7
    TallyBatchSize = 2
    OptionCapacity = 5
    ResultIndices = {0, 3}
    MaxInterruptions = 2
CHECK_DEADLOCK FALSE
INVARIANTS
    FittingProofIsNext
PROPERTIES
    EventuallyProved
