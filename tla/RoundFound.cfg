SPECIFICATION Spec
CONSTANTS
    Keys = {k1, k2, k3}
    PadKey = pad
    MaxSignups = 4
    MessageBatchSize = 2
    StartDate = 1
    EndDate = 2
    Timestamps = {0, 2, 4}
    RelayLengths = {1, 2}
    PublishLengths = {1, 3}
    MaxMessages = 6
    TallyBatchSize = 2
    OptionCapacity = 5
    ResultIndices = {0, 3}
INVARIANTS
    BatchHashesAgree
PROPERTIES
    ClosedForGood
