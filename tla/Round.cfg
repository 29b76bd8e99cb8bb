SPECIFICATION FairSpec
CONSTANTS
    Keys = {k1, k2, k3}
    PadKey = pad
    MaxSignups = 4
    MessageBatchSize = 2
    StartDate = 1
    EndDate = 3
    Timestamps = {0, 2, 4}
    RelayLengths = {1}
    PublishLengths = {1, 3}
    MaxMessages = 8
    TallyBatchSize = 2
    OptionCapacity = 5
    ResultIndices = {0, 3}
INVARIANTS
    TypeOK
    BatchHashesAgree
    EveryMessageOnce
    ResultsAreFinal
    OneLeafPerVoter
PROPERTIES
    EventuallyTallied
    ResultsNeverChange
    KeepsPromises
