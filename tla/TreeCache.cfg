SPECIFICATION Spec
CONSTANTS
    NoOne = NoOne
    Keys = {a, b}
    Clients = {a}
    PageSize = 1
    MaxHeight = 4
    MaxReorgs = 1
    MaxFaults = 1
INVARIANTS
    CacheWasOnChain
    OnlyReorgsRefuse
PROPERTIES
    FreshAndJoined
