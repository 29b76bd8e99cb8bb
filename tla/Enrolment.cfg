SPECIFICATION FairSpec
CONSTANTS
    Accounts = {a1, a2}
    People = {p1, p2}
    Ids = {1, 2}
    None = None
    Capacity = 2
    Window = 1
    Lifetime = 2
    MaxLifetime = 2
    MaxTroubles = 2
INVARIANTS
    OneEnrolment
    OneGrantPerChallenge
PROPERTIES
    StoresWhatWasEarned
    EventuallyEnrolled
