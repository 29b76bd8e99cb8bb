SPECIFICATION RelayerSpec
CONSTANTS
    m1 = m1
    m2 = m2
    m3 = m3
    p1 = p1
    p2 = p2
    Messages <- ThreeMessages
    Polls = {p1}
    PollOf <- OnePoll
    Limit = 3
    MaxRuns = 2
    MaxFaults = 2
    MaxCopies = 2
CHECK_DEADLOCK FALSE
INVARIANTS
    ReadableWithoutGaps
PROPERTIES
    EventuallyRelayed
    OrderIsRestored
