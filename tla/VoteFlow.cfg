SPECIFICATION Spec
CONSTANTS
    Accounts = {a, b}
    Others = {"other"}
    BlockSpace = 2
    MaxSwitches = 1
    MaxVotes = 2
    MaxTroubles = 1
    MaxRuns = 2
CHECK_DEADLOCK FALSE
SYMMETRY Symmetry
INVARIANTS
    OwnLeafOrOneBefore
    RestShowsTheWallet
PROPERTIES
    ReceiptsStayRight
