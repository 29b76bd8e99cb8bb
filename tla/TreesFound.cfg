SPECIFICATION TreesWithCopies
CONSTANTS
    Values = {a, b, c, d, e}
    MaxSize = 4
    MaxChanges = 1
    JoinLeaves = {x, y}
    BlankLeaf = blank
    MaxSignups = 16
    MaxDepth = 4
    MaxInserts = 3
    MaxUpdates = 1
CHECK_DEADLOCK FALSE
INVARIANTS
    JoinRootsAreRoots
    UpdatesKeepIntegrity
    CopyIsApart
