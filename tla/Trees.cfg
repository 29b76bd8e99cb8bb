SPECIFICATION Trees
CONSTANTS
    Values = {a, b, c, d, e, f, g}
    MaxSize = 6
    MaxChanges = 1
    JoinLeaves = {x, y}
    BlankLeaf = blank
    MaxSignups = 16
    MaxDepth = 4
    MaxInserts = 7
    MaxUpdates = 1
CHECK_DEADLOCK FALSE
INVARIANTS
    LazyRootIsRoot
    PathsLeadToRoots
PROPERTIES
    RootStaysRight
