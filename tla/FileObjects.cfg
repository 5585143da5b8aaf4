CONSTANTS
    LastCluster = 4
    SlotCount = 3
    a = a
    b = b
    Name <- Names
    Dot = dot
    DotDot = dotdot
    NoName = none
    MaxStamp = 1
    MaxKept = 1
    AwaitDots = TRUE
SPECIFICATION Spec
INVARIANTS TypeOK ClustersOwned EntryOfObject DataIntact
PROPERTIES EvictionLosesNothing InodeNumbersStay IsFileTree
SYMMETRY Alike
CHECK_DEADLOCK FALSE
