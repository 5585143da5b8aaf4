CONSTANTS
    a = a
    b = b
    c = c
    Name <- Names
    Needed <- TwoEach
    PerCluster = 3
    ClusterCount = 3
    Foreign = {2}
    Dots = 0
    Meta = {0}
    NewMeta = 0
    NoName = none
    Images <- ListedDirectories
    Listing = TRUE
SPECIFICATION FairSpec
PROPERTIES ListsStaying ListingEnds
CHECK_DEADLOCK FALSE
