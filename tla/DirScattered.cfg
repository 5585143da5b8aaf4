CONSTANTS
    a = a
    b = b
    c = c
    Name <- Names
    Needed <- EntriesNeeded
    PerCluster = 4
    ClusterCount = 3
    Foreign = {1}
    Dots = 2
    Meta = {0, 1}
    NewMeta = 0
    NoName = none
    Images <- StartDirectories
    Listing = FALSE
SPECIFICATION Spec
INVARIANT InodeIsName
SYMMETRY Alike
CHECK_DEADLOCK FALSE
