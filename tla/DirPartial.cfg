CONSTANTS
    a = a
    b = b
    c = c
    Name <- Names
    Needed <- EntriesNeeded
    PerCluster = 3
    ClusterCount = 3
    Foreign = {2}
    Dots = 0
    Meta = {0}
    NewMeta = 0
    NoName = none
    Images <- StartDirectories
    Listing = TRUE
SPECIFICATION Spec
PROPERTY ListsFiles
SYMMETRY Alike
CHECK_DEADLOCK FALSE
