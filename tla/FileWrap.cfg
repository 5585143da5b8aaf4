CONSTANTS
    f1 = f1
    f2 = f2
    b0 = b0
    b1 = b1
    File <- Files
    SectorSize = 2
    SectorsPerCluster = 2
    ClusterCount = 3
    Content <- Bytes
    Unknown = unknown
    Word = 8
    Offset = {0, 6}
    Length = {4}
    NewSize = {0, 2, 5}
SPECIFICATION DataSpec
INVARIANT ReadsWritten
SYMMETRY Alike
CHECK_DEADLOCK FALSE
