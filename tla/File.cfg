CONSTANTS
    PrimarySize = 3
    ExtensionSize = 2
    UnitsPerEntry = 2
    Alphabet <- AllCharacters
    MaxLength = 5
    Instant <- Instants
    Zone = 0
    f1 = f1
    f2 = f2
    b0 = b0
    b1 = b1
    File <- Files
    SectorSize = 2
    SectorsPerCluster = 2
    ClusterCount = 3
    Content <- Bytes
    Unknown = unknown
    Word = 16
    Offset = {0, 1, 3}
    Length = {4}
    NewSize = {0, 2, 5}
SPECIFICATION FileSpec
INVARIANTS PlainIsFound ListedIsFound StatRoundsDown DataTyped ReadsWritten ChainFresh
SYMMETRY Alike
CHECK_DEADLOCK FALSE
