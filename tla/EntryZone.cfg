CONSTANTS
    PrimarySize = 3
    ExtensionSize = 2
    UnitsPerEntry = 2
    Alphabet <- WithSpaces
    MaxLength = 3
    Instant <- Instants
    Zone = 3600
SPECIFICATION Spec
INVARIANT SecondKept
CHECK_DEADLOCK FALSE
