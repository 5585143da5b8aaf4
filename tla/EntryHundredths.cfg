CONSTANTS
    PrimarySize = 3
    ExtensionSize = 2
    UnitsPerEntry = 2
    Alphabet <- WithSpaces
    MaxLength = 3
    Instant <- AllInstants
    Zone = 0
SPECIFICATION Spec
INVARIANT HundredthsKept
CHECK_DEADLOCK FALSE
