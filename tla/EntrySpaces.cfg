CONSTANTS
    PrimarySize = 3
    ExtensionSize = 2
    UnitsPerEntry = 2
    Alphabet <- WithSpaces
    MaxLength = 5
    Instant <- Instants
    Zone = 0
SPECIFICATION Spec
INVARIANTS CreatedIsFound
CHECK_DEADLOCK FALSE
