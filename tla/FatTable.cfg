CONSTANTS
    root = root
    sub = sub
    a = a
    b = b
    CountOfClusters = 6
    Word = 8
    MaxRequest = 3
    Owner <- MCOwner
    Dir <- MCDir
    Root = root
    Images <- HealthyImages
SPECIFICATION Spec
INVARIANTS TypeOK ChainsDisjoint ChainsSound NothingLost
PROPERTIES ResizeExact AvailFollows RefinesPool
CHECK_DEADLOCK FALSE
