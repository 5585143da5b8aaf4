CONSTANTS
    DeviceSectors = 4
    AddressSpan = 4
    Value = {v1, v2}
    CacheSize = 2
    MaxHeld = 2
    MaxBetween = 1
    Key = {k1, k2, k3, k4}
    MaxSize = 3
SPECIFICATION CachesSpec
INVARIANTS TypeOK CleanIsStable OneObject UseTyped NoneStale NeverEarly
PROPERTIES IsBlockDevice FlushIsDurable
CHECK_DEADLOCK FALSE
