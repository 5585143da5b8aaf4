CONSTANTS
    DeviceSectors = 4
    AddressSpan = 4
    Value = {v1, v2}
    CacheSize = 2
    MaxHeld = 2
    MaxBetween = 2
SPECIFICATION Spec
INVARIANT OneObject
CHECK_DEADLOCK FALSE
