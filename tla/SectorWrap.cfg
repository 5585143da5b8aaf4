CONSTANTS
    DeviceSectors = 4
    AddressSpan = 3
    Value = {v1, v2}
    CacheSize = 2
    MaxHeld = 2
    MaxBetween = 1
SPECIFICATION Spec
PROPERTY IsBlockDevice
CHECK_DEADLOCK FALSE
