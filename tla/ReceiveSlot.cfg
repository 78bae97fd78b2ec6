CONSTANTS
    SlotZeroSlots = 1
    TotalSlots = 11
    MaxSlotsPerSide = 6
    SlotSize = 32
    DataSizes = {4, 16}
    GarbageSizes = {0, 40}
    MaxRxPos = 64
SPECIFICATION Spec
INVARIANT ReadsAtRxPos
CHECK_DEADLOCK FALSE
