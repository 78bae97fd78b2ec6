CONSTANTS
    SlotZeroSlots = 1
    TotalSlots = 10
    MaxSlotsPerSide = 8
    SlotSize = 32
    Cores = {core0}
    Services = {s1, s2}
    DataSizes = {8, 16}
SPECIFICATION Spec
INVARIANT PaddingSparesMessages
SYMMETRY Symmetry
CHECK_DEADLOCK FALSE
