CONSTANTS
    SlotZeroSlots = 1
    TotalSlots = 10
    MaxSlotsPerSide = 8
    SlotSize = 32
    Cores = {core0}
    Services = {s1, s2}
    DataSizes = {8, 24}
SPECIFICATION FairSpec
PROPERTY SlotHandlerRuns
CHECK_DEADLOCK FALSE
