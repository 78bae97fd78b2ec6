CONSTANTS
    SlotZeroSlots = 1
    TotalSlots = 7
    MaxSlotsPerSide = 8
    SlotSize = 32
    Cores = {core0, core1}
    Services = {s1, s2}
    DataSizes = {24}
SPECIFICATION SignalsFairSpec
INVARIANTS
    OwnSlotsOnly
    StreamIntact
    NoLostWakeup
PROPERTIES
    ImplementsTrigger
    WokenForMessages
CHECK_DEADLOCK FALSE
