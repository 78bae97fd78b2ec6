CONSTANTS
    SlotZeroSlots = 1
    TotalSlots = 10
    MaxSlotsPerSide = 8
    SlotSize = 64
    Cores = {core0}
    Services = {s1, s2}
    DataSizes = {24}
SPECIFICATION FairSpec
INVARIANTS
    TypeOK
    OwnSlotsOnly
    StreamIntact
    DataQuotaExact
    ServiceQuotaExact
PROPERTIES
    NoDataAfterClosing
    ImplementsStream
    EventuallyDelivered
CHECK_DEADLOCK FALSE
