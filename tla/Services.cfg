CONSTANTS
    MaxServices = 3
    PeerCloses = {0, 1}
    MaxInFlight = 3
SPECIFICATION FairSpec
INVARIANTS
    TypeOK
    NoPanic
    FreePortQuiet
    DataFindsPeer
    DroppedOnlyWhenClosing
PROPERTY OperationsReturn
CHECK_DEADLOCK FALSE
