CONSTANTS
    MaxServices = 2
    PeerCloses = {0, 1}
    MaxInFlight = 2
SPECIFICATION FairSpec
PROPERTY PeerCloseCompletes
CHECK_DEADLOCK FALSE
