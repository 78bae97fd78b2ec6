CONSTANTS
    Services = {s1, s2}
    MsgQueueSize = 1
    MaxCompletions = 2
    Batch = 2
    Impatient = {s2}
    None = None
    MaxMessages = 2
    Clients = 2
    Eager = {s2}
    PeerCloses = {s1}
SPECIFICATION VchiFairSpec
INVARIANTS
    VchiTypeOK
    WaitKeepsService
    OnlyDequeueBlocks
    MapFollowsServices
    OnlyKnownPanics
PROPERTIES
    CallsReturn
    MessageReachesClient
CHECK_DEADLOCK FALSE
