CONSTANTS
    Services = {s1}
    MsgQueueSize = 2
    MaxCompletions = 2
    Batch = 2
    Impatient = {}
    None = None
    MaxMessages = 2
    Clients = 1
    Eager = {}
    PeerCloses = {}
SPECIFICATION VchiSpec
INVARIANT HandlerNeverStuck
CHECK_DEADLOCK FALSE
