CONSTANTS
    Services = {s1, s2}
    MsgQueueSize = 2
    MaxCompletions = 2
    Batch = 2
    Impatient = {s2}
    None = None
    MaxMessages = 4
SPECIFICATION Spec
INVARIANTS
    TypeOK
    DeliveredInOrder
    NoneDeliveredTwice
    OnePerService
    NoCompletionLost
    NoLostNotification
    NoPanic
CHECK_DEADLOCK FALSE
