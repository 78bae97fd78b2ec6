CONSTANTS
    Services = {s1, s2}
    MsgQueueSize = 2
    MaxCompletions = 2
    Batch = 2
    Impatient = {s1, s2}
    None = None
    MaxMessages = 3
SPECIFICATION Spec
INVARIANT BypassIsSafe
SYMMETRY Symmetry
CHECK_DEADLOCK FALSE
