SPECIFICATION Spec
CONSTANTS
    QUEUE_COUNT = 1
    OP_TABLE_SIZE = 2
    PIPELINE = 2
    QUEUE_PTR_WIDTH = 2
    LogSizes = {0, 1}
    Bases = {1}
    EQ_COUNT = 1
    ReadQueues = {}
    RING_SIZE = 2
    EventReady = {TRUE, FALSE}
    Budget = 2
    MaxPosted = 1
    MaxArming = 1
    MaxPending = 1
INVARIANTS
    RecordsFresh
    NeverDropped
    NoLostWakeup
    SlotsOwned
PROPERTY
    ImplementsCplQueue
