SPECIFICATION Spec
CONSTANTS
    QUEUE_COUNT = 2
    OP_TABLE_SIZE = 1
    PIPELINE = 2
    QUEUE_PTR_WIDTH = 1
    LogSizes = {0}
    Bases = {1}
    EQ_COUNT = 1
    ReadQueues = {}
    RING_SIZE = 1
    EventReady = {TRUE, FALSE}
    Budget = 1
    MaxPosted = 1
    MaxArming = 1
    MaxPending = 1
INVARIANTS
    NoLostWakeup
