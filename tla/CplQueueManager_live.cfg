SPECIFICATION FairSpec
CONSTANTS
    QUEUE_COUNT = 1
    OP_TABLE_SIZE = 1
    PIPELINE = 2
    QUEUE_PTR_WIDTH = 1
    LogSizes = {0}
    Bases = {1}
    EQ_COUNT = 1
    ReadQueues = {0}
    RING_SIZE = 1
    EventReady = {TRUE}
    Budget = 1
    MaxPosted = 1
    MaxArming = 1
    MaxPending = 1
PROPERTY CompletionsDelivered
