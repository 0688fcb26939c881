SPECIFICATION Spec
CONSTANTS
    QUEUE_COUNT = 2
    OP_TABLE_SIZE = 2
    PIPELINE = 2
    QUEUE_PTR_WIDTH = 2
    LogSizes = {0}
    Bases = {1}
    Cqns = {1}
    ReadQueues = {}
INVARIANTS
    PipeCoherent
    ReqResourcesFree
    OpTableRing
    TagsExclusive
PROPERTY
    ImplementsDescQueue
