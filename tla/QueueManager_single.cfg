SPECIFICATION FairSpec
CONSTANTS
    QUEUE_COUNT = 1
    OP_TABLE_SIZE = 3
    PIPELINE = 3
    QUEUE_PTR_WIDTH = 2
    LogSizes = {1}
    Bases = {1, 2}
    Cqns = {1}
    ReadQueues = {0}
INVARIANTS
    GrantedOwned
PROPERTY
    OpsRetire
