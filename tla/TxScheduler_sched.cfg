SPECIFICATION Spec
CONSTANTS
    QUEUE_COUNT = 1
    OP_TABLE_SIZE = 3
    PIPELINE = 2
    SCHED_CTRL_ENABLE = TRUE
    AnyOrder = FALSE
    MaxPosts = 2
INVARIANTS
    NeverForgotten
    CirculatesOnce
    EntriesLive
