SPECIFICATION Spec
CONSTANTS
    RING_SIZE = 4
    LAPS = 2
    NONE = NONE
INVARIANT
    BatchRung
