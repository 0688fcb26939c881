SPECIFICATION RingsSpec
CONSTANTS
    RING_SIZE = 4
    LAPS = 2
    NONE = NONE
    RX_RING_SIZE = 4
    RX_LAPS = 2
    REFILL = 2
    BUDGET = 2
    TPS = 2
    BYTE = 2
    FIELD = 4
    WORD = 8
    OrBytes <- BitOr
    Callers = {1, 2}
    START = 9
    Jumps = {10}
    Deltas = {1, 3}
    Periods <- MCPeriods
    MaxTime = 17
    MaxCalls = 2
    MaxCpls = 2
INVARIANTS
    TxSlotsOwned PagesOwned ClockTrue
PROPERTIES
    StoppedIsWoken StopsOnlyDry
