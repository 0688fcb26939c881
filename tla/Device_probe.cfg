SPECIFICATION DevSpec
CONSTANTS
  MAX_IF = 4
  KINDS = {"pci", "platform"}
  BOARDS <- AllBoards
  IF_COUNT = 2
  EQ_NUM = 2
  PciFaults <- SafePciFaults
  PlatformFaults <- SafePlatformFaults
INVARIANTS NothingPulledAway ReleasedOnce MacsDistinct
CHECK_DEADLOCK FALSE
