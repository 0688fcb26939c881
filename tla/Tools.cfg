SPECIFICATION ToolsSpec
CONSTANTS
  Families = {"gthe3", "gthe4", "gtye3", "gtye4"}
  CH_COUNT = 2
  Masks <- SomeMasks
  RawWidths = {4}
  IDW = 1
  H_STOP = 1
  V_STOP = 1
  GRID_STEP = 2
  SAMPLES = 3
  TARGET = 700
  MaxPrescale = 11
  MaxBerTries = 2
  Losses <- SomeLosses
  SIZE = 32
  PAGE = 2
  SUBSECTOR = 4
  SECTOR = 8
  STEP = 8
  WBUF = 4
  REGION0 = 8
  BLOCK0 = 4
  BLOCK1 = 8
  OFFSET = 2
  RESYNC = 4
  Setups <- SomeSetups
  Options <- SomeOptions
  Lens = {6, 14, 16}
  MaxDualLen = 14
  MaxFaults = 1
  MaxKills = 1
  NumThreads = 2
  WndSizes = {1, 2, 3}
  Lengths = {1, 2, 4, 6}
  MaxSlmpFaults = 2
  Procs = {p1, p2}
  Readers = {r1}
  Handles = {"m1", "m2"}
  Hpus = {1}
  DMA_IDS = 2
  BLOCK = 8
  SectionLens = {12}
  MaxOut = 1
  PspinFaults = {"query", "iomap", "chrdev", "class", "cdevs", "cdev0", "cdev1", "sysfs"}
  Names <- SomeNames
  Chains <- SomeChains
  Nics <- SomeNics
  NumIfs = 2
  NumPorts = 1
  NumScheds = 1
  MaxCount = 2
  Grow = 1
  LibFaults = {"open", "realpath", "ioctl", "mmap", "calloc", "if"}
  HALF = 2
  BLOCK_MAX = 2
  ModuleIds = {"sfp", "qsfp", "other"}
  EeFaults = {"i2c", "short", "client", "select", "id"}
  MaxBlind = 1
INVARIANTS
  ScanTrue PresetsCoherent Programmed OthersIntact QuietReset SlmpTruthful NoStrayDma AnsweredOnce
  LibraryHoldsWhatItSays EepromTrue
PROPERTIES
  ToolsEnd PspinProgress
CHECK_DEADLOCK FALSE
