SPECIFICATION HalSpec
CONSTANTS
  FifoDepth = 2
  Threshold = 0
  Streams = 5
  MaxBytes = 2
  ALT_MAX_FD = 5
  Devices = {"null", "uart"}
  FileSystems = {"rozipfs"}
  alt_dev_null = "null"
  NoDev = "none"
  NameOf <- MCNameOf
  Methods <- MCMethods
  Files <- MCFiles
  StdFile <- uart
  Modes = {"O_RDWR"}
  StatusFlags = {}
  Wrap = 8
  Alarms = {"a", "b", "c"}
  NoAlarm = "head"
  Rates = {2, 3}
  ALT_US = 6
  Times <- MCTimes
  INT_MAX = 63
  ALT_CPU_FREQ = 101
  Million = 2
  NIOS2_CPU_IMPLEMENTATION = "tiny"
  ALT_NIRQ = 3
  MaxNesting = 2
  HeapStart = 6
  HeapLimit = 84
  SlabSize = 28
  SizeOfEntry = 12
  Functions = {"f"}
  Callers = {"p", "q"}
  HistogramSize = 6
  Increments = {5}
  MaxCalls = 2
  WordBits = 8
  Args = {0, 1, 7, 9, 10, 64, 99, 100, 127, 128, 129, 255}
  Lengths = {0, 3}
  MaxFormat = 3
  LogDepth = 2
  ALT_LOG_SYS_CLK_INTERVAL = 2
  ALT_LOG_WRITE_ECHO_LEN = 3
  LineLengths = {1, 3}
  WriteLengths = {1, 2, 4}
  RegBits = 4
  Cases <- MCCases
  Options <- MCOptions
  Layouts <- MCLayouts
  Stale = Stale
  DCACHE_SIZE = 4
  DCACHE_LINE_SIZE = 2
  ICACHE_SIZE = 4
  ICACHE_LINE_SIZE = 2
  MemorySize = 6
  FlashBase = 4
  BYPASS_DCACHE_MASK = 8
  Regions <- MCRegions
  Blocks <- MCBlocks
  FlashWrites <- MCFlashWrites
  Channels <- MCChannels
  NoName = "none"
  QueueDepth = 1
  Handles = {1, 2}
INVARIANT NoDescriptorLeaks
INVARIANT OneHolder
INVARIANT AlarmsOnTime
INVARIANT TimeGoesOn
INVARIANT SleepClose
INVARIANT InterruptsNest
INVARIANT HeapDisjoint
INVARIANT CallGraphKept
INVARIANT NumbersReadBack
INVARIANT LogLosesOnlyStale
INVARIANT ResumesRight
INVARIANT MainSeesImage
INVARIANT UncachedNotCached
INVARIANT RequestsAtTheirDevice
PROPERTY PolledStream
PROPERTY PolledReturns
PROPERTY FlushExact
