SPECIFICATION Spec
CONSTANTS
  c1 = c1
  a1 = a1
  f1 = f1
  f2 = f2
  t1 = t1
  t2 = t2
  b1 = b1
  b2 = b2
  b3 = b3
  b4 = b4
  rgb = rgb
  yuv = yuv
  NoFd = NoFd
  NoEvent = NoEvent
  NoFrame = NoFrame
  NoFormat = NoFormat
  Thread = {t1, t2}
  Nobody = Nobody
  NoOp = NoOp
  Rebind = FALSE
  Caller = {t1, t2}
  NoOne = NoOne
  NChan = 3
  Polling = FALSE
  Unplug = FALSE
  MaxFlips = 5
  Overlap = FALSE
  Client = {c1}
  Base = 1
  Pages = 4
  Sizes = {0, 1, 2}
  Aligns = {0, 2, 3}
  Process = {c1}
  Addr = {a1}
  MaxRef = 2
  MaxMaps = 1
  Fails = TRUE
  PoolId = {0, 1}
  BlkSizes = {1, 2}
  BlkCnts = {2}
  Fb = {b1, b2}
  Format = {rgb, yuv}
  PromptIrq = TRUE
  BlankFlips = FALSE
  BankSwaps = FALSE
  Buf = {b1, b2, b3, b4}
  Entries = 3
  BatchMax = 1
  Frame = {b1, b2, b3, b4}
  Depth = 2
  RingSlots = 2
  PromptTick = TRUE
  Virq = {v1}
  Slot = {1, 2}
  Fd = {f1, f2}
  Task = {t1, t2}
  FdOf <- OwnFd
  RingSize = 2
  NoEngine = 0
  MaxDepth = 2
  Modes <- SensorModes
  WantW = {3}
  Lines = {2, 9}
  Codes = {3}
  AgainMax = 2
  LoBase = 3
  Boot <- SensorBoot
  Boards <- SensorBoards
  Overlapping = FALSE
  LiveFormat = FALSE
  LateFail = FALSE
  MaxFaults = 1
  MaxCalls = 3
  MaxProbes = 1
INVARIANTS
  HeapSound
  InterruptsForwarded
  EnginePinned
  OwnOpRan
  EngineQuiet
  BlitsIsolated
  BuffersKept
  StatsCoherent
  FetchedHalfStable
  ChainBalanced
  ReadsAlive
  ScanoutTrue
  ClocksSteady
  
  CardBoots
  ControllersTrue
CHECK_DEADLOCK FALSE
