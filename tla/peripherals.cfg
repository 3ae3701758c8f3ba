SPECIFICATION Spec
CONSTANTS
  Messages = 3
  Getter = {g1}
  CopyFails = TRUE
  g1 = g1
  g2 = g2
  k1 = k1
  k2 = k2
  gainA = gainA
  gainB = gainB
  dim = dim
  bright = bright
  Granule = 2
  WidthEnd = 8
  HeightEnd = 4
  ChanEnd = 4
  StrideEnd = 8
  AddrEnd = 64
  QOne = 8
  LowEnd = 64
  HighEnd = 8
  BatchMax = 255
  DescStride = 256
  BatchBuf = 65280
  Ops <- JobOps
  Params <- ZoneParams
  DtNodes <- Nodes
  Default <- BakedZone
  ZoneNames = {"", "sram"}
  BlockSizes = {1, 2}
  Page = {1, 2, 3, 4, 5, 6, 7, 8}
  NoZone <- NoNode
  Mapping = {k1, k2}
  NoPage = 0
  MaxKref = 2
  Entry = {1, 2}
  Caller = {g1, g2}
  Listener = {g1}
  CloseInFlight = FALSE
  MaxWrites = 4
  Name = {"vin", "venc", "vo"}
  ScFile = {1, 2, 3}
  MaxPriority = 2
  NoFile = 0
  Wrap = 32
  Ratio = 2
  Bases = {0, 5, 30}
  Steps <- ClockSteps
  MaxReads = 7
  Frequencies = {0, 99, 100, 332, 333, 600}
INVARIANTS
  ReturnedOnce
  TablesHonoured
  GainsBlended
  BanksBuilt
  ServicesHonest
  MapsBalanced
  JobsTrue
CHECK_DEADLOCK FALSE
