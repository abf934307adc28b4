CONSTANTS
  p1 = p1
  NULL = NULL
  Paths = {p1}
  Usages = {2}
  MemoryLimits = {0, 8}
  EntryLimits = {0, 1}
  TTLs = {0, 1}
  PriorityModes = {FALSE, TRUE}
  Thresholds = {1}
  Priorities = {0, 1}
  SizeMod = 64
  StartTime = 2
  MaxTime = 4
  MaxForce = 1
  Env = {"alloc_fail", "cleanup"}
  FileSizes = {1, 2, 4}
  Small = 2
  SmallChunk = 1
  LargeFrom = 3
  LargeChunk = 2
  DefaultRetry = 1
  ChunkConfigs = {0, 3}
  RetryConfigs = {0, 2}
  Pages = {"a"}
  IndexPage = "a"
  StPaths = {"a", "/", "dir", "missing"}
  StSizes = {3, 4}
  GzSizes = {0, 2}
  GzFrom = 2
  SendfileFrom = 3
  StDefaultMax = 9
  StTTLs = {0, 1}
  StMaxSizes = {0}
  Zones = {1}
  MaxVersion = 2
  StMaxTime = 3
  MaxWarm = 1
  GzOverhead = 1
  GzDefaultEntries = 1
  GzDefaultMemory = 6
  GzMaxTTL = 1
  Bodies = {"x", "y"}
  BodyLength <- MCBodyLength
  CompressedLength <- MCCompressedLength
  InlineHeaders = 1
  MaxHeaders = 2
  HeaderBuffer = 6
  DefaultThreshold = 5
  CompressThresholds = {0}
  GzTTLs = {1}
  GzMemories = {4}
  GzEntries = {1, 2}
  Addresses = {"a", "b"}
  LongAddresses = {"six"}
  RlLimits = {1, 2}
  RlWindows = {2, 3}
  RlMaxTime = 6
  MaxListed = 3
  MaxBody = 12
  InitialBody = 2
  MaxReqHeaders = 5
  InlineReqHeaders = 2
  MaxPiece = 13
  RcPaths = {"/a", "/b", "/:x"}
  RcRequests = {"/a", "/b", "/s"}
  RcHash <- MCHash
  RcParams = {"/:x"}
  RcFits <- MCFits
  RcUnder = {"/s"}
  RcMethods = {"GET"}
  BaseSize = 4
  MaxSize = 5
  RcHybrid = 2
  Protocols = {"p", "q"}
  UpHeaders = {"websocket", "x"}
  MaxProtocols = 2
  MaxRegistrations = 3
  Routers = {"r1", "r2"}
  Configs = {"c1", "c2"}
  Contexts = {"x1"}
  TlsContexts = {"t1", "t2"}
  Habits = {}
  ReadSize = 3
  RecordSizes = {1, 3, 7}
  MaxRecords = 4
  WriteSizes = {1, 5}
  RecordLimit = 2
  MaxRetries = 2
  MaxWrites = 3
SPECIFICATION ServicesSpec
INVARIANTS
  CountOK
  BodyInOrder
  ReadsConsistent
  ResponseFramed
  GzipAccounting
  RateLimitOK
  WithinLimits
  RoutesFound
  UpgradeOK
  SetupFreedOnce
  PlaintextInOrder
PROPERTIES
  FileReleased
  FreshWithinTTL
  RcAddKeepsOthers
CHECK_DEADLOCK FALSE
