CONSTANTS
  c1 = c1
  c2 = c2
  t1 = t1
  Conns = {c1, c2}
  TempClients = {t1}
  MaxConnections = 1
  SizeMax = 4
  TLSModes = {FALSE, TRUE}
  WsManager = TRUE
  Env = {"io_fail", "upgrade", "deferred", "alloc_fail"}
  Names <- MCNames
  Truncated <- MCTruncated
  ColonNames = {"ab"}
  TextPrefixes <- MCTextPrefixes
  RoutePaths <- MCRoutePaths
  RequestPaths <- MCRequestPaths
  StaticPrefixes <- MCStaticPrefixes
  Methods = {"GET"}
  HYBRID_THRESHOLD = 2
  MaxChildren = 2
  PoolSize = 2
  MaxCalls = 4
  RouterEnv = {"alloc_fail"}
SPECIFICATION IncomingSpec
INVARIANTS
  ConnectionLimit
  TrieOK
  FindsWhatFits
PROPERTIES
  RefusedOnlyAtLimit
  LifecycleSpec
  AddKeepsOthers
CHECK_DEADLOCK FALSE
