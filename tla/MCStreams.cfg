CONSTANTS
  c1 = c1
  c2 = c2
  Conns = {c1, c2}
  TempClients = {}
  MaxConnections = 2
  SizeMax = 4
  TLSModes = {FALSE, TRUE}
  WsManager = TRUE
  Env = {"io_fail", "upgrade", "deferred", "accept_fail", "server_free"}
  ShortLimit = 2
  ByteValues = 2
  MaxFrameSize = 18
  RecvBuffer = 3
  PayloadLengths = {0, 2, 4, 19}
  MaskingKey <- SampleKey
  MaxRead = 3
  MaxSent = 2
SPECIFICATION StreamsSpec
SYMMETRY Symmetry
INVARIANTS
  CloseAccounting
  NoDanglingCallback
  OneExchangeAtATime
  FramesWhole
PROPERTIES
  CloseResponseHonoured
CHECK_DEADLOCK FALSE
