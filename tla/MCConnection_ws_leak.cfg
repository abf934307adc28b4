CONSTANTS
  c1 = c1
  t1 = t1
  Conns = {c1}
  TempClients = {t1}
  MaxConnections = 1
  SizeMax = 4
  TLSModes = {FALSE}
  WsManager = TRUE
  Env = {"upgrade"}
SPECIFICATION Spec
INVARIANT WebSocketReleased
CHECK_DEADLOCK FALSE
