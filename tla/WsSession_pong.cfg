CONSTANTS
  Conns = {c1}
  Timeout = 2
  Heartbeat = 1
  PingTimeout = 1
  MaxMessage = 2
  Talkers = {c1}
  MaxFrames = 1
SPECIFICATION Spec
PROPERTY PongCounts
