CONSTANTS
  Conns = {c1, c2}
  Timeout = 2
  Heartbeat = 1
  PingTimeout = 1
  MaxMessage = 2
  Talkers = {c1}
  MaxFrames = 3
SPECIFICATION Spec
INVARIANTS NodesValid NotifiedOnce MessagesWhole IdleBounded PingBounded
PROPERTIES CompliantPeerKept
