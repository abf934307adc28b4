CONSTANTS
  p1 = p1
  p2 = p2
  p3 = p3
  NULL = NULL
  Paths = {p1, p2, p3}
  Usages = {2, 3, 8}
  MemoryLimits = {8}
  EntryLimits = {0, 2}
  TTLs = {1}
  PriorityModes = {FALSE, TRUE}
  Thresholds = {1}
  Priorities = {0, 1}
  SizeMod = 64
  StartTime = 2
  MaxTime = 4
  MaxForce = 2
  Env = {}
SPECIFICATION SoundSpec
INVARIANTS LinksOK MemoryOK
PROPERTIES RecencySpec PutWithinLimits CallsReturn
