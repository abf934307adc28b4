CONSTANTS
  p1 = p1
  p2 = p2
  NULL = NULL
  Paths = {p1, p2}
  Usages = {2}
  MemoryLimits = {0}
  EntryLimits = {0}
  TTLs = {1}
  PriorityModes = {FALSE}
  Thresholds = {1}
  Priorities = {0}
  SizeMod = 64
  StartTime = 2
  MaxTime = 5
  MaxForce = 1
  Env = {"cleanup"}
SPECIFICATION Spec
INVARIANT LinksOK
