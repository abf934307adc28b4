CONSTANTS
  Routers = {"r1"}
  Configs = {"c1", "c2"}
  Contexts = {"x1"}
  TlsContexts = {"t1"}
  Habits = {"freed_after", "shared"}
SPECIFICATION SetupSpec
INVARIANT DocumentedUse
CHECK_DEADLOCK FALSE
