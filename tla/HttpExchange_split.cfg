CONSTANTS
  Requests = 1
  TLSModes = {FALSE}
  Pipelinings = {FALSE}
  Splits = {TRUE}
  PhaseSets = {{"events", "pending"}}
SPECIFICATION Spec
INVARIANT DispatchFaithful
