CONSTANTS
  Requests = 3
  TLSModes = {FALSE, TRUE}
  Pipelinings = {FALSE, TRUE}
  Splits = {FALSE, TRUE}
  PhaseSets = {{"events", "pending"}, {"events", "pending", "poll"}}
SPECIFICATION FairSpec
INVARIANTS
  DispatchFaithfulIfOrderly
  AnswersInOrder
  RestartBetweenRequests
PROPERTY EveryRequestAnswered
