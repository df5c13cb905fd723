CONSTANTS
  e1 = e1
  e2 = e2
  e3 = e3
  q1 = q1
  k1 = k1
  x1 = x1
  Execs = {e1, e2, e3}
  StopOnError = {e1, e2}
  Queries = {}
  Infos = {}
  Shutdowns = {x1}
  Routes <- Routed
  executeQueueSize = 2
  MaxSignals = 0
  PublishFails = TRUE
  NoReq = NoReq
SPECIFICATION Spec
SYMMETRY Symmetric
INVARIANTS
  IdleAfterReply
  RepliesKept
  QueuedAborted
  AbortJustified
PROPERTIES
  ImplementsService
CHECK_DEADLOCK FALSE
