CONSTANTS
  e1 = e1
  e2 = e2
  e3 = e3
  q1 = q1
  k1 = k1
  x1 = x1
  Execs = {e1, e2}
  StopOnError = {}
  Queries = {}
  Infos = {}
  Shutdowns = {}
  Routes <- Routed
  executeQueueSize = 1
  MaxSignals = 0
  PublishFails = FALSE
  NoReq = NoReq
SPECIFICATION FairSpec
PROPERTIES
  LoopEndNotified
CHECK_DEADLOCK FALSE
