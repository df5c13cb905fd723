CONSTANTS
  e1 = e1
  e2 = e2
  e3 = e3
  q1 = q1
  k1 = k1
  x1 = x1
  Execs = {e1, e2}
  StopOnError = {e1}
  Queries = {}
  Infos = {}
  Shutdowns = {x1}
  Routes <- Routed
  executeQueueSize = 1
  MaxSignals = 1
  PublishFails = FALSE
  NoReq = NoReq
SPECIFICATION FairSpec
PROPERTIES
  InterruptEnds
  ShutdownReturns
  ExecuteAnswered
CHECK_DEADLOCK FALSE
