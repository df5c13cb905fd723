CONSTANTS
  e1 = e1
  e2 = e2
  e3 = e3
  q1 = q1
  k1 = k1
  x1 = x1
  Execs = {e1, e3}
  StopOnError = {e1}
  Queries = {q1}
  Infos = {k1}
  Shutdowns = {x1}
  Routes <- Routed
  executeQueueSize = 1
  MaxSignals = 0
  PublishFails = TRUE
  NoReq = NoReq
SPECIFICATION Spec
INVARIANTS
  ServerInv
CHECK_DEADLOCK FALSE
