CONSTANTS
  g1 = g1
  g2 = g2
  NumExecs = 2
  Subs <- OneSub
  UintMax = 255
  Interrupted = {1}
  Outcomes = {"ok"}
  EarlyCancel = FALSE
SPECIFICATION FairSpec
INVARIANTS
  CoreInv
PROPERTIES
  CallReturns
  ContextReleased
  PollersStop
CHECK_DEADLOCK FALSE
