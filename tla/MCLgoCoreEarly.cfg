CONSTANTS
  g1 = g1
  g2 = g2
  NumExecs = 1
  Subs <- OneSub
  UintMax = 255
  Interrupted = {1}
  Outcomes = {"ok"}
  EarlyCancel = TRUE
SPECIFICATION Spec
INVARIANTS
  CancelVisible
CHECK_DEADLOCK FALSE
