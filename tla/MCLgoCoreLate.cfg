CONSTANTS
  g1 = g1
  g2 = g2
  NumExecs = 2
  Subs <- OneSub
  UintMax = 255
  Interrupted = {1}
  Outcomes = {"ok"}
  EarlyCancel = FALSE
SPECIFICATION Spec
INVARIANTS
  LateCallsSurvive
CHECK_DEADLOCK FALSE
