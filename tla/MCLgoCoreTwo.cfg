CONSTANTS
  g1 = g1
  g2 = g2
  NumExecs = 2
  Subs <- OneSub
  UintMax = 255
  Interrupted = {1}
  Outcomes = {"ok", "fail"}
  EarlyCancel = FALSE
SPECIFICATION Spec
INVARIANTS
  CountersExact
  ReturnJustified
  CleanReport
  BailoutJustified
  CancelVisible
  CancelCaused
PROPERTIES
  ImplementsPromise
CHECK_DEADLOCK FALSE
