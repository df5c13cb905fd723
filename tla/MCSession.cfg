SPECIFICATION Spec
CONSTANTS
  Names = {"x"}
  Packages = {"p"}
  Blocks <- SmallBlocks
  MaxRuns = 2
  MaxWrites = 1
  CodeStreams = {"out"}
  Lingerers = {1}
  MaxSignals = 1
INVARIANTS
  Inv
  SessionBacked
  ReplyComplete
  ContextsApart
  LeftoversExplained
PROPERTIES
  LoadedOnce
  InterruptReaches
  HandlerReturns
  TerminationEnds
CHECK_DEADLOCK FALSE
