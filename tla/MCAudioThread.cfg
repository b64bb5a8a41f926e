SPECIFICATION FairSpec
CONSTANTS
  Cap = 3
  Word = 3
  Div = 2
  ResetsCycles = TRUE
  MaxCycle = 3
  MaxWrites = 5
  MaxResets = 1
INVARIANTS TypeOK HeardOnTime ResetWhileQuiescent SynthesisWithinEmulatedTime
PROPERTIES LossNeedsLagOrBurst SignalIsHeard StopReturns
CHECK_DEADLOCK FALSE
