SPECIFICATION Spec
CONSTANTS
  PortCap = 2
  Word = 6
  RingCap = 3
  Requested = 1
  MaxBatch = 2
  CallbackLen = 2
  Machines <- MCMachines
  MaxSamples = 7
  MaxWarpBatch = 4
  MaxLag = 2
INVARIANT TypeOK
PROPERTIES HeardInOrder OverrunIsExplained
CHECK_DEADLOCK FALSE
