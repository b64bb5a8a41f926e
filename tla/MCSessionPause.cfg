SPECIFICATION Spec
CONSTANTS
  QueueBound = 1
  Numbers = 3
INVARIANT PauseIsKept
