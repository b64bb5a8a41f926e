SPECIFICATION Spec
CONSTANTS
  MaxFrames = 3
  MayGiveUp = TRUE
  MayStep = TRUE
INVARIANT NoStrandedFrame
CHECK_DEADLOCK FALSE
