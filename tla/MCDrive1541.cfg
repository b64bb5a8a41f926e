SPECIFICATION Spec
CONSTANTS
  Byte = 2
  SyncBits = 2
  ByteBits = 2
  RefTicks = 5
  FirstHalf = 2
  LastHalf = 4
  Track <- MCTrack
  Programs <- MCPrograms
  Cooldown = 2
  HostWord = 4
  MaxAge = 5
INVARIANTS TypeOK AtnAnsweredAtOnce T2FiresOnce BytesFramed WarpFollowsMotor
PROPERTY InterruptUntilAcknowledged
