SPECIFICATION Spec
CONSTANTS
  Byte = 2
  SyncBits = 2
  ByteBits = 2
  RefTicks = 5
  FirstHalf = 2
  LastHalf = 4
  Track <- MCTrack
  Programs <- MCPrograms
  Cooldown = 1
  HostWord = 3
  MaxAge = 5
INVARIANT T1LowByteWritten
