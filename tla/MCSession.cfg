SPECIFICATION FairSpec
CONSTANTS
  QueueBound = 2
  Numbers = 5
INVARIANT TypeOK
INVARIANT SystemUsedExclusively
INVARIANT NoFreedMemory
INVARIANT EventsInOrder
PROPERTY GuiComesBack
