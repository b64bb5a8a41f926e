SPECIFICATION FairSpec
CONSTANTS
  MaxFrames = 4
  MayGiveUp = FALSE
  MayStep = FALSE
INVARIANT TypeOK
INVARIANT SlotRolesDisjoint
INVARIANT ClaimCoversSnapshot
INVARIANT WholePicture
PROPERTY ImplementsMailbox
CHECK_DEADLOCK FALSE
