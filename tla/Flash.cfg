SPECIFICATION FlashSpec
CONSTANTS
  Map <- MCMap
  MainSize = 5
  Vals = {0, 1}
  Erased = 0
  Image <- MCImage
  ShadowLocks <- MCShadowLocks
  LockWrites <- MCLockWrites
  Selections <- MCSelections
  Operations <- MCOperations
  Writes <- MCWrites
  DebugWrites <- MCDebugWrites
PROPERTIES
  LockedNeverChange
  ProgramLands
  FlashIsKept
