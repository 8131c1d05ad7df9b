SPECIFICATION SwtFairSpec
CONSTANTS
  KeyRange = 4
  FixedKeys <- MCFixedKeys
  UnlockKeys <- MCUnlockKeys
  MinTimeout = 2
  DefaultTo = 3
  McrSet <- MCMcrSet
  ToSet = {0, 3}
  WnSet = {2}
  SkSet = {1}
INVARIANTS
  WatchdogNeverDies
  NextKeyFollows
PROPERTIES
  HardLockHolds
  QuietDogBites
