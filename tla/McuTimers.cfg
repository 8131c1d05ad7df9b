SPECIFICATION FairSpec
CONSTANT TcrSet <- MCTcrSet
INVARIANTS
  WatchdogArmed
  TwoStrikes
PROPERTIES
  DogBites
  DecResumes
