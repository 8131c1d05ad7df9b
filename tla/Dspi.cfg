SPECIFICATION Spec
CONSTANTS
  Frames <- MCFrames
  McrSet <- MCMcrSet
  RserSet <- MCRserSet
  SrSet <- MCSrSet
  TxSize = 2
  RxSize = 3
INVARIANTS
  EnabledAreTold
  FillIsKnown
PROPERTIES
  TxInOrder
  RxInOrder
