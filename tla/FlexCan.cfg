SPECIFICATION CanSpec
CONSTANTS
  Mailboxes = {0, 8}
  Frames <- MCFrames
  Written <- MCWritten
  CtrlSet <- MCCtrlSet
  McrSet <- MCMcrSet
  CodeSet <- MCCodeSet
  MaskedOut = {}
  GlobalMask = TRUE
  FifoTable <- MCFifoTable
  RxFIFO_MAX_LEN = 3
INVARIANTS
  FifoAnnounced
  ReceiversListen
PROPERTIES
  FifoInOrder
  FullIsKept
CHECK_DEADLOCK FALSE
