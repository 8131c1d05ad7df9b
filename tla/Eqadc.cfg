SPECIFICATION Spec
CONSTANTS
  Channels = {0}
  Values = {0, 1}
  Commands <- MCCommands
  Configures <- MCConfigures
  Clears <- MCClears
  EntrySize = 2
  Cfifo0Len = 4
  FifoLen = 2
  DmaEnables <- MCDmaEnables
INVARIANTS
  ResultsInOrder
  CommandsWait
  ResultsAnnounced
  StatusFollowsMode
CHECK_DEADLOCK FALSE
