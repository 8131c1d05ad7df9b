SPECIFICATION Spec
CONSTANTS
  NumChannels = 3
  GroupSize = 2
  HwChannels = {0}
  SwChannels = {1}
  FlagChannels = {0}
  Tcds <- MCTcds
  McrSet <- MCMcrSet
  ChpriSet <- MCChpriSet
INVARIANTS
  Scheduled
  NoRequestForgotten
  BoundedBypass
