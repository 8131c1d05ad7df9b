SPECIFICATION Spec
CONSTANTS
  c1 = c1
  c2 = c2
  Clients <- MCClients
  MaxUp <- MCMaxUp
  MaxDown = 1
  Buffer = 1
INVARIANTS
  OnlyShutdownEnds
CHECK_DEADLOCK FALSE
