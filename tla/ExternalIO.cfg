SPECIFICATION Spec
CONSTANTS
  c1 = c1
  c2 = c2
  Clients <- MCClients
  MaxUp <- MCMaxUp
  MaxDown = 2
  Buffer = 1
INVARIANTS
  UpInOrder
  DownWithoutGap
PROPERTIES
  Delivered
CHECK_DEADLOCK FALSE
