SPECIFICATION FairSpec
CONSTANTS
  extHi = extHi
  extLo = extLo
  dec = dec
  wdt = wdt
  rst = rst
  dbg = dbg
  None = None
  Exc = {extHi, extLo, dec, wdt, rst, dbg}
  Kind <- MCKind
  Prio <- MCPrio
  Psr <- MCPsr
  PriSet = {3}
  MsrSet <- MCMsrSet
  MaxLoad = 3
INVARIANTS
  HasInterruptExact
  StackDiscipline
  NothingLost
  AcknowledgesActive
PROPERTIES
  MostUrgentFirst
  DrainsWhenQuiet
CHECK_DEADLOCK FALSE
