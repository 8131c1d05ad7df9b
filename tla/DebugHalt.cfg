SPECIFICATION FairSpec
CONSTANTS
  Addr = {b1, b2}
  Elsewhere = Elsewhere
INVARIANTS
  FlagTrusted
  BreakpointsRestored
PROPERTIES
  HaltServed
CHECK_DEADLOCK FALSE
