SPECIFICATION Spec
CONSTANTS
  Timer = {t1, t2, t3}
  None = None
  Duration = {0, 2}
  MaxTicks = 4
  MaxTarget = 5
SYMMETRY Symmetry
INVARIANTS
  TimersSorted
  NeverStarved
CHECK_DEADLOCK FALSE
