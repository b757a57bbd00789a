CONSTANTS
  Cells = {c1}
  Timings = {0}
  SlotsPerTb = 23
  MaxTb = 1
  TimedM = 20
  TimedK = 8
SPECIFICATION Spec
INVARIANT SafeWindow
CHECK_DEADLOCK FALSE
