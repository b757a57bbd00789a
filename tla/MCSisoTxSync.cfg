CONSTANTS
  SlotsPerTb = 23
  TimedM = 2
  TimedK = 2
SPECIFICATION Spec
INVARIANT SynchronizedBeforeMerge
CHECK_DEADLOCK FALSE
