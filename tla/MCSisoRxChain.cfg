CONSTANTS
  Cells = {c1, c2}
  Timings = {0}
  SlotsPerTb = 2
  MaxTb = 2
  TimedM = 1
  TimedK = 1
SPECIFICATION Spec
INVARIANTS CopiesDoNotRace BlockUnderOneCell FeedbackFromPreviousSlot
CHECK_DEADLOCK FALSE
