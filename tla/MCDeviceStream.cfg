CONSTANTS
  Buffers <- MCBuffers
  Programs <- MCPrograms
  MaxLength = 4
  Cases = 2
  Warmups = 2
  TimedRuns = 2
  PerSync = 2
SPECIFICATION Spec
INVARIANTS
  TypeOK
  CopiesKeepClear
  ProgramOrder
  StateIsFresh
  InputsArePresent
  ResultsAreComputed
CHECK_DEADLOCK FALSE
