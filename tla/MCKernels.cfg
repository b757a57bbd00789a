SPECIFICATION Spec
CONSTANTS
  Programs <- MCPrograms
  Exceptions <- MCExceptions
INVARIANTS
  OperandsArrive
  TilesNotOverwritten
  ScalarReadsArrive
  FlagsConsumed
  TextIsDisciplined
PROPERTY KernelEnds
CHECK_DEADLOCK FALSE
