SPECIFICATION Spec
CONSTANTS
  Programs <- DmrsLsProgram
  Exceptions = {}
INVARIANT TilesNotOverwritten
CHECK_DEADLOCK FALSE
