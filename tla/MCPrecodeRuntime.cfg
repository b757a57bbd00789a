CONSTANTS
  Configs = {c1, c2, c3, c4}
  NoConfig = NoConfig
  Capacity = 3
  MaxClock = 6
  MaxQueued = 2
  RetryAfterError = FALSE
SPECIFICATION Spec
INVARIANTS TypeOK KernelUsesItsPlan CachedPlanIsWhole OneResourcePerConfig
PROPERTY ImplementsLaunchFifo
CHECK_DEADLOCK FALSE
