CONSTANTS
  NumSlots = 23
  GrantSlots = {0}
  Jobs <- MCJobs
SPECIFICATION RunSpec
INVARIANTS
  CopiesDoNotRace
  OwnSlotOnly
  StartsFromZero
  PilotsAgree
  ReceiptVouches
  LoaderTakesWhatCompiled
  RegisteredIsExecutable
  NothingRefusedLate
  GeneratedRadiosLoad
CHECK_DEADLOCK FALSE
