CONSTANTS
  NumSlots = 3
  Profile = TRUE
  WithReceipt = TRUE
SPECIFICATION Spec
INVARIANTS TypeOK SlotProvenance StagingStable PassMeansComplete
PROPERTY Terminates
CHECK_DEADLOCK FALSE
