CONSTANTS
  NumSlots = 2
  GrantSlots = {0, 5}
SPECIFICATION Spec
INVARIANT PilotsAgree
CHECK_DEADLOCK FALSE
