SPECIFICATION ImageSpec
CONSTANTS
  Creators = {c1}
  SealSteps = 1
  MaxImages = 1
CHECK_DEADLOCK FALSE
INVARIANTS ReadyHasVM
