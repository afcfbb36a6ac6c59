SPECIFICATION Spec
CONSTANTS
  Texts = {"plain", "pyblank", "nul"}
  MaxGiven = 2
CHECK_DEADLOCK FALSE
INVARIANT
  AvailableIsUsable
