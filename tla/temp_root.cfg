SPECIFICATION Spec
CONSTANTS
  Length = 2
  Depth = 2
  MaxLinks = 4
CHECK_DEADLOCK FALSE
INVARIANTS
  StrictlyInRoot
