SPECIFICATION Spec
CONSTANTS
  Commands = {"cd ..", "rm -r out"}
  Connectors = {"&&"}
  MaxLen = 2
  Strictness = "LOOSE"
CHECK_DEADLOCK FALSE
INVARIANTS
  CleanupWhereItResolves
