SPECIFICATION Spec
CONSTANTS
  Commands = {"cd ..", "touch f"}
  Connectors = {"&&", "||"}
  MaxLen = 3
  Strictness = "LOOSE"
CHECK_DEADLOCK FALSE
INVARIANTS
  PropagatedIsWhereItRuns
