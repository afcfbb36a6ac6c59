SPECIFICATION Spec
CONSTANTS
  Commands = {"cd ..", "sh s"}
  Connectors = {"&&"}
  MaxLen = 2
  Strictness = "LOOSE"
CHECK_DEADLOCK FALSE
INVARIANTS
  InspectedScriptRuns
