SPECIFICATION Spec
CONSTANTS
  Policy = "HARD"
  FailPolicy = "fail_close"
  Commands = {"plain", ""}
  Utf8Child = FALSE
INVARIANTS
  CheckersAgree
  VerdictStands
PROPERTIES
  ContextHeals
