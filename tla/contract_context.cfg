SPECIFICATION Spec
CONSTANTS
  Policy = "HARD"
  FailPolicy = "fail_close"
  Commands = {"plain"}
  Utf8Child = TRUE
INVARIANTS
  ContextReachesModel
