SPECIFICATION Spec
CONSTANTS
  Names = {"a", "b"}
  Through = {}
  Protected = {}
  Others = {"t", "x"}
  Outside = {"x"}
  Dirs = {}
  Initial = {"calm"}
  MaxScripts = 1
  MaxBytes = 2
  MaxChars = 2
  MaxTargets = 1
  Changes = 0
CHECK_DEADLOCK FALSE
INVARIANTS
  AllowedScriptsWereRead
