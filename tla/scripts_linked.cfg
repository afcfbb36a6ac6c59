SPECIFICATION Spec
CONSTANTS
  Names = {"p"}
  Through = {"p"}
  Protected = {}
  Others = {"t", "x"}
  Outside = {}
  Dirs = {}
  Initial = {"calm", "edited"}
  MaxScripts = 1
  MaxBytes = 2
  MaxChars = 2
  MaxTargets = 1
  Changes = 1
CHECK_DEADLOCK FALSE
INVARIANTS
  SwapWindowClosed
