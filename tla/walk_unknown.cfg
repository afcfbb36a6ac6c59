SPECIFICATION Spec
CONSTANTS
  Commands = {"cd $X", "rm -rf out"}
  Connectors = {"&&"}
  MaxLen = 2
  Strictness = "HARD"
CHECK_DEADLOCK FALSE
INVARIANTS
  CleanupInWorktree
