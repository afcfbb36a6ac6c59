SPECIFICATION FairSpec
CONSTANTS
  Files = {"a.sh", "b.sh"}
  Dirs = {"out"}
  Scripts = {"a.sh", "b.sh"}
  Targets = {"out"}
  Strict = TRUE
  MaxRounds = 2
  MaxToolCalls = 3
  MaxReadBytes = 2
  MaxReadBudget = 3
  MaxListEntries = 1
  MaxCalls = 2
  MaxSize = 3
  Changes = 1
CHECK_DEADLOCK FALSE
INVARIANTS
  InspectedBeforeAllow
  BudgetsKept
PROPERTIES
  ReviewEnds
