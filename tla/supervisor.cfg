SPECIFICATION UnionFairSpec
CONSTANTS
  Capacity = 2
  Output = 3
  Background = TRUE
  Forced = TRUE
  Shells = {"bash", "zsh"}
  SupervisorShell = "supervisor"
  Aliases = {}
  ShellOptions = {"bash", "supervisor", "", "none"}
  Calls = {1}
  Texts = {"plain", "blank", "jsblank"}
  MaxGiven = 3
  Tokens = {"word", "> f", "< f", "&&", ";", "|", "newline", "&", "|&", "&> f", "quote"}
  MaxLen = 5
CHECK_DEADLOCK FALSE
INVARIANTS
  HandlesAreClosedOnce
  NothingStray
  OutcomeIsDelivered
  RealBashIsAShell
  RunsAsClassified
  StartHoldsNoPipe
  ConfigIsKept
  MeaningKept
PROPERTIES
  SupervisorEnds
