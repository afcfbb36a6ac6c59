\* Output is lost behind OpenCode's back: no part of the run but the supervisor.
SPECIFICATION UnionFairSpec
CONSTANTS
  Capacity = 1
  Output = 2
  Background = TRUE
  Forced = TRUE
  Shells = {"bash", "zsh"}
  SupervisorShell = "supervisor"
  Aliases = {}
  ShellOptions = {"none"}
  Calls = {1}
  Texts = {"plain"}
  MaxGiven = 0
  Tokens = {"word"}
  MaxLen = 1
CHECK_DEADLOCK FALSE
INVARIANTS
  CompleteMeansAll
