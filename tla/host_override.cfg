SPECIFICATION Spec
CONSTANTS
  Shells = {"bash", "zsh"}
  Supervisor = "supervisor"
  Aliases = {}
  ShellOptions = {"bash", "supervisor", "", "none"}
  Calls = {1}
CHECK_DEADLOCK FALSE
INVARIANT
  RealShellOverride
