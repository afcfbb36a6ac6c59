SPECIFICATION Spec
CONSTANTS
  Shells = {"bash", "SUPERVISOR"}
  Supervisor = "supervisor"
  Aliases = {"SUPERVISOR"}
  ShellOptions = {"bash", "supervisor", "", "none"}
  Calls = {1}
CHECK_DEADLOCK FALSE
INVARIANT
  RealBashIsAShell
