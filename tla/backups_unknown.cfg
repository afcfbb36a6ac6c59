SPECIFICATION Spec
CONSTANTS
  Stems = {"a", "key"}
  Critical = {"key"}
  Levels = 2
  Kinds = {"file", "directory"}
  UnknownIn = {"LOOSE"}
  MaxSegments = 1
  MaxCommands = 1
CHECK_DEADLOCK FALSE
INVARIANTS
  BackupsComeByRule
