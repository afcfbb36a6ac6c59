SPECIFICATION Spec
CONSTANTS
  Stems = {"a"}
  Critical = {}
  Levels = 1
  Kinds = {"directory"}
  UnknownIn = {}
  MaxSegments = 2
  MaxCommands = 2
CHECK_DEADLOCK FALSE
PROPERTIES
  StandaloneOnly
  BackupIsOld
