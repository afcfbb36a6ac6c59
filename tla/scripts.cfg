SPECIFICATION UnionSpec
CONSTANTS
  Names = {"a", "p"}
  Through = {"p"}
  Protected = {}
  Others = {"t", "x"}
  Outside = {"x"}
  Dirs = {"d"}
  Initial = {"calm"}
  MaxScripts = 2
  MaxBytes = 2
  MaxChars = 2
  MaxTargets = 1
  Changes = 2
  Commands = {"cd w", "cd ..", "cd /", "cd $X", "(cd w)", "rm -r out", "rm -rf out", "touch f", "sh s", "npm i", "ask", "deny"}
  Connectors = {"&&", "||", ";", "|", "&"}
  MaxLen = 3
  Strictness = "LOOSE"
  Stems = {"a", "key"}
  Critical = {"key"}
  Levels = 2
  Kinds = {"file", "directory"}
  UnknownIn = {}
  MaxSegments = 1
  MaxCommands = 2
  Length = 2
  Depth = 2
  MaxLinks = 4
CHECK_DEADLOCK FALSE
INVARIANTS
  RunsWhatWasRead
  QuietDiskPasses
  CandidatesAccounted
  BaseIsWhereItRuns
  AllowedStaysInside
  ListedIsWhatIsDeleted
  BackupsComeByRule
  AllowedStaysInTemp
PROPERTIES
  DeletionLeavesTheFile
