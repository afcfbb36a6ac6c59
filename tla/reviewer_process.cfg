SPECIFICATION FairSpec
CONSTANTS
  Interpreters = 2
  Configured = FALSE
  HasSignal = TRUE
  Answers = {"ALLOW", "DENY"}
  MaxStdout = 2
CHECK_DEADLOCK FALSE
INVARIANTS
  AnswerIsWhole
  NothingLeftRunning
  TriedInTurn
PROPERTIES
  ReviewSettles
