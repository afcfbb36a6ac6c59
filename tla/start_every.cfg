SPECIFICATION Spec
CONSTANTS
  Tokens = {"word", "> f", "< f", "&&", ";", "|", "newline", "&", "|&", "&> f", "quote"}
  MaxLen = 4
CHECK_DEADLOCK FALSE
INVARIANTS
  EveryMeaningKept
  EveryStartIsDetached
