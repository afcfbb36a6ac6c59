SPECIFICATION Spec
CONSTANTS
  Sessions = {"s1"}
  Calls = {c1, c2, c3}
  Nameless = {}
  Confirms = {f1}
  SessionOf <- OneSession
  Commands = {ls, rm}
  Blank = ""
  NormalForm <- Distinct
  Views = {"v1"}
  Uninspected = {}
  Objs = {o1, o2}
  NoObj = NoObj
  Strict = TRUE
  FailPolicy = "fail_ask"
  HasReviewer = FALSE
  SessionTTL = 2
  PendingTTL = 1
  CacheTTL = 1
  MaxSessions = 1
  MaxCache = 1
  MaxTime = 2
SYMMETRY Interchangeable
PROPERTIES
  ImplementsLedger
