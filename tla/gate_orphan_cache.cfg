SPECIFICATION Spec
CONSTANTS
  Sessions = {"s1"}
  Calls = {c1}
  Nameless = {}
  Confirms = {}
  SessionOf <- OneSession
  Commands = {ls}
  Blank = ""
  NormalForm <- Distinct
  Views = {"v1"}
  Uninspected = {}
  Objs = {o1, o2}
  NoObj = NoObj
  Strict = FALSE
  FailPolicy = "fail_ask"
  HasReviewer = TRUE
  SessionTTL = 1
  PendingTTL = 1
  CacheTTL = 1
  MaxSessions = 1
  MaxCache = 1
  MaxTime = 0
SYMMETRY Interchangeable
INVARIANTS
  CacheOfLiveSessions
