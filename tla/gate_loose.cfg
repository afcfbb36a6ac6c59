SPECIFICATION FairSpec
CONSTANTS
  Sessions = {"s1"}
  Calls = {"c1", "c2"}
  Nameless = {}
  Confirms = {}
  SessionOf <- OneSession
  Commands = {"logs web", "logs db", "ls"}
  Blank = ""
  NormalForm <- DockerLogs
  Views = {"v1", "v2", "big"}
  Uninspected = {"big"}
  Objs = {"o1", "o2"}
  NoObj = NoObj
  Strict = FALSE
  FailPolicy = "fail_close"
  HasReviewer = TRUE
  SessionTTL = 2
  PendingTTL = 1
  CacheTTL = 1
  MaxSessions = 1
  MaxCache = 1
  MaxTime = 1
PROPERTIES
  CallSettles
  CacheHonest
