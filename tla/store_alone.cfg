SPECIFICATION StoreSpec
CONSTANTS
  Sessions = {s1, s2, s3}
  Calls = {c1}
  Commands = {"ls"}
  Views = {v1, v2}
  Objs = {o1, o2, o3}
  NoObj = NoObj
  SessionTTL = 2
  CacheTTL = 1
  MaxSessions = 2
  MaxCache = 2
  MaxTime = 2
  MaxVersion = 1
SYMMETRY Interchangeable
PROPERTIES
  RoomIsMade
  WorkIsKept
  DropForgets
VIEW Seen
