SPECIFICATION Spec
CONSTANTS
  s1 = s1
  s2 = s2
  w = w
  i = i
  ra = ra
  rb = rb
  m = m
  Server <- MCServer
  Worker = w
  Region = {"TR", "ID"}
  Env <- MCEnv
  Number <- MCNumber
  Plus = {"plus"}
  Digits = {"local", "lid", "tr", "id", "hk"}
  Canonical = {"tr", "id", "hk"}
  Parse <- MCParse
  Abroad <- MCAbroad
  Row <- MCRow
  TableOf <- MCTableOf
  Old <- MCOld
  OldNumber <- MCOldNumber
  OldLive <- MCOldLive
  OldStored = {"unset", "ID"}
  Template = {t1, t2}
  OwnOutbox = TRUE
  MaxEvents = 1
  MaxUpdates = 1
CHECK_DEADLOCK FALSE
INVARIANTS CleanStartIsComplete Restorable RewrittenUnlessExplained
PROPERTIES WritersWin WorkerFollows
