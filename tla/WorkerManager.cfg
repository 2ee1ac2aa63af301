\* Two configurations, one update of a row in progress at a time, reloads that
\* may fail, and a shutdown at any time; every change can cost one more worker
\* instance.
SPECIFICATION FairSpec
CONSTANTS
  a = a
  c1 = c1
  c2 = c2
  x = x
  Config = {c1, c2}
  None = None
  Routing = {a, b}
  Extra = {x}
  OldTable <- MCOldTable
  Caller = {p}
  MaxWorkers = 3
  MaxEdits = 2
CHECK_DEADLOCK FALSE
INVARIANTS OneCyclePerConfig MatchesLastReload
PROPERTIES RoutingTakesEffect ShutdownCompletes
