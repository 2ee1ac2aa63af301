SPECIFICATION Spec
CONSTANTS
  None = None
  Instances = {i1}
  Clients = {c1, c2}
  Attempts = {a1, a2}
  Callers = {p1, p2}
  MaxDrops = 1
  MaxFaults = 1
  MaxCrashes = 1
  MaxCalls = 3
SYMMETRY Interchangeable
INVARIANTS
  OnlineIsServed
  LogoutIsFinal
  SlotMatchesAttempt
CHECK_DEADLOCK FALSE
