SPECIFICATION Spec
CONSTANTS
  u1 = u1
  u2 = u2
  s1 = s1
  p1 = p1
  p2 = p2
  Users <- MCUsers
  Root = u1
  Sessions <- MCSessions
  Procs <- MCProcs
  None = None
  Threshold = 2
  MaxRequests = 4
  MaxRestarts = 1
SYMMETRY Symmetry
CHECK_DEADLOCK FALSE
INVARIANT
  RevokedIsOut
  GuessesBounded
  AdminLostOnly
PROPERTY
  ExpiredIsOut
