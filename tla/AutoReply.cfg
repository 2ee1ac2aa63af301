SPECIFICATION Spec
CONSTANTS
  r1 = r1
  r2 = r2
  i1 = i1
  i2 = i2
  l1 = l1
  l2 = l2
  human = human
  other = other
  m1 = m1
  m2 = m2
  m3 = m3
  q1 = q1
  q2 = q2
  Room <- MCRoom
  Instance <- MCInstance
  LineId <- MCLineId
  Number <- MCNumber
  Human = human
  None = None
  Message <- MCMessage
  Request <- MCRequest
  MaxInputs = 3
  MaxSeq = 3
  MaxFaults = 1
SYMMETRY Symmetry
CHECK_DEADLOCK FALSE
INVARIANT
  OncePerCooldown
  NoLineLost
  RepeatsExplained
  CooldownForgotten
