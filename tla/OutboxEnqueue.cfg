\* The daily limit with four requests, a midnight and a failure anywhere, and two
\* connections, which the requests that wait for c1 can both hold.
\* Stops when every request is answered.
SPECIFICATION FairSpec
INVARIANTS DailyLimit
CONSTANTS
  c1 = c1
  c2 = c2
  r1 = r1
  r2 = r2
  r3 = r3
  r4 = r4
  Client   = {c1, c2}
  Request  = {r1, r2, r3, r4}
  ClientOf <- MCClientOf
  Size     <- MCSize
  MaxDaily = 2
  Pool = 2
  LastDay  = 1
  MaxFaults = 1
CHECK_DEADLOCK FALSE
PROPERTIES EveryRequestAnswered
