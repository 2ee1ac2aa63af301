\* One process, two workers, and a database that may hold an update that has no
\* timeout for longer than the lease; MaxTries leaves room for every lost claim.
SPECIFICATION FairSpec
CONSTANTS
  Row = {r1}
  NoRow = NoRow
  Worker = {w1, w2}
  Process = {p1}
  Host <- OneProcess
  Eligible <- ServeAll
  Stamp = {1}
  Lease = 1
  AttemptLimit = 1
  DatabaseStalls = TRUE
  MaxTries = 6
  MaxCancels = 1
  MaxFaults = 1
INVARIANTS OneSendPerClaim
PROPERTIES EveryRowSettles
