\* Two replicated worker processes with one worker each; the database answers
\* within the time the code's own timeouts allow.
SPECIFICATION Spec
CONSTANTS
  Row = {r1, r2}
  NoRow = NoRow
  Worker = {w1, w2}
  Process = {w1, w2}
  Host <- OwnProcess
  Eligible <- ServeAll
  Stamp = {1, 2}
  Lease = 2
  AttemptLimit = 2
  DatabaseStalls = FALSE
  MaxTries = 2
  MaxCancels = 1
  MaxFaults = 1
SYMMETRY Symmetric
INVARIANTS ExclusiveClaim DuplicateOnlyInDoubt
PROPERTIES ReapsOnlyAbandoned ImplementsContract
