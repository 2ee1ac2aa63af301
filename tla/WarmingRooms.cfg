\* Two replicas that may rewind each other and lose a write, and users who start,
\* stop and restart the room; three lines, so that a reading can be two lines old.
SPECIFICATION FairSpec
INVARIANTS NoLineSkipped RepeatsExplained
PROPERTIES FinishedIsComplete ScriptsEnd
CONSTANTS
  Room = {r1}
  Replica = {p1, p2}
  NoReplica = NoReplica
  Line = {1, 2, 4}
  Limit = 1
  MaxFaults = 1
  MaxRequests = 3
CHECK_DEADLOCK FALSE
