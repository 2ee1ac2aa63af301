\* Buffers of one, two events and an incoming message: a client can fall behind
\* while the other keeps up.
SPECIFICATION FairSpec
INVARIANTS OpenWhileRegistered CompleteInOrder
PROPERTIES EventsDispatched GoneIsForgotten
CONSTANTS
  c1 = c1
  c2 = c2
  i1 = i1
  Client = {c1, c2}
  Instance = {i1}
  NoInstance = NoInstance
  ListensTo <- MCListensTo
  Sees <- MCSees
  Broadcaster = {b1}
  Buffer = 1
  Backlog = 1
  MaxEvents = 2
  MaxMessages = 1
CHECK_DEADLOCK FALSE
