\* A client falls behind while a message for it is being broadcast.
SPECIFICATION Spec
PROPERTY NoRaceWithRun
CONSTANTS
  c1 = c1
  c2 = c2
  i1 = i1
  Client = {c1, c2}
  Instance = {i1}
  NoInstance = NoInstance
  ListensTo <- MCListensTo
  Sees <- MCSees
  Broadcaster = {b1}
  Buffer = 1
  Backlog = 1
  MaxEvents = 2
  MaxMessages = 1
CHECK_DEADLOCK FALSE
