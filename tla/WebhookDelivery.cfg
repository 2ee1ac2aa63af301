SPECIFICATION FairSpec
CONSTANTS
  m1 = m1
  m2 = m2
  w1 = w1
  w2 = w2
  u1 = u1
  s1 = s1
  Messages <- MCMessages
  Handlers = 1
  Writers <- MCWriters
  Urls <- MCUrls
  Refused <- MCRefused
  Secrets <- MCSecrets
  None = None
  Attempts = 2
CHECK_DEADLOCK FALSE
INVARIANT
  UsesAnswered
PROPERTY
  SecretKept
  DeletedIsForgotten
