CONSTANTS
  u1 = u1
  b1 = b1
  Ghosts = {u1, b1}
  Bots = {b1}
  Nobody = Nobody
  QueueCap = 1
  EventCap = 2
  Short = 1
  Long = 2
  MaxTasks = 2
  MaxSpent = 3
SPECIFICATION FairSpec
CHECK_DEADLOCK FALSE
INVARIANTS
  Inv
  StampTellsTruth
PROPERTIES
  BadIsFinal
  RevokedIsReported
  Closes
  Released
  Collected
