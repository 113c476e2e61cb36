CONSTANTS
  Keys = {k1, k2}
  NoKey = NoKey
  MaxCalls = 4
  Delay = 2
SPECIFICATION FairSpec
INVARIANT Inv
PROPERTIES
  AtMostOnce
  TakenIsolated
  EarlyOnlyAfterRace
  Served
  Implements
CHECK_DEADLOCK FALSE
