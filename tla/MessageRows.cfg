CONSTANTS
  MaxTime = 3
  Count = 2
  None = None
  MaxSpent = 4
SPECIFICATION Spec
CHECK_DEADLOCK FALSE
INVARIANTS
  Inv
  Converges
  NoGap
  MarkReadIsTrue
PROPERTY
  RowsKeepFacts
