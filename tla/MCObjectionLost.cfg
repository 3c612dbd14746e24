SPECIFICATION Spec
CONSTANTS
  RowLists <- MCRowLists
  MaxSources = 2
  Degraded = FALSE
  None = None
INVARIANT NoObjectionIsLost
CHECK_DEADLOCK FALSE
