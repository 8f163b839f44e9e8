SPECIFICATION Spec
CONSTANTS
  m1 = m1
  h1 = h1
  Mains = {m1}
  MaxLocal = 0
  Handles = {h1}
  NoTarget = NoTarget
  CacheLimit = 2
  Programs <- Sharing
CHECK_DEADLOCK FALSE
INVARIANTS
  OwnedStaysJoinable
