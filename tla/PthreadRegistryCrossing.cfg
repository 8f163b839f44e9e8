SPECIFICATION Spec
CONSTANTS
  m1 = m1
  m2 = m2
  h1 = h1
  Mains = {m1, m2}
  MaxLocal = 2
  Handles = {h1}
  NoTarget = NoTarget
  CacheLimit = 1
  Programs <- SharingOrSerial
SYMMETRY MainSymmetry
CHECK_DEADLOCK FALSE
INVARIANTS
  RegistryIsSound
  RepliesAreTruthful
  DisciplinedStaysJoinable
