SPECIFICATION CondSpec
CONSTANTS
  t1 = t1
  t2 = t2
  t3 = t3
  Threads = {t1, t2, t3}
  NoThread = NoThread
  Types = {"NORMAL", "RECURSIVE"}
  MaxDepth = 2
SYMMETRY ThreadSymmetry
INVARIANTS
  CondStateIsSound
  WakeupsReachWaiters
PROPERTIES
  WaitRestoresDepth
