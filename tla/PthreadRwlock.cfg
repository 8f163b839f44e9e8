SPECIFICATION Spec
CONSTANTS
  t1 = t1
  t2 = t2
  t3 = t3
  Threads = {t1, t2, t3}
  NoThread = NoThread
  s1 = s1
  s2 = s2
  States = {s1, s2}
  NoState = NoState
  MaxCount = 2
SYMMETRY RwSymmetry
INVARIANTS
  RwStateIsSound
  RwWaitersAreServed
PROPERTIES
  ImplementsAbstractRwlock
