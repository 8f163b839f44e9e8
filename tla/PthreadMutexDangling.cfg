SPECIFICATION Spec
CONSTANTS
  t1 = t1
  t2 = t2
  t3 = t3
  Threads = {t1, t2, t3}
  NoThread = NoThread
  Types = {"NORMAL", "RECURSIVE", "ERRORCHECK"}
  MaxDepth = 3
SYMMETRY ThreadSymmetry
INVARIANT NoDanglingReference
