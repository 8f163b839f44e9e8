SPECIFICATION ClientsSpec
CONSTANTS
  t1 = t1
  t2 = t2
  t3 = t3
  Threads = {t1, t2, t3}
  NoThread = NoThread
  s1 = s1
  States = {s1}
  NoState = NoState
  MaxCount = 3
PROPERTIES
  WritersAreNotStarved
