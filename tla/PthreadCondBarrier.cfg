SPECIFICATION BarrierSpec
CONSTANTS
  t1 = t1
  t2 = t2
  t3 = t3
  Threads = {t1, t2, t3}
  NoThread = NoThread
  Types = {"NORMAL", "ERRORCHECK", "RECURSIVE"}
  MaxDepth = 1
  Rounds = 1
PROPERTIES
  WaitsEnd
