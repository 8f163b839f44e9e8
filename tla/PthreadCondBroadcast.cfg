SPECIFICATION BarrierSpec
CONSTANTS
  t1 = t1
  t2 = t2
  Threads = {t1, t2}
  NoThread = NoThread
  Types = {"NORMAL"}
  MaxDepth = 1
  Rounds = 2
PROPERTIES
  BroadcastWakesAll
