SPECIFICATION Spec
CONSTANTS
  m = m
  t1 = t1
  Threads = {m, t1}
  Main = m
  InitArray <- Slots
  FiniArray <- Slots
  ATEXIT_MAX_HANDLERS = 2
  MaxRegistrations = 3
  MaxFrames = 4
INVARIANTS
  HandlersAreAccounted
PROPERTIES
  TerminationIsOrderly
