SPECIFICATION FairSpec
CONSTANTS
  t1 = t1
  t2 = t2
  s1 = s1
  i1 = i1
  i2 = i2
  NoThread = NoThread
  NoIdentity = NoIdentity
  NoStream = NoStream
  Threads = {t1, t2}
  Streams = {s1}
  Identities = {i1, i2}
  MaxDepth = 1
  ReusedEarly = FALSE
  Renames = FALSE
INVARIANTS
  HostBytesAreTracked
PROPERTIES
  SetvbufIsFinal
  FreeFileLockIsTaken
