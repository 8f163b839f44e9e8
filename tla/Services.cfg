SPECIFICATION ServicesSpec
CONSTANTS
  Subjects = {"allocator", "loader", "signals", "calls", "attributes", "locale"}
  WordSize = 256
  PAGE_SIZE = 32
  HEADER_SIZE = 7
  RECORD_SIZE = 8
  MALLOC_ALIGNMENT = 2
  POINTER_SIZE = 1
  HeapThreads = {t1, t2}
  Bases = {32, 64}
  Requests = {4, 20, 120}
  Alignments = {3, 16}
  Unknown = 5
  LoaderThreads = {t1, t2}
  Libraries = {"lib"}
  HostMain = "host main"
  Forged = "forged"
  MaxOpens = 2
  SignalThreads = {t1, t2}
  SIGSET_WORDS = 2
  BITS_PER_WORD = 3
  MAX_KERNEL_SIGNAL = 3
  SIGKILL = 2
  SIGSTOP = 2
  Handlers = {"h"}
  OwnRestorer = "own"
  BadNumbers = {0, 4}
  MaxHandlerDepth = 2
  MaxSignalCalls = 4
  CallThreads = {t1, t2}
  MAX_ERRNO = 3
  SIGN_BIT = 8
  KernelErrors = {1, 2, 3}
  KernelValues = {0, 1, 5}
  KernelIds = {0, 7, 8, 15}
  EFAULT_NUMBER = 2
  Environments <- MCEnvironments
  AttrMutexes = {m1, m2}
  AttrConds = {c1}
  MutexTypes = {"NORMAL", "RECURSIVE", "ERRORCHECK"}
  DefaultType = "NORMAL"
  BadType = "99"
  BadShared = "7"
SYMMETRY ThreadSymmetry
INVARIANTS
  HeapIsSound
  HandleCountsMatchClients
  DlerrorIsOfLastFailure
  SignalsAreKept
  ErrnoAndLocaleAreExact
  MutexesAreAsConfigured
CHECK_DEADLOCK FALSE
