SPECIFICATION TextsSpec
CONSTANTS
  Topics = {"environment", "multibyte", "directory", "glob", "strings", "sizes", "calendar",
            "strftime", "numbers", "integers", "format", "newlines", "segments", "walk", "cpus", "nodes", "hints",
            "csv", "options", "gate", "snapshot", "command", "paths"}
  WordSize = 256
  PAGE_SIZE = 32
  HEADER_SIZE = 7
  RECORD_SIZE = 8
  MALLOC_ALIGNMENT = 2
  POINTER_SIZE = 1
  EnvNames = {"A", "B"}
  EnvValues = {"1", "2"}
  Buffers = {b1, b2}
  Malformed = "M"
  StartupVectors <- MCStartupVectors
  EntryAddresses = {1, 2, 3, 4, 5, 6, 7}
  InputBytes <- MCInputBytes
  MaxChunk = 2
  WideChars <- MCWideChars
  StrayStates <- MCStrayStates
  Listings <- MCListings
  DIRENT_BUFFER_SIZE = 9
  DIRENT_FIXED_SIZE = 2
  Tree <- MCTree
  CharCodes <- MCCharCodes
  GlobPatterns <- MCGlobPatterns
  GlobFlags <- MCGlobFlags
  MaxGlobPaths = 3
  MaxGlobOffs = 1
  C_INT_MIN <- MCIntMin
  C_INT_MAX = 400
  TIME_MIN <- MCTimeMin
  TIME_MAX <- MCTimeMax
  LONG_BITS = 8
  INT_BITS = 5
  CHAR_WIDTH = 3
  SHORT_WIDTH = 4
  INT_WIDTH = 5
  LONG_WIDTH = 6
  MAX_RETURN = 40
  Strings <- MCStrings
  USIZE_MAX = 64
  SYS_LONG_MAX = 31
  SYS_INT_MAX = 15
  SCHED_AFFINITY_BYTES = 2
  MAX_SCHED_AFFINITY_BYTES = 8
  UTSNAME_MAX_PAYLOAD_LEN = 4
  OCTET_SIZE = 4
  PORT_MAX = 500
  HostsFile <- MCHosts
  ServicesFile <- MCServicesFile
  Ipv6Lengths <- MCIpv6Lengths
  RequiredSymbols = {"f"}
  ValidSymbols = {"f", "g"}
  BlankValues = {"a b"}
INVARIANTS
  GetenvIsCurrent
  BorrowedStringsStay
  MultibyteIsExact
  EntriesComeOnceInOrder
  CalendarIsExact
  NumbersAreExact
  NewlinesReachTheHost
  ExpansionsAreExact
  SystemFilesAreRead
  ToolsReadWhatIsWritten
CHECK_DEADLOCK FALSE
