------------------------------ MODULE DlSymbols ------------------------------
(***************************************************************************)
(* The tables of dlfcn.rs: the names dlsym resolves to functions of this   *)
(* library. Each table maps a name to the function of that name, so a      *)
(* table is the set of its names.                                          *)
(***************************************************************************)
EXTENDS FiniteSets

stdlib_symbols ==
  { "environ", "getenv", "setenv", "unsetenv", "putenv", "clearenv",
    "malloc", "calloc", "aligned_alloc", "posix_memalign", "memalign",
    "valloc", "pvalloc", "realloc", "reallocarray", "free", "cfree" }

io_fs_symbols ==
  { "open", "openat", "access", "unlink", "close", "dup", "dup2", "dup3",
    "lseek", "getpid", "getppid", "getpgid", "getpgrp", "getsid", "gettid",
    "getuid", "geteuid", "getgid", "getegid", "isatty", "read", "write",
    "send", "recv", "pipe", "pipe2", "fsync", "fdatasync", "sync", "syncfs",
    "fstat", "fstatat", "stat", "lstat" }

system_resource_time_symbols ==
  { "uname", "gethostname", "getpagesize", "sysinfo", "sysconf",
    "prlimit64", "getrlimit", "setrlimit", "clock_gettime", "gettimeofday",
    "strftime", "gmtime", "gmtime_r", "localtime", "localtime_r", "timegm",
    "mktime" }

net_socket_symbols ==
  { "getaddrinfo", "getnameinfo", "freeaddrinfo", "gai_strerror", "socket",
    "connect", "bind", "listen", "accept" }

stdio_pthread_dlfcn_symbols ==
  { "__errno_location", "fclose", "fflush", "fileno", "fileno_unlocked",
    "tmpfile", "fopen", "fputs", "fread", "setbuffer", "setbuf",
    "setlinebuf", "flockfile", "ftrylockfile", "funlockfile", "setvbuf",
    "vsnprintf", "vfprintf", "vprintf", "printf", "fprintf",
    "pthread_create", "pthread_join", "pthread_detach", "dlopen", "dlsym",
    "dlclose", "dlerror" }

pthread_mutex_symbols ==
  { "pthread_mutexattr_init", "pthread_mutexattr_destroy",
    "pthread_mutexattr_gettype", "pthread_mutexattr_settype",
    "pthread_mutexattr_getpshared", "pthread_mutexattr_setpshared",
    "pthread_mutex_init", "pthread_mutex_destroy", "pthread_mutex_lock",
    "pthread_mutex_trylock", "pthread_mutex_unlock" }

pthread_cond_symbols ==
  { "pthread_condattr_init", "pthread_condattr_destroy",
    "pthread_condattr_getpshared", "pthread_condattr_setpshared",
    "pthread_cond_init", "pthread_cond_destroy", "pthread_cond_wait",
    "pthread_cond_timedwait", "pthread_cond_signal",
    "pthread_cond_broadcast" }

pthread_rwlock_symbols ==
  { "pthread_rwlock_init", "pthread_rwlock_destroy",
    "pthread_rwlock_rdlock", "pthread_rwlock_tryrdlock",
    "pthread_rwlock_wrlock", "pthread_rwlock_trywrlock",
    "pthread_rwlock_unlock" }

process_and_startup_symbols ==
  { "atexit", "exit", "_Exit", "abort", "__libc_start_main" }

fenv_symbols ==
  { "feclearexcept", "fegetexceptflag", "feraiseexcept", "fesetexceptflag",
    "fetestexcept", "fegetround", "fesetround", "fegetenv", "feholdexcept",
    "fesetenv", "feupdateenv" }

wchar_symbols ==
  { "mbrtowc", "mbrlen", "mbsinit", "wcrtomb", "mbsrtowcs", "wcsrtombs",
    "mblen", "mbtowc", "wctomb", "mbstowcs", "wcstombs" }

ctype_symbols ==
  { "isalnum", "isalpha", "isblank", "iscntrl", "isdigit", "isgraph",
    "islower", "isprint", "ispunct", "isspace", "isupper", "isxdigit",
    "tolower", "toupper" }

memory_string_symbols ==
  { "memcmp", "memcpy", "memmove", "memset", "strlen", "strnlen" }

numeric_conversion_symbols ==
  { "atoi", "atol", "atoll", "strtol", "strtoll", "strtoul", "strtoull" }

signal_symbols ==
  { "sigemptyset", "sigfillset", "sigaddset", "sigdelset", "sigismember",
    "sigaction", "kill", "raise", "sigprocmask" }

dirent_glob_fcntl_symbols ==
  { "fcntl", "opendir", "readdir", "closedir", "rewinddir", "glob",
    "globfree" }

locale_math_setjmp_symbols ==
  { "setlocale", "sqrt", "log", "exp", "setjmp", "longjmp" }

pthread_sync_symbols == pthread_mutex_symbols \cup pthread_cond_symbols \cup pthread_rwlock_symbols

process_fenv_wchar_startup_symbols == process_and_startup_symbols \cup fenv_symbols \cup wchar_symbols

ctype_memory_string_numeric_symbols == ctype_symbols \cup memory_string_symbols \cup numeric_conversion_symbols

misc_symbols ==
  process_fenv_wchar_startup_symbols \cup ctype_memory_string_numeric_symbols \cup signal_symbols
  \cup dirent_glob_fcntl_symbols \cup locale_math_setjmp_symbols

\* The tables are tried one after the other; the first that has the name wins.
resolve_rlibc_symbol(symbol_name) ==
  symbol_name \in stdlib_symbols \cup io_fs_symbols \cup system_resource_time_symbols \cup net_socket_symbols
                 \cup pthread_sync_symbols \cup misc_symbols \cup stdio_pthread_dlfcn_symbols

=============================================================================
