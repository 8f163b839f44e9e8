# A TLA+ development of rlibc

rlibc is a libc written in Rust. The part that is hardest to get right is where it
keeps state that several threads, callbacks or the host libc change at the same time;
after it come the services that keep state between calls of one thread, and the
algorithms on numbers, dates and text with their edges. This directory models all three
in TLA+, checks them with TLC on small instances and proves with TLAPS, for every instance,
the pthread objects and the registries of threads and streams, termination, the allocator,
the environment, and the services that keep state between calls.

The repository has no design documents. What a function promises is taken from
its rustdoc comment and from the tests in `src/tests/`; what it does is taken
from the code.

## 1. Inventory

### The system

| component | source | state it keeps | operations |
|---|---|---|---|
| mutexes | `pthread.rs` | a boxed `PthreadMutexState` per object: type, owner, depth, two waiter counts, a Condvar | init, destroy, lock, trylock, unlock; internally: full unlock and relock for waits |
| condition variables | `pthread.rs` | a boxed wait state per object: waiters, pending wakeups, a Condvar; a global lazy-init lock | init, destroy, signal, broadcast, wait, timedwait |
| read-write locks | `pthread.rs` | a global registry from addresses to `Arc`s of states: readers with their depths, writer, waiting counts, `destroyed` | init, destroy, rdlock, wrlock, tryrdlock, trywrlock, unlock |
| thread registry | `pthread.rs` | `PthreadRegistry`: local handles (joinable, pending, detached, finished), native handles (joinable, and two bounded caches) | create, join, detach, thread exit |
| attribute objects | `pthread.rs` | plain fields | getters and setters |
| stream registry | `stdio/mod.rs` | per `FILE*` address: file lock owner and depth, buffering configuration, I/O marks, identity; one Condvar | flockfile, ftrylockfile, funlockfile, fopen, tmpfile, fclose, fread, fputs, fflush, setvbuf, vfprintf and their wrappers |
| formatting | `stdio/mod.rs` | none across calls | vsnprintf and what uses it |
| startup and termination | `startup.rs`, `stdlib/process.rs` | the list of atexit handlers; SIGABRT's disposition and mask | \_\_libc\_start\_main, atexit, exit, \_Exit, abort |
| allocator | `stdlib/alloc.rs` | the list of live allocations under a spin lock | malloc, calloc, realloc, free, aligned variants |
| dynamic loader | `dlfcn.rs` | handle registry with counts, thread-local dlerror state | dlopen, dlclose, dlsym, dlerror, dladdr |
| environment | `stdlib/env_core.rs`, `env_mut.rs` | owned environment, putenv aliases, `environ`; one lock for every call | getenv, setenv, unsetenv, putenv, clearenv |
| multibyte conversion | `wchar/mod.rs` | partial characters, per thread and per `mbstate_t` | mbrtowc, wcrtomb and the string forms |
| time conversions | `time.rs` | none | gmtime, mktime, timegm, strftime |
| number conversions | `stdlib/conv.rs`, `atoi.rs` | none | strtol family, atoi family |
| pathname expansion, directories | `glob.rs`, `dirent/mod.rs` | the result vector; a cursor per stream | glob, globfree, opendir, readdir, rewinddir, closedir |
| signals | `signal.rs` | the caller's sets and saved actions; the kernel's masks and dispositions | sigset operations, sigaction, sigprocmask, raise, kill |
| system call wrappers | `unistd.rs`, `fcntl.rs`, `socket.rs`, `resource.rs`, `fs/`, `system.rs`, `syscall/` | errno | one system call each; sysconf and gethostname over the kernel's files |
| name resolution | `netdb.rs` | none | getaddrinfo, getnameinfo |
| errno, locale | `errno.rs`, `locale.rs` | a thread-local errno; the locale's name | \_\_errno\_location, setlocale |
| math, ctype, string, memory, setjmp, fenv | the files of these names | none | pure functions and assembly |
| gates | `bin/abi_check.rs`, `bin/xfail_ledger.rs` | none | the ABI snapshot gate, the expected-failure ledger gate |
| build scripts | `bin/crt_pipeline.rs`, `build.rs` | none | run the compiler and the linker |

### How the components interact

- A condition wait calls the mutex: it registers with both objects, releases the
  mutex however deep it is, sleeps, and takes the mutex back as often. Destroying
  either object asks for the counts the waits keep in both.
- `pthread_create`, `join` and `detach` call the host's functions of the same
  names without holding the registry, and apply the result to the registry later.
- The stream functions take the file lock from the registry, call the host's
  `FILE` functions without the registry's Mutex and mark what happened afterwards.
  `printf` and `fprintf` are `vfprintf`; `vfprintf` calls `fflush`; `fread` and
  `fputs` take no file lock.
- `__libc_start_main` calls constructors, `main`, destructors and `exit`; `exit`
  calls the handlers; every one of them may call back into any of these functions,
  and `abort` may enter a signal handler that does.
- The loader asks the host's loader outside its registry's Mutex (dlopen) or inside it
  (dlsym); both keep an error message per thread.
- getenv hands out pointers into the owned entries, into strings that the program gave to
  putenv, or into the vector of the start; every environment call holds one lock.
- Every wrapper, setlocale, glob and the directory functions report through the
  thread-local errno.
- The allocator is used by the objects above through Rust's `Box`, `Arc` and `Vec`,
  which the models treat as a source of fresh objects.

### What is hard, and what makes each component correct

- **Mutex.** Notifications are sent after the inner lock is dropped; waiters sleep
  on a Condvar that may wake spuriously; destroy checks and frees in two steps.
  Correct: at most one thread holds it, at the depth the state records; waiters are
  counted exactly; a free mutex is not left with sleepers and no wakeup on its way;
  only an unused mutex is freed; a free mutex is taken.
- **Condition variable.** Wakeups are counted, not addressed; two objects keep
  counts for each other. Correct: the counts are exact; neither object goes away
  under a wait; recorded wakeups reach waiters; the mutex comes back at its depth;
  a deadline ends a wait; broadcast wakes all current waiters.
- **Read-write lock.** Readers and writers share a Condvar and leave their counts on
  several paths; an operation goes on with a state that destroy and init replaced.
  Correct: readers exclude writers; counts are exact; no lost wakeup; writers are
  not starved by readers.
- **Thread registry.** Lookup, work and bookkeeping are separate critical sections,
  and names are reused. Correct: a thread that was created joinable and was neither
  joined nor detached stays joinable; one join or detach succeeds; error codes are
  those of the thread meant.
- **Stream registry.** Facts are keyed by an address that the host gives out again;
  calls mark the registry after the host's work. Correct: owner and depth are the
  clients'; nothing is remembered of a closed stream; buffering is configurable
  before I/O only; bytes in the host's buffer are known to be there.
- **Startup and termination.** Handlers register handlers, exit again and abort;
  several threads exit at once. Correct: each handler once, in reverse order; exit
  returns to the system after the last; abort ends by SIGABRT whatever its state.
- **Allocator.** Mapping, filling and unmapping happen outside the spin lock; a record is linked
  after its mapping is made and taken out before it goes. Correct: a block stays backed,
  aligned and unshared; every mapping has one owner, except those whose `munmap` failed: the
  code discards that result, and they are lost; a failing realloc changes nothing; no size wraps.
- **Loader.** Counts are kept here and by the host, messages in two places per thread.
  Correct: a handle is open exactly while a client holds it; dlerror is of the last
  failure.
- **Environment.** The program may rewrite the strings it gave to putenv, names included.
  Correct: getenv answers what the calls and the strings say now; a string it returned
  stays where it is until its own name is changed.
- **Signals, errno, attributes.** Storage of the caller starts dirty and is filled in
  part; correct: what was saved can be put back, blocked signals wait, errno is the
  caller's, and an object is what it was configured to be.
- **Conversions.** Multibyte text is cut anywhere; dates, numbers, sizes, directives,
  patterns and addresses have edges. Correct: the answer is that of a reference definition.
- **Gates.** Correct: what is written is read back, no damaged line is passed over, and a
  repaired case does not close an open gate.

`PROJECT.json` lists these hazards at their lines, with the properties about them.

## 2. Plan

Done, the most shared state first:

1. `PthreadMutex` with `AbstractMutex` and its proofs
2. `PthreadCond`, over `PthreadMutex`, with a barrier as client, and its proofs
3. `PthreadRwlock` with `AbstractRwlock` and its proofs
4. `PthreadRegistry`
5. `StdioStreams`
6. `ProcessExit`
7. `AllocSizes` and `Allocator`, `DlSymbols` and `Loader`, `Signals`, `SystemCalls`,
   `PthreadAttrs`: services with state between calls, composed in `MCServices`
8. `Environment`, `Multibyte`, `DirStreams`, `Glob`, and the pure algorithms of `Calendar`,
   `Conversions`, `Format`, `SystemInfo`, `Netdb`, `XfailLedger` and `AbiCheck`,
   composed in `MCTexts`

9. Proofs: `PthreadRegistryProofs`, `StdioStreamsProofs`, `ProcessExitProofs`,
   `AllocatorProofs`, `TextsProofs` for the environment, directory streams and multibyte
   conversion, and `ServicesProofs` for the loader, signals, system calls and attributes

The modules of state declare no RECURSIVE operator, so that they can be proved about; the
text modules do, and stay with TLC.

## 3. The modules

### PthreadMutex

One object and the threads that use it. `owner`, `recursion_depth`,
`waiter_count`, `cond_waiter_count` and `mutex_type` are the fields of
`PthreadMutexState`; `live` says whether the object's pointer is set; `sleepers` are
the threads asleep in `wait_cv`. `pc` is where a thread is between two critical
sections. Critical sections of the inner lock are single actions.

| action | code |
|---|---|
| `InitMutex` | `pthread_mutex_init` |
| `Lock`, `Retry` | `mutex_lock_internal`: first attempt; the loop after each wakeup |
| `Trylock` | `pthread_mutex_trylock` |
| `Unlock` (`UnlockLevel`, `UnlockFully`, refusals), `UnlockNotify` | `mutex_unlock_internal`: the section, and the `notify_one` after it |
| `DestroyBusy`, `DestroyCheck`, `DestroyFree` | `pthread_mutex_destroy`: checks; free |
| `SpuriousWake` | `Condvar::wait` returning by itself |

`held` is a ghost: what each client holds by the return codes it saw. Clients obey
what POSIX asks of them: no call starts between destroy's checks and its return.

`AbstractMutex` has only `exists`, `reentrant` and `holds`; `PthreadMutex` implements
it with `live`, `mutex_type = "RECURSIVE"` and `held`.

### PthreadCond

EXTENDS `PthreadMutex`, because a wait changes both objects in one critical section.
`init_lock` is the global lock of `lock_cond_lazy_init`; the wait is cut where the
code gives up a lock: register (`Wait`), release the mutex (`ReleaseForWait`), look at
the wakeups and sleep (`Commit`), wake (a notification, `DeadlinePasses` or
`CondSpuriousWake`) and look again (`Recheck`), unregister (`Leave`, part of the section
that ends the wait), and take the mutex back as often as it was held (`Relock`,
`WaitReturn`). `Signal` and `Broadcast` record wakeups, and notify in a second step.
`due` is a ghost: the waiters a broadcast found.

`MCPthreadCondBarrier` is a client program, the usual cyclic barrier; a thread's first
wait may have a deadline. The inner locks are not fair, so clients that call for ever can
overtake a thread for ever; a program with finitely many calls leaves unfinished only what
is unfinished for good, which is why liveness is checked of the barrier.

### PthreadRwlock

States are places for a `PthreadRwlockState`; `entry` is the Arc in the registry, `arc`
the clone a call works with. A call is: clone (`Enter`), then one critical section per
attempt, then possibly the notification. `destroy` marks the state, then removes the
registry entry. `reads` and `writes` are the clients' own account.

`AbstractRwlock` knows which threads read and how often, and who writes.

### PthreadRegistry

Local and native names, the registry's sets, `thread` for the OS threads behind
local ids and `host` for the host's view of native handles (external: a handle is fresh,
running, exited, detached or released, and may be given out again when the program's
`reuse` says so). The
two caches of native handles are sequences; the set beside each queue in the code
always holds the same elements. `call` records the step a thread is in between two
critical sections. `RECENT_NATIVE_CREATES` is written and never read, and is left out.

`program`, fixed at the start, says what clients do. Its `discipline` lets them name any id (`"any"`), any name a create has
returned (`"published"`), only names they own, one call at a time on each (`"owner"`), or
that and no native create beside a native join or detach (`"serial"`). The runs say
`CHECK_DEADLOCK FALSE` because a program really stops here: names run out, and two
threads may join each other.

### StdioStreams

`tracked` is the registry: a record per address, or `Untracked`. Host side (external):
`open`, `identity` (what `read_host_stream_identity` would return) and `buffered`
(bytes in the host's buffer). A call is a sequence of steps: take the file lock
(`TakeLock`, `WaitForLock`, `Recontend`), the library's decision, the host's work, the mark, the release.
`vfprintf` reads the registry three times before it decides whether to write through
the host or past it; the model keeps the three reads apart.

`held` and `used` are ghosts: levels of the file lock a client acquired, and I/O done
and marked since the stream was opened. Clients do not use a stream while they close
it, as C asks. `ReusedEarly` lets the host give an address out again before the fclose
that freed it returned; `Renames` lets an open file be renamed or removed, which changes
its identity. `standard`, chosen once, are the addresses of the standard streams: open from
the start, never given out by fopen, and marked as the host's by every flush.

### ProcessExit

Each thread has a stack of frames; the top runs. A library frame is a loop
(`init_array`, `fini_array`, `exit`, `abort`); a program frame is a constructor, main, a
destructor, an atexit handler, a SIGABRT handler or a thread's body, which may call any
operation or return. `handlers` is `AT_EXIT_HANDLERS`; handlers are numbered in the
order of registration. `Ended` lets the process stop by `outcome`.

### Allocator and AllocSizes

`AllocSizes` is the arithmetic: `usize` is `0 .. WordSize - 1`, checked operations give
`None`. `AllocationFits` compares it with what a mapping has to hold. `Allocator` has
`active` (the list of records under the spin lock), `memory` (payloads with the header in
front), `mappings` (external: what the kernel has mapped) and, per thread, the call and the
place in it. `granted` is a ghost: what clients own, with the size, alignment and contents
they were promised. Sections under the lock are single actions; mapping (`Mmap`, `MmapFails`),
unmapping (`Munmap`), the reading of a header (`ReadHeader`) and the zeroing of a calloc and the
copying of a realloc (`Fill`, after `Register` has linked the new record) are steps of their own.
Clients may write over the header in front of their blocks, which the code must not trust.

The kernel may refuse a mapping, which the caller hears of, and an unmapping, which nobody does:
`munmap_allocation` discards the result (`alloc.rs:304-314`). When it is called, `free_impl`
has taken the record out, and `allocate_with_alignment` has none for the mapping whose payload it
could not place, so that mapping stays until the process ends and no call asks for it again. No
document of the repository says otherwise; the model does the same and collects such mappings in
the ghost `refused`. `HeapIsSound` says that they are the only ones without a record or a call that
will see to them, and that no live block lies in one.

### Loader and DlSymbols

`handles` is the registry, `held` the clients' account (ghost), `pending` the message dlerror
will return, `host_pending` the host's. dlopen is cut between the host's answer and the
registration. A message is which one and whose detail; `failed` is a ghost of the last
failure. `DlSymbols` holds the names that dlsym resolves in this library; TLC asks for one
name of each kind.

### Signals, SystemCalls, PthreadAttrs

`Signals`: sets of the caller are words of bits of which the kernel sees the first;
`disposition`, `mask`, `pending_signals` and `handling` are the kernel's (external). Threads
block a set around a section and replace a disposition, and put back what they saved.
`SystemCalls`: one action per family of wrappers that decode a register alike; `errno_of` is
the thread-local cell, `before_of`, `raw_of` and `answer` what a caller remembers of its last
call. `setlocale` is there for what it does to errno, and its rule for the environment's
variables is compared with the rule for single categories. `PthreadAttrs`: attribute
objects start with anything; `made_as` is a ghost of the types asked for.

### Environment

`initialized`, `entries` and `environ` are the owned environment; an entry has a name, a value
and an address. `putenv_aliases` is the list of the strings given to putenv, `buffer` the
texts they have now: `RewriteBuffer` is the program's own step. `bound` and `borrowed` are
ghosts: what the calls so far promise of a name, and where the string is that getenv
returned.

### Multibyte, DirStreams, Glob

`Multibyte` reads byte by byte with the state kept between calls; its reference is the table
of well-formed byte sequences of the Unicode standard. `DirStreams` reads chunks of records
that the kernel fills as far as they fit. `Glob` matches segments, walks a tree of
directories and keeps the result vector of `glob_t`, which later calls append to and
`globfree` releases; the reference for a segment is a set of token sequences, for a walk the
paths of the tree that match segment by segment.

### Calendar, Conversions, Format, SystemInfo, Netdb, XfailLedger, AbiCheck

Pure code as operators. Texts are sequences of what the parsers tell apart (characters,
tokens, lines), never wordings. References: a calendar counted day by day; numerals as the C
standard reads them; the text of an unlimited buffer and the value of its digits; a calling
convention that places arguments by class; sets of processors; the sum of weighted
components of an address; what was written, for CSV, command lines and snapshots; a walk, for
paths.

`MCServices` and `MCTexts` compose modules that share no state: a behaviour picks its subject
or topic at the start. The topics of pure code pick an input from a bounded set, and the
invariants range over the rest of the input.

Symbol names follow the code where TLA+ allows it. Operators named `Mut...` are faulty
variants of the definition that follows: each stands for a plausible bug and makes a
property of some run fail, which shows that the property speaks about that code.

## 4. The runs

| run | module | what it shows | properties |
|---|---|---|---|
| `mutex` | `MCPthreadMutex` | Three threads share one mutex of each type, with relocks, trylocks, spurious wakeups, destroy and re-init in every order: the owner is who the return codes say, the waiter count is exact, no wakeup is lost, destroy frees only an unused mutex, the abstract mutex is implemented, and a free mutex that somebody waits for is taken. | `MutexStateIsSound`, `OwnerMatchesClients`, `NoLostWakeup`, `FreedIsUnused`, `ImplementsAbstractMutex`, `FreeMutexIsTaken` |
| `cond_safety` | `MCPthreadCond` | Three threads wait (with and without deadline), signal, broadcast, destroy and re-init one condition variable over a plain or recursive mutex: both objects' counters are exact, neither object disappears under a waiter, recorded wakeups reach waiters, and a wait gives the mutex back at the depth it took it. | `CondStateIsSound`, `WakeupsReachWaiters`, `WaitRestoresDepth` |
| `cond_barrier` | `MCPthreadCondBarrier` | Three threads meet at a barrier built from the mutex and the condition variable, for every mutex type, with waits with and without a deadline: once all have come all of them get through, and a wait with a deadline ends although the others do not come. | `WaitsEnd` |
| `cond_broadcast` (violation) | `MCPthreadCondBarrier` | Two threads meet twice at the same barrier: the second wait can consume the wakeup that a broadcast recorded for the first waiter, which then sleeps for ever. | `BroadcastWakesAll` |
| `rwlock` | `MCPthreadRwlock` | Three threads read, write, try, unlock, destroy and re-init one rwlock whose registry entry changes under them: owners and counts are exact, no wakeup is lost, a destroyed state is unused, and the abstract read-write lock (readers exclude writers, writers everybody) is implemented. | `RwStateIsSound`, `RwWaitersAreServed`, `ImplementsAbstractRwlock` |
| `rwlock_live` | `MCPthreadRwlockClients` | Three clients that give back what they took and take it again for ever: a waiting writer gets the lock although readers keep coming. | `WritersAreNotStarved` |
| `registry_crossing` | `MCPthreadRegistry` | Two main threads, the two local threads and the native thread they create join and detach, in one program any name that was published, themselves included, again and again and in every order, in the other only what they own, native calls one at a time, while the host gives its handles out again: local threads are neither lost nor remembered too long, each thread has one consumer, error codes about local threads tell the truth, the native caches are consistent, and in the second program an owned thread stays joinable. | `RegistryIsSound`, `RepliesAreTruthful`, `DisciplinedStaysJoinable` |
| `stdio_locks` | `MCStdioStreams` | Three threads lock, trylock, unlock, open, use and close the streams of one address while files are renamed: the registry's owner and depth are the clients', and a new stream inherits nothing. | `FileLocksAreSound`, `OpenedIsFresh` |
| `stdio_buffering` | `MCStdioStreams` | Two threads lock, configure, write, flush, close and reopen streams of one address, or use a standard stream: setvbuf is accepted only before I/O and then stays in force, bytes the host has buffered are known to be the host's, and a free file lock that a thread sleeps for is taken. | `HostBytesAreTracked`, `SetvbufIsFinal`, `FreeFileLockIsTaken` |
| `exit` | `MCProcessExit` | Two threads register handlers, exit and abort at the same time, from main, constructors, destructors, atexit and signal handlers: both arrays run in order, no handler is lost or called twice, they start in reverse order of registration, exit ends its loop only after every handler, and abort ends by the signal. | `HandlersAreAccounted`, `TerminationIsOrderly` |
| `services` | `MCServices` | Two threads use one service each time: allocate, resize and free while a system call may fail, open and close a library both host and tool know, send and block signals, make system calls with their errno, set up mutex attributes, switch the locale. Live blocks stay backed, every mapping is a record's, a call's or one the kernel refused to take back, handle counts are the clients', dlerror reports the last failure, blocked signals wait and saved masks and actions are whole, errno belongs to the call and thread that failed, and a mutex has the type it was configured for. | `HeapIsSound`, `HandleCountsMatchClients`, `DlerrorIsOfLastFailure`, `SignalsAreKept`, `ErrnoAndLocaleAreExact`, `MutexesAreAsConfigured` |
| `texts` | `MCTexts` | The environment, the multibyte converter, directory streams and glob as state machines, and the pure algorithms over bounded inputs against reference definitions: dates, numbers, sizes, format directives, patterns, addresses, CPU lists, the ledgers and paths of the tools. | `GetenvIsCurrent`, `BorrowedStringsStay`, `MultibyteIsExact`, `EntriesComeOnceInOrder`, `CalendarIsExact`, `NumbersAreExact`, `NewlinesReachTheHost`, `ExpansionsAreExact`, `SystemFilesAreRead`, `ToolsReadWhatIsWritten` |

Several of these properties are conjunctions of parts that have names of their own:
`MutexStateIsSound` (types, exact waiter count), `CondStateIsSound` (types, exact counters,
objects outlive waits), `WaitsEnd` (the barrier completes, deadlines end waits),
`RwStateIsSound` (types, owners match clients, destroyed is unused), `RwWaitersAreServed`
(waiters are counted, no wakeup is lost), `RegistryIsSound` (types, threads are tracked,
claims are exclusive, native detached handles are detached), `FileLocksAreSound`,
`SetvbufIsFinal`, `HandlersAreAccounted`, `TerminationIsOrderly`, `HeapIsSound`,
`SignalsAreKept`, and those of `MCServices` and `MCTexts`, whose comments name their parts.
The mutants of `PROJECT.json` break most of the parts one by one.

### Bounds, and why they are enough

- **Threads.** Three where the interesting case needs an owner, a waiter and somebody
  who interferes (mutex, condition variable, rwlock, file locks); two where a call
  already has many steps and the properties relate one thread to the rest (registry,
  buffering, exit). In the registry runs the threads that these two create call, too.
- **Depth.** `MaxDepth` 3 for the mutex and 2 for the condition variable: a recursive
  lock that is taken again, given back in part, and released in full by a wait. For
  streams a client takes one level, and `vfprintf`, `fflush` and `setvbuf` add one
  when their caller already holds the lock.
- **`MaxCount`** of the rwlock stands for `usize::MAX`; at 2 the `EAGAIN` of a full count
  is reached.
- **Two rwlock states** let a call go on with an old state while the registry has a new
  one. A third would be a further replacement of the same kind.
- **`CacheLimit`** is 1024 in the code and 1 in the runs, where the eviction is reached.
- **One stream address**, reused by any number of streams; what the code does for one
  address does not read another's entry, except `fflush(NULL)`, which treats all entries
  alike. **Two identities** let a new file have the old identity or another one.
- **Words.** `usize` has 256 values in the allocator's runs, a page 32 bytes, header and
  record 7 and 8: every sum of the code reaches the end of the word. `long` has 8 bits for
  the conversions and 6 for the formatter, an octet 4 values, `c_int` ids 4 bits; time_t and
  tm_year end some hundred years away. The code's formulas are the same for every width.
- **Two mappings**, so that one place is mapped, unmapped and mapped again while a second
  block lives; requests that share a page, fill one, and are too large.
- **Signals**: three signals, sets of two words of which the kernel knows one, handlers
  nested twice, and 4 calls of a thread outside sections.
- **Environment**: two names, two values and two buffers that may be renamed to each
  other's names; a start vector with a repeated and a malformed string.
- **Multibyte**: bytes on both sides of every row of the table, chunks of at most two bytes
  of any number of calls, and states that no call has left.
- **Texts**: inputs are all sequences over a small alphabet up to the length at which two
  special characters meet an ordinary one; dates are 200 days around the borders of
  months, years, centuries, eras and ranges.
- **Handlers**: a list of 2 (32 in the code) with 3 registrations reaches the full list; a
  stack of 4 frames holds an exit in a handler of an exit. Both arrays have a slot
  without a callable address between two others.

Every property has a `Mut...` operator that breaks it within these bounds, so the case each
property is about does occur.

### Fairness

Weak fairness only, for steps the scheduler owes: a thread inside a call of the library
that can take its next step takes it (`Progress`). Client calls are not fair: a
client need not call, or unlock. Exceptions are named in the specifications that use them:

- `cond_barrier`: a deadline that lies ahead passes, and a thread that has come to the
  barrier goes on with its program; it need not come;
- `rwlock_live`: clients give back what they took, else a writer waits rightly.

Spurious wakeups are possible everywhere and never fair, so no liveness property relies on
one.

### Statements that do not hold

One run looks for a violation. It checks one sentence of a rustdoc comment, and TLC prints
a behaviour of the code that contradicts it:

- **`cond_broadcast`** (`pthread.rs:2026`): A wakeup is a unit of pending_wakeups that any waiter may consume, also one that began to wait after the broadcast. The doc comment of pthread_cond_broadcast (src/src/pthread.rs:2197) says "Wakes all current waiters, if any."; in a two-thread cyclic barrier the thread that broadcast arrives at the next round, consumes the wakeup meant for the sleeping thread, and both hang.

Other statements of comments and tests fail in the same way. They are not listed
as runs, and no property of a passing run leans on them; the configurations beside the
modules show each of them:

- **`PthreadMutexDangling.cfg`** with `MCPthreadMutex`, `NoDanglingReference`, at `pthread.rs:1113`: mutex_unlock_internal drops lock_state and only then calls wait_cv.notify_one(), while pthread_mutex_destroy frees the state as soon as there is no owner and no waiter. The doc comment of pthread_mutex_t (src/src/pthread.rs:204) says the object may be "destroyed by [`pthread_mutex_destroy`] when no thread owns it"; a thread that locks, unlocks and destroys between the two steps leaves the first unlock notifying a freed Condvar.
- **`PthreadRegistryCrossing.cfg`, with `MaxLocal = 0`, `CacheLimit = 2`, `Programs <- Owners` and the one invariant** `OwnedStaysJoinable`, at `pthread.rs:937`: handle_forwarded_native_join_result (and the detach one, line 839) marks the handle after the host call returned and without knowing whether the host has given it to a new thread meanwhile, so a joinable new thread is entered in native_consumed. The doc comment of pthread_join (src/src/pthread.rs:861) says "`ESRCH` when no known pthread target exists for the handle"; the new thread's creator gets ESRCH for a thread that runs.
- **`PthreadRegistryCrossing.cfg`, with `MaxLocal = 1`, `Handles = {}`, `CacheLimit = 2`, `Programs <- Probing` and the one invariant** `OwnedStaysJoinable`, at `pthread.rs:941`: The unknown branch locks the registry a second time and marks the id consumed, and the first lookup does not see local_pending, so a probe that meets the creation of that id poisons it. tests/pthread_i041.rs (src/tests/pthread_i041.rs:1171) says "unknown-handle probe must not reserve a local thread id that becomes unjoinable"; every later join and detach of the created thread answers ESRCH.
- **`PthreadRegistrySelfJoin.cfg`** with `MCPthreadRegistry`, `OwnedStaysJoinable`, at `pthread.rs:902`: A native join takes the handle out of native_joinable for the time of the host call, so a concurrent join finds nothing, answers ESRCH and marks the handle consumed; the EDEADLK path then puts it back into native_joinable only. The doc comment of pthread_join (src/src/pthread.rs:861) says "`ESRCH` when no known pthread target exists for the handle"; the thread is known, runs, and can never be joined again.
- **`PthreadRegistrySelfJoin.cfg`, with the one PROPERTY** `ReleasedIsESRCH` instead of its invariant, at `pthread.rs:897`: A handle in native_detached is refused with EINVAL without asking the host, for ever. The doc comment of pthread_join (src/src/pthread.rs:860) says "`ESRCH` when a detached native handle has already been released" (pthread_detach says the same, line 777).
- **`PthreadRegistrySelfJoin.cfg`, with `h2 = h2`, `Handles = {h1, h2}`, `CacheLimit = 1` and the one PROPERTY** `DetachedIsKnown`, at `pthread.rs:271`: mark_native_detached forgets the oldest handle beyond NATIVE_DETACHED_CACHE_LIMIT even when its thread still runs; a call on it then answers ESRCH. The doc comment of pthread_join (src/src/pthread.rs:858) says "`EINVAL` when the target is detached and the host runtime still keeps the detached handle alive".
- **`StdioStreamsBuffering.cfg`, with `ReusedEarly = TRUE` and the one invariant** `FileLockMatchesClients`, at `stdio/mod.rs:2732`: fclose lets the host free the FILE and only then calls clear_stream_tracking_state (line 2738), which drops whatever the registry holds for the address. An fopen in another thread that is given the same address in between has its own clear behind it, so the late clear wipes the new stream's state, with a file lock that is held. The doc comment of flockfile (src/src/stdio/mod.rs:2344) says it "blocks until another owning thread releases the lock"; afterwards a second thread gets the lock at once, and the fclose comment (line 2701) says the clean-up is there "to avoid stale pointer-key reuse".
- **`StdioStreamsBuffering.cfg`, with `Renames = TRUE` and the one PROPERTY** `SetvbufPrecedesIo`, at `stdio/mod.rs:2982`: setvbuf recognises a recycled FILE by a changed host_stream_identity, a hash of the descriptor and of the target of its /proc/self/fd link; the target also changes when the open file is renamed, removed or redirected, and then setvbuf succeeds after I/O and forgets that the stream is backed by the host. The doc comment of setvbuf (src/src/stdio/mod.rs:2936) lists as EINVAL: "the stream has already observed I/O activity".
- **`ProcessExit.cfg`, with `InitArray <- OneSlot`, `FiniArray <- OneSlot`, `MaxRegistrations = 2`, `MaxFrames = 3` and the one invariant** `NoHandlerIsCutOff` (without the PROPERTY), at `stdlib/process.rs:60`: run_atexit_handlers takes the end of the list for the end of the handlers, but a handler popped by another thread's exit may still be running; exit_group then kills it. The doc comment of exit (src/src/stdlib/process.rs:152) says it "Runs currently registered `atexit` handlers in LIFO order, then terminates" the process.
- **`Texts.cfg`, with `Topics = {"calendar"}` and the one invariant** `IsoWeeksAreOfThursday`, at `time.rs:749`: iso_week_context counts the first day of the year as day 0 in a formula for day 1 and is a week short in every year that begins on a Thursday. The doc comment of strftime (src/src/time.rs:1434) says "`%G/%g/%V` use ISO-8601 week rules".
- **`Texts.cfg`, with `Topics = {"nodes"}` and the one invariant** `AddressesAreInNetworkOrder`, at `netdb.rs:759`: the octets of an IPv4 address are combined into a number whose bytes lie in memory in reverse. The comment of in_addr (src/src/netdb.rs:115) says "IPv4 address in network byte order."
- **`Texts.cfg`, with `Topics = {"longs"}` and the one invariant** `NewlinesReachTheHost`, at `stdio/mod.rs:1293`: the walk that looks for newlines gives the length `l` to `LengthModifier::L` (line 722), takes `%lf` for a long double and skips two words of the overflow area instead of one register, so a later `%s` with a newline is looked for in the wrong place and the line is not flushed.
- **`Services.cfg`, with `Subjects = {"signals"}` and the one invariant** `HandlersReturnByTrampoline`, at `signal.rs:466`: the library's trampoline is installed only when the action's restorer is also null. The doc comment of sigaction (src/src/signal.rs:430) says that "when `act` is non-null and `SA_RESTORER` is omitted, `rlibc` provides an internal `rt_sigreturn` trampoline and sets `SA_RESTORER`"; a stale restorer without the flag goes to the kernel as it is.

What the passing runs assume in order not to meet these: `DisciplinedStaysJoinable` is
about programs of the discipline `"serial"`, and the rest of `registry_crossing` on native
handles about programs for which the host gives no handle out twice, or which name only
what they own; `texts` leaves `%lf` and the ISO
week of years that begin on a Thursday out; `stdio_locks` and `stdio_buffering` a host that does not give an address out again
before its `fclose` returned, and `stdio_buffering` files that are not renamed while open;
`ExitCompletesHandlers` says that handlers are done *or running* when the exit loop ends.

## 5. Proofs

### The mutex: `PthreadMutexCondProofs`, first part

For every set of threads, every subset of the three types and every depth bound:

- `MutexTypeCorrect` and `WaitersAreCounted`, together `StateIsSound`, `MutualExclusion`,
  `NoWakeupIsLost`, `FreeOnlyUnused`: the invariants of the run `mutex` hold of `Spec`;
- `Refinement`: `Spec` implements `Abstract!Spec`.

Assumptions: the named ones of `PthreadMutex` (threads are finitely many, `NoThread` is
none of them, types are among the three, the bound is positive). Finiteness is needed
because `waiter_count` is the cardinality of the set of waiting threads.

The inductive invariant `IInv` is the conjunction of these five invariants and
`DanglingAreNotifying` (only a thread whose `notify_one` is still to come can hold a
reference to a freed state). None of the five is inductive alone: that the owner is who the
clients believe needs the types; that a free mutex with sleepers has a wakeup on
its way needs that sleepers are exactly the waiting threads that were not woken, and
that the count is exact so that destroy's check cannot free under them. The proof has
one step per action and treats each conjunct that the action can disturb; the
facts about adding and removing one element of a finite set are lemmas. The refinement
maps each action that changes `held`, `live` or `mutex_type` to the abstract action of the
same meaning, and all the others to a stutter.

### The condition variable: `PthreadMutexCondProofs`, second part

For the same parameters, of `CondSpec`, in which threads also call the mutex at any time:

- `CondStateSound`: types, exact counters in both objects, and objects that outlive waits;
- `NoCondWakeupIsLost`: recorded wakeups reach waiters (`WakeupsReachWaiters`);
- `WaitGivesMutexBack`: the action property `WaitRestoresDepth`.

`CondIInv` adds to the mutex's `IInv` and these invariants:

- `InitLockHeld`: who holds `lock_cond_lazy_init` is in one of four places. At most one
  thread is therefore about to notify, so a wakeup that was recorded and not yet notified
  cannot be taken for one that reached a waiter, and no wait registers in between;
- `SleepersAreWaiting`: who sleeps in the Condvar is registered, so that a notification
  wakes a waiter that is counted;
- `NoFreeUnderWait`: while a wait refers to the mutex, the mutex is there and no
  `pthread_mutex_destroy` is between its checks and the free. This is what
  `cond_waiter_count` is for, and `ObjectsOutliveWaits` alone does not survive the free;
- `WaitShape`: where a thread in a wait is in the mutex's functions, and that what it holds
  and what it has still to relock add up to the depth at which the wait found the mutex.

A step of the mutex keeps `IInv` by the lemma of the first part; `MutexFrame` says
what it leaves alone of what the other threads' waits rely on. The steps of the condition
variable that change the mutex (registering, the full release, the relock) are shown to be
steps that keep `IInv` one by one.

### The read-write lock: `PthreadRwlockProofs`

For every set of threads, every set of states and every limit of the counts:

- `StateIsSound`: types, owners that match the clients, destroyed states that are unused;
- `WaitersAreServed`: exact waiter counts, and no lost wakeup;
- `Refinement`: `Spec` implements `Abstract!Spec` of `AbstractRwlock`.

Assumptions: the named ones of `PthreadRwlock` (threads are finitely many, `NoThread` and
`NoState` are no threads and states, the limit is positive).

`IInv` adds to the five invariants:

- `CallShape`: which calls can be in which place, and that a destroy that has still to
  remove the registry entry has marked its state, so no other call begins a wait there;
- `SleepersWait`: only threads that wait at a state sleep in its Condvar;
- `ReadersExcludeWriter`, of every state. The clients' account only speaks of the state in
  the registry, but calls go on with states that were removed from it.

`total_readers` is the number of the acquisitions, pairs of a thread and a level, that the
owners' map records; that a count of zero means that nobody reads is then a fact about
finite sets (`FS_Product`, `FS_AddElement`, `FS_RemoveElement`) and needs no sum. In the
refinement a lock exists until its state is marked destroyed, not until the registry
forgets it: from the mark on every call refuses.

### The registry of threads: `PthreadRegistryProofs`

For every set of client threads, every number of local ids, every set of native handles and
every limit of the caches:

- `ThreadsAreTracked`, of programs that name anything at all: the registry is well-formed,
  `finished` and `detached` say of every local thread what is so, and a handle cached as
  detached is detached at the host;
- `RegistrySound`: `RegistryIsSound`, which adds that a thread has one consumer at a time.
  Hypothesis: where the host gives handles out again (`reuse`), programs name only what they
  own. Else a join that is under way on an old thread and one on a new thread of the same
  name are two calls on one handle, which no registry could tell apart; POSIX leaves such
  programs undefined;
- `TruthfulReplies`: `RepliesAreTruthful`, of programs that name only what a create returned;
  the probe of an id that is still being created is the variant of section 4;
- `SerialStaysJoinable`: `DisciplinedStaysJoinable`, without a hypothesis: the invariant
  itself speaks of serial programs only.

Assumptions: the named ones of `PthreadRegistry`. `RegIInv` says which phase of which call
holds each name:

- `LocalsAreTracked`: where a local id is between its creation, its publication, its exit and
  its consumption; at most one call is about it, and what is owned is joinable or claimed;
- `HandlesHaveOneHolder`, of a host that gives no handle out twice: at most one call creates
  a handle, is about to pass it to the host or puts it back, and meanwhile it is not in
  `native_joinable`; what is cached as detached, or came back so, is detached at the host;
- `ConsumersApart`, of programs that name only what they own: two calls that consume have
  different targets, from the lookup to the last bookkeeping;
- `MissedAreTaken`: a local id that a call found unknown, and will enter in the cache in its
  next section, was published and taken before; so the late entry poisons no new thread;
- `SerialCalls`: in a serial program every call has a target of its own, and an owned
  handle is in `native_joinable` or on its way back there.

`RegistryIsSound` alone is not inductive: that a second call cannot claim a thread follows
from where the first one has put the name, which only these parts say.

The two caches are sequences without repetitions; `ForgetFacts` and its neighbours say what
removing and pushing do to their elements.

### The registry of streams: `StdioStreamsProofs`

For every set of threads, addresses and identities and every bound of the depth, with any of
the addresses standard streams:

- `FileLocksSound`: `FileLocksAreSound`;
- `OpenedStreamsAreFresh`: the action property `OpenedIsFresh`;
- `BytesAreTracked` and `SetvbufDecidesOnce`: `HostBytesAreTracked` and the action property
  `SetvbufIsFinal`.

Hypotheses: the host does not give an address out again before its `fclose` returned
(`~ReusedEarly`), and for the last two no open file is renamed (`~Renames`). Both are
constants of the model, and the statements are false without them: the variants of
`StdioStreamsBuffering.cfg` in section 4 show how.

`StreamShape` says where a call can be; `LocksInv` is about the lock: what a thread holds is
what its client acquired and, in the middle of a call, one level of the call's own guard or
two inside the flush of a `vfprintf` (`LevelsOf`); a thread that closes a stream is alone with
it but for the holders it waits for (`ClosersAreAlone`), and an address the host has just
opened is in nobody else's call (`OpenersAreAlone`). These two are why clearing the state in
`fclose` and `fopen` clears nothing of a client's. `DepthsAreBounded` follows from the others
and gives the type. `BufferingInv` relates identity, I/O marks and the host's buffer: a state
that is marked as backed by the host carries the identity of now, so that `setvbuf` never
takes it for a recycled one.

### Startup and termination: `ProcessExitProofs`

For every set of threads, both arrays of any length with any slots callable, and any limits of
the list, the registrations and the stacks:

- `HandlersAccounted`: `HandlersAreAccounted`: a handler is in the list or was started, once;
  array slots are called once each, in order, and `main` runs after all constructors;
- `OrderlyTermination`: the action properties of `TerminationIsOrderly`: newest handlers
  first, no end by `exit` with a handler left, and abort's exit status as a last resort.

The proof has two layers. A step does one of five things to the stack of its thread (`Kind`):
nothing, it returns from program code, the loop on top goes on, the program calls into the
library, or a loop calls program code. `StepKinds` finds the kind of every action; the
lemmas after it say once for each kind which frames stay and which are new. `ExitIInv` is then:

- `StacksInv`: which frames a stack can hold and where; `AbortUnblocked`: from abort's
  unblocking on, SIGABRT stays unblocked in that thread, or a handler of it runs on top. Hence
  the second raise can be survived only if the disposition is no longer the default;
- `HandlersInv`: the list ascends, list and started handlers together are all registrations, and a
  started handler has returned or is on some stack. That `Len(handlers) + Len(started)` is
  `registered` makes them disjoint;
- `ArraysInv`: how far the main thread's bottom frame is tells which slots were called;
- `SignalsInv`: types.

That no slot is left out is stated by a cardinality in the invariant; `AscendingCounts` is the
bijection between the places of an ascending sequence and its elements.

### The allocator: `AllocatorProofs`

For every word, page size and size of the structures, every set of threads and page-aligned
bases, and any requests and alignments, under every interleaving of the calls and of `mmap`s and
`munmap`s that fail, with clients that write over the headers in front of their blocks:

- `AllocationsFit`: `AllocationFits`: a mapping length that was accepted has room for the record,
  the header and the payload at an aligned address, and passes every later check of the header;
  what is refused could not be held in half of the address space; nothing wraps;
- `HeapSound`: `HeapIsSound`: a granted block stays backed, aligned and unshared with the contents
  its client was promised, in a mapping that was never given back; each mapping has one record, or
  one call that will register it or ask for its removal, or is one of those a failed `munmap` left
  behind, and only one of the three. What a failed `munmap` leaves is lost: this is not a claim that
  nothing leaks, but that nothing else does.

Assumptions: `SizesAssumption` (sizes are positive, a page divides the word, which is even, and
the two structures fit in half of it), `AlignmentAssumption` (`MALLOC_ALIGNMENT` is a power of
two) and `HeapAssumption` (the kernel maps at page boundaries other than zero; arguments are
words). A power of two is defined by its divisors, so that `PowersDivide` (of two powers of two
the smaller divides the larger, which is why raising an alignment keeps it) goes by the least
counterexample.

The inductive invariant `HeapIInv` (theorem `HeapInductive`) is the conjunction of

- `HeapTypeOK`;
- `ListSound`: the listed headers are placed (record, header and payload in this order in their
  mapping) and differ in mapping and payload, so a walk of the list finds the one record of an
  address, and taking it out leaves none;
- `MappingsHeld`: the mappings are those of listed records, of the blocks that a call has in
  hand, between mapping and registering or between unregistering and unmapping, and the `refused`
  ones, all at different bases. The kernel gives
  a place out again only when it is unmapped, and `PlacedFacts` turns different
  mappings into payloads that do not overlap;
- `GrantsRecorded`: a granted block has a record of its size and alignment, with its contents;
- `CallsApart` and, for each thread, `CallShape`, `ClaimSound` and `NewSound`: what a call knows at
  the place where it is. It read a record before it let the lock go; that the record is still
  listed when it takes the lock again holds because only the owner of a block may pass it to free
  or realloc, and only this call claims it. A calloc or realloc that has linked its block has it
  to itself while it fills it, for it is granted to nobody yet.

There is one lemma per action. `CallStep` is the shared part of those that move a call along and
leave records and memory alone; `KeptOrLost` is what such a step may do to the mappings, nothing
or leave one behind. `MmapStep`, `RegisterStep`, `UnregisterStep` and `MunmapStep` change who holds
a mapping, `FillStep` writes a block that is not granted yet, and `ClientStep` is about what the
program does to its blocks.

### The environment: `TextsProofs`, first part

For every set of names, values, buffers and addresses and every list of strings the host hands
over, with names repeated and strings without `=` among them, of `EnvSpec`:

- `GetenvCurrent`: `GetenvIsCurrent`: getenv answers each name as the calls so far and the present
  texts of the buffers say, before and after the owned copy is made;
- `BorrowedStringsKept`: `BorrowedStringsStay`: a string that getenv returned stays until its own
  name is given another binding.

The one assumption, `EnvAssumption`, says that the strings of the host are pairs of a name and
a value and that a string without `=` defines no name.

The inductive invariant `EnvIInv` (theorem `EnvInductive`) says of each place getenv looks in
what it tells of a name: `AliasesTell` (a name that a buffer defines has exactly one alias, of
that buffer; it may be stale, and then getenv says that the name is not there and forgets it),
`HostTells` (the first string of a name among the host's has the value the name is bound to, and
only those strings are lent) and `OwnedTells` (the same of the owned entries, which also still
hold every string that is lent, at its address and for its name). The second property
follows from it at once; the first needs `GetenvFacts`, which follows a lookup through aliases,
the removal of a stale name's copy, the making of the owned vector and its walk.

The calls change the three places by `Vec::retain`, which the model writes as `Kept`. `KeptFacts`
shows that it takes the elements at the given indices in their order (the map it defines counts
these indices upwards, which is an argument on cardinalities). From it follow what the calls rely
on: a name none of whose elements is taken out keeps its first element and all its strings
(`KeptAgrees`), and taking out later elements of a name does not change its answer (`KeptBegins`).
Each call has a lemma; those of putenv (`PutenvSetStep`, `PutenvRemoveStep`) rest on `AliasNames`,
that the names on a buffer's aliases are those the calls bound to it, so that the names it had
before lose their copies and no others do.

### Directory streams: `TextsProofs`, second part

- `DirectoryRead`: `EntriesComeOnceInOrder` of `DirSpec`, for every directory and every way the
  kernel cuts it into buffers, with damaged records, failing calls, rewinds and streams opened
  again.

`DirStreamsAssumption`: directories are sequences of records, each of which takes some room.

`DirIInv` says that the buffer holds the records from some place of the directory up to where the
descriptor is, that the cursor is at the end of one of them (or at the start), and that the names
read are those of all records before it; or that the stream is as after rewinddir. `EndsFacts`
proves the recursive function `Ends` well defined, by the least place where it is not, and
`EndsIncrease` that records end one behind the other, so that the record at the cursor
is one record (`AtCursor`) and a cursor at the end means that none is left (`Exhausted`).

### Multibyte conversion: `TextsProofs`, third part

- `DecodedByTheTable`: `DecodingIsByTheTable` of `MbSpec`, the part of `MultibyteIsExact` that is
  about mbrtowc and the functions over it, for every set of bytes and every length of a call:
  whatever the earlier calls left, the next one answers by the table of well-formed sequences,
  what it decodes encodes to the same bytes, and the state holds exactly the bytes begun.

`MultibyteAssumption`: inputs are bytes, and a stray state (one that no call produced) is one that
the code's check of states refuses. A caller's state that the check cannot tell from a real one is
taken for it, by the code and by the theorem.

`MbIInv` is short: a state that the code would use holds the bytes begun. The work is in what one
call does. `Fits` is what the checks of the code amount to; `TableFits` shows that it is the same
as beginning with a row of the table, by the first byte (`RowFacts`). `ReadByteFacts` follows one
byte through the loop, `LoopFinds` the whole loop: it has met a byte that fits nowhere, or all
bytes are a character begun, or a character is complete and nothing behind it was read; the first
byte after which this would be false has none before it. `CompleteIsDecoded` is the arithmetic:
the bits of the bytes are put together in base 64 and come apart again. `ReadBytesFacts` and
`ConvertStringKeeps` prove the two recursive functions well defined, and the second also that the
string functions leave the state as it was or reset.

### The services: `ServicesProofs`

For every set of threads, libraries, signals, handlers, words, error numbers and objects, of
each component's specification and then of `ServicesSpec`, the composition the run checks:

- `HandleCounts` and `DlerrorReports`: the loader. `LoaderIInv` needs only types beside
  the two, the host's answer that a dlopen under way carries among them;
- `SavedSignals`: `SignalsAreKept`. `SignalIInv` adds `SetDenotes` (the words of a caller's set
  say which signals the program put in, whatever the words the kernel does not see hold);
  `SectionKept` (a thread in a section is in it at some handler depth, and every handler that
  interrupted it has saved a mask that blocks the section's signals, so a return from any of
  them cannot unblock one); and `ReplacedKept` for dispositions;
- `MutexTypesChosen`: `MutexesAreAsConfigured`, from storage that starts with anything;
- `ErrnoBelongsToCaller` and `ErrnoAndLocale`: `CallIInv` says of each thread's last call what
  the register, the answer and errno were; `LocaleRulesAgree` is about the two rules of
  `setlocale`, for every value of the variables;
- `ServicesKeepTheirPromises`: all of these, and the allocator's `HeapIsSound`, hold together.

Assumptions: `LoaderAssumption` (the host's handles differ from this library's identifiers and
the null pointer), `SignalsAssumption` (every signal has its bit in the first word, the one the
kernel fills), `CallsAssumption` (error numbers end at `MAX_ERRNO`, and the register holds
twice `SIGN_BIT` values) and `AttrsAssumption` (the default type is one of the types).

### Only model-checked

- All liveness properties: fairness is outside the prover's reach.
- Of `texts`: `Glob`, whose matcher and walk are recursive, with `GlobVectorIsWhole`; and
  `StringsRoundTrip`, the part of `MultibyteIsExact` about whole strings of wide characters.
- The properties of `texts` under the composition: `MCTexts` extends the recursive modules, so
  the theorems are about the specifications of its machines (`EnvSpec`, `DirSpec`, `MbSpec`), each
  of which takes its steps there while the others rest.
- Text and number algorithms (`texts`): what recursive definitions compute (folds over
  texts, dates, directives) needs an induction the prover cannot instantiate, and is checked
  over bounded inputs.

## 6. Not modelled, and why

- Math, fenv, setjmp, ctype, string and memory functions: functions of floating-point values
  and bytes, tables and assembly, with no state and no discrete structure that a model would
  add to.
- `crt_pipeline.rs` and `build.rs`: they run the compiler and the linker.
- The parsers in front of the text modules that only split characters (the format string into
  directives, a line of `/etc/hosts` into fields, a command line into tokens): the models start
  from what they produce. ELF headers, `readelf` and `nm` output and other file contents are
  accept-or-refuse decisions.
- Rendering of floating-point directives: the code leaves it to the host.
- Wordings of messages and reports.
- Poisoning of Rust locks by a panic: every lock of the code recovers the guard, and the
  modelled sections do not panic.
- Failure of memory allocation in `Box` and `Arc`: it aborts the process.
- Weak memory: all modelled state is under Rust locks, or accessed by one thread.
