---------------------------- MODULE StdioStreams ----------------------------
(* The stream registry of src/src/stdio/mod.rs: the recursive file locks   *)
(* of flockfile and the per-stream facts that setvbuf, fflush and vfprintf *)
(* act upon.  FILE objects belong to the host libc; the registry knows     *)
(* them by address only, and an address is given out again after fclose.   *)
(*                                                                         *)
(* One Mutex guards the registry and every critical section is one step;   *)
(* a call is several steps, with the host's part between them.  One global *)
(* Condvar wakes the threads that wait for any file lock.                  *)
(*                                                                         *)
(* buffer_size and user_buffer_addr are set and cleared together with mode *)
(* and explicit and are left out.  Calls that are refused before they read *)
(* the registry (null pointers, bad modes, a missing host symbol) change   *)
(* nothing and are left out too.                                           *)
EXTENDS Naturals, FiniteSets

CONSTANTS
  Threads,      \* thread ids
  Streams,      \* FILE* addresses
  Identities,   \* values of the hash of descriptor and /proc/self/fd target
  MaxDepth,     \* bound on the depth to which a client takes a file lock
  NoThread,
  NoIdentity,   \* no descriptor, or its link cannot be read
  NoStream,
  ReusedEarly,  \* BOOLEAN: may the host reuse an address before the fclose
                \* that freed it has returned?
  Renames       \* BOOLEAN: may an open file be renamed or removed?

ASSUME StdioAssumption ==
  /\ MaxDepth \in Nat \ {0}
  /\ NoThread \notin Threads /\ NoIdentity \notin Identities /\ NoStream \notin Streams
  /\ ReusedEarly \in BOOLEAN /\ Renames \in BOOLEAN

VARIABLES
  standard,     \* the addresses of the host's stdin, stdout and stderr
  open,         \* the host has a FILE at the address
  identity,     \* what read_host_stream_identity returns for it
  buffered,     \* the host's buffer holds bytes a write left there
  tracked,      \* the registry: the state of each address, or Untracked
  sleepers,     \* threads asleep on the registry's Condvar
  pc,           \* where each thread is in its call
  op,           \* the call, and the address it is about
  stream,
  mode_before,  \* vfprintf's explicit_mode_before_write
  nested,       \* the thread is in the fflush that vfprintf calls
  published,    \* addresses a client was given and has not closed
  held,         \* levels of the lock of an address a thread acquired
  used          \* I/O was done and tracked since the address was opened

host == <<standard, open, identity, buffered>>
clients == <<published, held, used>>
call == <<pc, op, stream, mode_before, nested>>
vars == <<host, tracked, sleepers, call, clients>>

Untracked == [owner |-> NoThread]
Modes == {"IONBF", "IOLBF", "IOFBF"}
Calls == {"flockfile", "funlockfile", "fopen", "fclose", "fflush", "fflush_all",
          "setvbuf", "vfprintf", "fputs", "none"}
Places ==
  {"out",
   "blocked",      \* in lock_stream_file_internal, asleep or just woken
   "locked",       \* the StreamFileLockGuard was acquired
   "choosing", "deciding", "internal", "delegated",  \* inside vfprintf
   "wrote",        \* the host took the bytes, the stream is yet to be marked
   "failed",       \* the host's vfprintf failed, the same
   "flushing",     \* marked by fflush, the host's fflush is next
   "marked",       \* by fflush(NULL)
   "flush_next",   \* vfprintf is about to call fflush
   "releasing",    \* the guard is about to be dropped
   "closed",       \* the host closed the stream, its state is still tracked
   "opened",       \* the host opened a stream, a stale state may be tracked
   "notifying"}    \* the registry is unlocked, notify_all is next

StreamState ==
  [mode : Modes, explicit : BOOLEAN, io_active : BOOLEAN, host_backed : BOOLEAN,
   identity : Identities \cup {NoIdentity}, owner : Threads \cup {NoThread},
   depth : 0..MaxDepth + 2]
FreshState ==
  [mode |-> "IONBF", explicit |-> FALSE, io_active |-> FALSE, host_backed |-> FALSE,
   identity |-> NoIdentity, owner |-> NoThread, depth |-> 0]

StreamTypeOK ==
  /\ standard \subseteq Streams
  /\ open \in [Streams -> BOOLEAN]
  /\ identity \in [Streams -> Identities \cup {NoIdentity}]
  /\ buffered \in [Streams -> BOOLEAN]
  /\ tracked \in [Streams -> StreamState \cup {Untracked}]
  /\ \A s \in Streams : tracked[s] # Untracked =>
       (tracked[s].owner = NoThread) = (tracked[s].depth = 0)
  /\ sleepers \subseteq Threads
  /\ pc \in [Threads -> Places]
  /\ op \in [Threads -> Calls]
  /\ stream \in [Threads -> Streams \cup {NoStream}]
  /\ mode_before \in [Threads -> Modes \cup {"unset"}]
  /\ nested \in [Threads -> BOOLEAN]
  /\ published \in [Streams -> BOOLEAN]
  /\ held \in [Threads -> [Streams -> 0..MaxDepth + 2]]
  /\ used \in [Streams -> BOOLEAN]

Init ==
  /\ standard \in SUBSET Streams
  /\ open = [s \in Streams |-> s \in standard]
  /\ identity \in [Streams -> Identities \cup {NoIdentity}]
  /\ buffered = [s \in Streams |-> FALSE]
  /\ tracked = [s \in Streams |-> Untracked]
  /\ sleepers = {}
  /\ pc = [t \in Threads |-> "out"]
  /\ op = [t \in Threads |-> "none"]
  /\ stream = [t \in Threads |-> NoStream]
  /\ mode_before = [t \in Threads |-> "unset"]
  /\ nested = [t \in Threads |-> FALSE]
  /\ published = [s \in Streams |-> s \in standard]
  /\ held = [t \in Threads |-> [s \in Streams |-> 0]]
  /\ used = [s \in Streams |-> FALSE]

---------------------------------------------------------------------------
(* stream_state_mut_or_insert, and the update of a state.                  *)
StateOf(s) == IF tracked[s] = Untracked THEN FreshState ELSE tracked[s]
Track(s, state) == tracked' = [tracked EXCEPT ![s] = state]

Goto(t, place) == pc' = [pc EXCEPT ![t] = place]
(* A call ends; fopen hands its address to the program.                    *)
Return(t) ==
  /\ IF nested[t]
     THEN /\ Goto(t, "releasing")
          /\ nested' = [nested EXCEPT ![t] = FALSE]
          /\ UNCHANGED <<op, stream, mode_before, published>>
     ELSE /\ Goto(t, "out")
          /\ op' = [op EXCEPT ![t] = "none"]
          /\ stream' = [stream EXCEPT ![t] = NoStream]
          /\ mode_before' = [mode_before EXCEPT ![t] = "unset"]
          /\ published' = IF op[t] = "fopen" THEN [published EXCEPT ![stream[t]] = TRUE]
                                             ELSE published
          /\ UNCHANGED nested

(* What a correct program does: it uses a stream from fopen's return to    *)
(* the call of fclose, and afterwards only to give back its file lock.     *)
InCallOn(t, s) == pc[t] # "out" /\ stream[t] = s
Closing(s) ==
  \E t \in Threads : op[t] = "fclose" /\ stream[t] = s /\ pc[t] \in {"blocked", "locked"}
MayCall(t, s) ==
  /\ pc[t] = "out"
  /\ published[s]
  /\ Closing(s) => held[t][s] > 0

Begin(t, s, name) ==
  /\ op' = [op EXCEPT ![t] = name]
  /\ stream' = [stream EXCEPT ![t] = s]
  /\ UNCHANGED <<mode_before, nested>>

---------------------------------------------------------------------------
(* One pass of the loop of lock_stream_file_internal.                      *)
TakeLock(t, s) ==
  LET state == StateOf(s) IN
  /\ state.owner \in {NoThread, t}
  /\ Track(s, [state EXCEPT !.owner = t, !.depth = @ + 1])
  /\ held' = [held EXCEPT ![t][s] = @ + 1]

WaitForLock(t, s) ==
  /\ tracked[s].owner \notin {NoThread, t}
  /\ sleepers' = sleepers \cup {t}
  /\ UNCHANGED <<tracked, held>>

LockPass(t, s) ==
  \/ TakeLock(t, s) /\ Goto(t, "locked") /\ UNCHANGED sleepers
  \/ WaitForLock(t, s) /\ Goto(t, "blocked")

Guarded(t, s, name) ==
  /\ MayCall(t, s)
  /\ Begin(t, s, name)
  /\ LockPass(t, s)
  /\ UNCHANGED <<host, published, used>>

Recontend(t) ==
  /\ pc[t] = "blocked" /\ t \notin sleepers
  /\ LockPass(t, stream[t])
  /\ UNCHANGED <<host, op, stream, mode_before, nested, published, used>>

SpuriousWake(t) ==
  /\ t \in sleepers
  /\ sleepers' = sleepers \ {t}
  /\ UNCHANGED <<host, tracked, call, clients>>

(* flockfile, and ftrylockfile when it gets the lock (EBUSY changes        *)
(* nothing: the stream is tracked already).                                *)
Flockfile(t, s) == held[t][s] < MaxDepth /\ Guarded(t, s, "flockfile")

FlockfileReturn(t) ==
  /\ pc[t] = "locked" /\ op[t] = "flockfile"
  /\ Return(t)
  /\ UNCHANGED <<host, tracked, sleepers, held, used>>

Ftrylockfile(t, s) ==
  /\ MayCall(t, s) /\ held[t][s] < MaxDepth
  /\ TakeLock(t, s)
  /\ UNCHANGED <<host, sleepers, call, published, used>>

(* funlockfile, also called when a StreamFileLockGuard is dropped: it does *)
(* nothing unless the thread owns the lock.                                *)
LastLevel(t, s) == tracked[s].owner = t /\ tracked[s].depth = 1

MutUnlockPass_AlwaysPrunes(t, s) ==
  /\ held' = [held EXCEPT ![t][s] = @ - 1]
  /\ IF LastLevel(t, s)
     THEN tracked' = [tracked EXCEPT ![s] = Untracked]
     ELSE IF tracked[s].owner = t
          THEN Track(s, [tracked[s] EXCEPT !.depth = @ - 1])
          ELSE UNCHANGED tracked

MutUnlockPass_KeepsOwner(t, s) ==
  /\ held' = [held EXCEPT ![t][s] = @ - 1]
  /\ IF tracked[s].owner = t
     THEN Track(s, [tracked[s] EXCEPT !.depth = @ - 1])
     ELSE UNCHANGED tracked

MutUnlockPass_FreesAtOnce(t, s) ==
  /\ held' = [held EXCEPT ![t][s] = @ - 1]
  /\ IF tracked[s].owner = t
     THEN LET freed == [tracked[s] EXCEPT !.owner = NoThread, !.depth = 0] IN
          Track(s, IF freed = FreshState THEN Untracked ELSE freed)
     ELSE UNCHANGED tracked

UnlockPass(t, s) ==
  /\ held' = [held EXCEPT ![t][s] = @ - 1]
  /\ IF LastLevel(t, s)
     THEN LET freed == [tracked[s] EXCEPT !.owner = NoThread, !.depth = 0] IN
          Track(s, IF freed = FreshState THEN Untracked ELSE freed)
     ELSE IF tracked[s].owner = t
          THEN Track(s, [tracked[s] EXCEPT !.depth = @ - 1])
          ELSE UNCHANGED tracked

MutFunlockfile_NoNotify(t, s) ==
  /\ MayCall(t, s) /\ held[t][s] > 0
  /\ UnlockPass(t, s)
  /\ UNCHANGED <<host, sleepers, call, published, used>>

Funlockfile(t, s) ==
  /\ MayCall(t, s) /\ held[t][s] > 0
  /\ UnlockPass(t, s)
  /\ IF LastLevel(t, s) THEN Begin(t, s, "funlockfile") /\ Goto(t, "notifying")
                         ELSE UNCHANGED call
  /\ UNCHANGED <<host, sleepers, published, used>>

Release(t) ==
  /\ pc[t] = "releasing"
  /\ UnlockPass(t, stream[t])
  /\ \/ /\ LastLevel(t, stream[t])
        /\ Goto(t, "notifying")
        /\ UNCHANGED <<op, stream, mode_before, nested, published>>
     \/ ~LastLevel(t, stream[t]) /\ Return(t)
  /\ UNCHANGED <<host, sleepers, used>>

Notify(t) ==
  /\ pc[t] = "notifying"
  /\ sleepers' = {}
  /\ Return(t)
  /\ UNCHANGED <<host, tracked, held, used>>

---------------------------------------------------------------------------
(* fopen and tmpfile: the host opens a stream, at an address of its choice *)
(* and over some descriptor; then what is tracked of the address is        *)
(* dropped.                                                                *)
Fopen(t, s) ==
  /\ pc[t] = "out"
  /\ s \notin standard /\ ~open[s]
  /\ ReusedEarly \/ \A u \in Threads : ~(op[u] = "fclose" /\ InCallOn(u, s))
  /\ open' = [open EXCEPT ![s] = TRUE]
  /\ \E id \in Identities \cup {NoIdentity} : identity' = [identity EXCEPT ![s] = id]
  /\ used' = [used EXCEPT ![s] = FALSE]
  /\ Begin(t, s, "fopen") /\ Goto(t, "opened")
  /\ UNCHANGED <<standard, buffered, tracked, sleepers, published, held>>

(* fclose: acquires the file lock, lets the host close the stream, disarms *)
(* the guard and drops what is tracked of the address, the lock with it.   *)
Fclose(t, s) ==
  /\ ~Closing(s)
  /\ \A u \in Threads : ~InCallOn(u, s)
  /\ Guarded(t, s, "fclose")

HostClose(t) ==
  /\ pc[t] = "locked" /\ op[t] = "fclose"
  /\ LET s == stream[t] IN
     /\ open' = [open EXCEPT ![s] = FALSE]
     /\ buffered' = [buffered EXCEPT ![s] = FALSE]
     /\ published' = [published EXCEPT ![s] = FALSE]
     /\ held' = [u \in Threads |-> [held[u] EXCEPT ![s] = 0]]
  /\ Goto(t, "closed")
  /\ UNCHANGED <<standard, identity, tracked, sleepers, op, stream, mode_before, nested, used>>

MutClearTracking_Never(t) ==
  /\ pc[t] \in {"closed", "opened"}
  /\ Return(t)
  /\ UNCHANGED <<host, tracked, sleepers, held, used>>

(* clear_stream_tracking_state                                             *)
ClearTracking(t) ==
  /\ pc[t] \in {"closed", "opened"}
  /\ IF tracked[stream[t]] # Untracked
     THEN /\ tracked' = [tracked EXCEPT ![stream[t]] = Untracked]
          /\ Goto(t, "notifying")
          /\ UNCHANGED <<op, stream, mode_before, nested, published>>
     ELSE Return(t) /\ UNCHANGED tracked
  /\ UNCHANGED <<host, sleepers, held, used>>

---------------------------------------------------------------------------
(* mark_stream_as_io_active; the entry of a standard stream is also marked *)
(* as backed by the host.                                                  *)
WithIo(s) ==
  IF s \in standard
  THEN [StateOf(s) EXCEPT !.io_active = TRUE, !.host_backed = TRUE, !.identity = identity[s]]
  ELSE [StateOf(s) EXCEPT !.io_active = TRUE]

MutWithHostIo_NotBacked(s) == [StateOf(s) EXCEPT !.io_active = TRUE, !.identity = identity[s]]

(* mark_stream_as_host_io_active: a stream whose identity changed loses    *)
(* its buffering configuration.                                            *)
WithHostIo(s) ==
  LET state == StateOf(s)
      recycled == /\ state.identity # NoIdentity /\ identity[s] # NoIdentity
                  /\ state.identity # identity[s]
      kept == IF recycled THEN [state EXCEPT !.mode = "IONBF", !.explicit = FALSE] ELSE state
  IN [kept EXCEPT !.io_active = TRUE, !.host_backed = TRUE, !.identity = identity[s]]

MarkUsed(s) == used' = [used EXCEPT ![s] = TRUE]

(* fflush(stream), called by the program or by vfprintf.                   *)
InFflush(t) == pc[t] = "locked" /\ (op[t] = "fflush" \/ nested[t])

FlushMark(t) ==
  LET s == stream[t] IN
  /\ InFflush(t)
  /\ Track(s, WithIo(s))
  /\ MarkUsed(s)
  /\ Goto(t, IF WithIo(s).host_backed THEN "flushing" ELSE "releasing")
  /\ UNCHANGED <<host, sleepers, op, stream, mode_before, nested, published, held>>

HostFlush(t) ==
  /\ pc[t] = "flushing"
  /\ \/ buffered' = [buffered EXCEPT ![stream[t]] = FALSE]
     \/ UNCHANGED buffered                       \* the host's fflush fails
  /\ Goto(t, "releasing")
  /\ UNCHANGED <<standard, open, identity, tracked, sleepers, op, stream, mode_before, nested, clients>>

(* fflush(NULL): every tracked stream and the standard ones are marked,    *)
(* without their file locks; then the host flushes everything.             *)
MarkAll(t) ==
  /\ pc[t] = "out"
  /\ tracked' = [s \in Streams |->
       IF s \in standard \/ tracked[s] # Untracked THEN WithIo(s) ELSE Untracked]
  /\ used' = [s \in Streams |-> used[s] \/ s \in standard \/ tracked[s] # Untracked]
  /\ Begin(t, NoStream, "fflush_all") /\ Goto(t, "marked")
  /\ UNCHANGED <<host, sleepers, published, held>>

HostFlushAll(t) ==
  /\ pc[t] = "marked"
  /\ buffered' = [s \in Streams |-> FALSE] \/ UNCHANGED buffered
  /\ Return(t)
  /\ UNCHANGED <<standard, open, identity, tracked, sleepers, held, used>>

---------------------------------------------------------------------------
(* setvbuf: a state left by another file behind the same address is        *)
(* recognised by its identity; a stream with I/O is not reconfigured.      *)
MutConfigurable_AnyBacked(s) ==
  IF StateOf(s).io_active /\ StateOf(s).host_backed
  THEN [StateOf(s) EXCEPT !.io_active = FALSE, !.host_backed = FALSE, !.identity = identity[s]]
  ELSE StateOf(s)

Configurable(s) ==
  LET state == StateOf(s)
      recycled == /\ state.io_active /\ state.host_backed
                  /\ identity[s] # NoIdentity /\ state.identity # identity[s]
  IN IF recycled
     THEN [state EXCEPT !.io_active = FALSE, !.host_backed = FALSE, !.identity = identity[s]]
     ELSE state

InSetvbuf(t) == pc[t] = "locked" /\ op[t] = "setvbuf"

SetvbufRefused(t) ==
  /\ InSetvbuf(t)
  /\ Configurable(stream[t]).io_active
  /\ Track(stream[t], Configurable(stream[t]))
  /\ Goto(t, "releasing")
  /\ UNCHANGED <<host, sleepers, op, stream, mode_before, nested, clients>>

SetvbufApply(t, mode) ==
  /\ InSetvbuf(t)
  /\ ~Configurable(stream[t]).io_active
  /\ Track(stream[t], [Configurable(stream[t]) EXCEPT
       !.mode = mode, !.explicit = TRUE, !.host_backed = FALSE, !.identity = NoIdentity])
  /\ Goto(t, "releasing")
  /\ UNCHANGED <<host, sleepers, op, stream, mode_before, nested, clients>>

---------------------------------------------------------------------------
(* vfprintf (printf, vprintf and fprintf): it reads the registry three     *)
(* times, with other calls in between, before it writes.                   *)
ExplicitMode(s) == IF StateOf(s).explicit THEN StateOf(s).mode ELSE "unset"

ReadMode(t) ==
  /\ pc[t] = "locked" /\ op[t] = "vfprintf" /\ ~nested[t]
  /\ mode_before' = [mode_before EXCEPT ![t] = ExplicitMode(stream[t])]
  /\ Goto(t, "choosing")
  /\ UNCHANGED <<host, tracked, sleepers, op, stream, nested, clients>>

CheckExplicit(t) ==
  /\ pc[t] = "choosing"
  /\ Goto(t, IF ExplicitMode(stream[t]) # "unset" THEN "delegated" ELSE "deciding")
  /\ UNCHANGED <<host, tracked, sleepers, op, stream, mode_before, nested, clients>>

(* The internal formatter, for the formats it supports, or the host's.     *)
ChoosePath(t) ==
  /\ pc[t] = "deciding"
  /\ \/ Goto(t, "delegated")
     \/ /\ StateOf(stream[t]).io_active /\ ~StateOf(stream[t]).host_backed
        /\ Goto(t, "internal")
  /\ UNCHANGED <<host, tracked, sleepers, op, stream, mode_before, nested, clients>>

(* The internal path writes to the descriptor, or fails before it does.    *)
InternalWrite(t) ==
  /\ pc[t] = "internal"
  /\ \/ Track(stream[t], WithIo(stream[t])) /\ MarkUsed(stream[t])
     \/ UNCHANGED <<tracked, used>>
  /\ Goto(t, "releasing")
  /\ UNCHANGED <<host, sleepers, op, stream, mode_before, nested, published, held>>

HostWrite(t) ==
  /\ pc[t] = "delegated"
  /\ \/ Goto(t, "wrote") /\ \E left \in BOOLEAN : buffered' = [buffered EXCEPT ![stream[t]] = left]
     \/ Goto(t, "failed") /\ UNCHANGED buffered
  /\ UNCHANGED <<standard, open, identity, tracked, sleepers, op, stream, mode_before, nested, clients>>

(* The stream is marked in either case, and flushed after a successful     *)
(* write if it was configured unbuffered, or line buffered and a newline   *)
(* was (or may have been) written.                                         *)
MarkAfterWrite(t) ==
  /\ op[t] = "vfprintf" /\ pc[t] \in {"wrote", "failed"}
  /\ Track(stream[t], WithHostIo(stream[t]))
  /\ MarkUsed(stream[t])
  /\ \/ Goto(t, "flush_next") /\ pc[t] = "wrote" /\ mode_before[t] \in {"IONBF", "IOLBF"}
     \/ Goto(t, "releasing") /\ (pc[t] = "failed" \/ mode_before[t] # "IONBF")
  /\ UNCHANGED <<host, sleepers, op, stream, mode_before, nested, published, held>>

NestedFlush(t) ==
  /\ pc[t] = "flush_next"
  /\ LockPass(t, stream[t])
  /\ nested' = [nested EXCEPT ![t] = TRUE]
  /\ UNCHANGED <<host, op, stream, mode_before, published, used>>

---------------------------------------------------------------------------
(* fputs and fread take no file lock: the host works first, a transfer is  *)
(* entered in the registry afterwards.                                     *)
HostTransfer(t, s) ==
  /\ MayCall(t, s)
  /\ \E left \in {TRUE, buffered[s]} : buffered' = [buffered EXCEPT ![s] = left]
  /\ Begin(t, s, "fputs") /\ Goto(t, "wrote")
  /\ UNCHANGED <<standard, open, identity, tracked, sleepers, clients>>

MarkTransfer(t) ==
  /\ pc[t] = "wrote" /\ op[t] = "fputs"
  /\ Track(stream[t], WithHostIo(stream[t]))
  /\ MarkUsed(stream[t])
  /\ Return(t)
  /\ UNCHANGED <<host, sleepers, held>>

(* The file of an open stream is renamed or removed, or its descriptor is  *)
(* pointed elsewhere: the target of its link in /proc/self/fd changes.     *)
Relink(s) ==
  /\ Renames
  /\ open[s] /\ identity[s] # NoIdentity
  /\ \E id \in Identities : identity' = [identity EXCEPT ![s] = id]
  /\ UNCHANGED <<standard, open, buffered, tracked, sleepers, call, clients>>

---------------------------------------------------------------------------
ClientCall(t, s) ==
  \/ Flockfile(t, s) \/ Ftrylockfile(t, s) \/ Funlockfile(t, s)
  \/ Fopen(t, s) \/ Fclose(t, s)
  \/ Guarded(t, s, "fflush") \/ Guarded(t, s, "setvbuf") \/ Guarded(t, s, "vfprintf")
  \/ HostTransfer(t, s)

Progress(t) ==
  \/ Recontend(t) \/ FlockfileReturn(t) \/ Release(t) \/ Notify(t)
  \/ HostClose(t) \/ ClearTracking(t)
  \/ FlushMark(t) \/ HostFlush(t) \/ HostFlushAll(t)
  \/ SetvbufRefused(t) \/ \E mode \in Modes : SetvbufApply(t, mode)
  \/ ReadMode(t) \/ CheckExplicit(t) \/ ChoosePath(t)
  \/ InternalWrite(t) \/ HostWrite(t) \/ MarkAfterWrite(t) \/ NestedFlush(t)
  \/ MarkTransfer(t)

Next ==
  \/ \E t \in Threads :
       \/ \E s \in Streams : ClientCall(t, s)
       \/ MarkAll(t)
       \/ Progress(t)
       \/ SpuriousWake(t)
  \/ \E s \in Streams : Relink(s)

Spec == Init /\ [][Next]_vars
FairSpec == Spec /\ \A t \in Threads : WF_vars(Progress(t))

---------------------------------------------------------------------------
(* flockfile "blocks until another owning thread releases the lock"        *)
(* (stdio/mod.rs:2344): the owner and the depth in the registry are those  *)
(* of the thread whose calls acquired the lock of the open stream, so no   *)
(* two threads hold it.                                                    *)
FileLockMatchesClients ==
  \A s \in Streams, t \in Threads :
    published[s] =>
      held[t][s] = IF StateOf(s).owner = t THEN StateOf(s).depth ELSE 0

(* setvbuf refuses a stream that "has already observed I/O activity"       *)
(* (stdio/mod.rs:2936): it never reconfigures a stream after a transfer or *)
(* a flush of that stream has been completed.                              *)
SetvbufPrecedesIo ==
  [][\A t \in Threads : (\E mode \in Modes : SetvbufApply(t, mode)) => ~used[stream[t]]]_vars

(* A flush of one stream reaches the host whenever it has to: bytes that a *)
(* completed write left in the host's buffer belong to a stream that is    *)
(* tracked as backed by the host.                                          *)
Unreported(s) == \E t \in Threads : stream[t] = s /\ pc[t] = "wrote"
HostBytesAreTracked ==
  \A s \in Streams :
    published[s] /\ buffered[s] /\ ~Unreported(s) =>
      tracked[s] # Untracked /\ tracked[s].host_backed

(* What setvbuf accepted stays in force until the stream is closed.        *)
ConfigurationIsKept ==
  [][\A s \in Streams :
       published[s] /\ published'[s] /\ tracked[s] # Untracked /\ tracked[s].explicit
         => tracked'[s] # Untracked /\ tracked'[s].explicit]_vars

(* fclose and fopen remove what is tracked of an address "to avoid stale   *)
(* pointer-key reuse" (stdio/mod.rs:2701): a new stream starts unlocked,   *)
(* unconfigured and without I/O, whatever its address was used for before. *)
OpenedIsFresh ==
  [][\A s \in Streams :
       ~published[s] /\ published'[s] => tracked'[s] = Untracked]_vars

(* A free file lock that threads sleep for is taken: by one of them, or by *)
(* another caller.                                                         *)
FreeFileLockIsTaken ==
  \A s \in Streams :
    (StateOf(s).owner = NoThread /\ \E t \in sleepers : stream[t] = s)
       ~> StateOf(s).owner # NoThread

(* The registry of streams is well-formed and says of every open stream    *)
(* who holds its file lock and how often.                                  *)
FileLocksAreSound == StreamTypeOK /\ FileLockMatchesClients

(* setvbuf decides before the first I/O and for good: it is refused after  *)
(* a transfer, and what it accepted is not forgotten before the close.     *)
SetvbufIsFinal == SetvbufPrecedesIo /\ ConfigurationIsKept
=============================================================================
