------------------------------- MODULE Loader -------------------------------
(***************************************************************************)
(* dlopen, dlclose, dlsym and dlerror of dlfcn.rs.                         *)
(*                                                                         *)
(* The registry keeps a count for every handle that dlopen returned. It is *)
(* changed under its Mutex, and dlsym keeps the Mutex for the whole lookup;*)
(* dlopen calls the host's loader before it takes it. Messages are kept    *)
(* per thread, here and in the host's loader.                              *)
(*                                                                         *)
(* A message is [what, detail]: which message, and whether a detail of the *)
(* host is appended to it that is of the same call ("own") or of an        *)
(* earlier one ("stale"). errno and the wording are left out.              *)
(***************************************************************************)
EXTENDS DlSymbols, Integers, Sequences

CONSTANTS
  LoaderThreads,
  Libraries,       \* handles of the host for libraries opened by path
  HostMain,        \* the host's handle for the main program
  Forged,          \* a value that no dlopen returned
  MaxOpens         \* bound on the successful dlopens of one handle

VARIABLES
  handles,         \* by handle: absent, closed or open with a count
  internal_handles, main_program_handles,
  host_loader,     \* whether the host's functions could be resolved
  pending,         \* by thread: DlErrorState.pending_message
  host_pending,    \* by thread: the host has a pending message of an earlier call
  opening,         \* by thread: the handle the host returned to a dlopen
  held,            \* ghost: by handle, successful dlopens less dlcloses
  failed           \* ghost: by thread, the last failure since dlerror was read

loader_vars == <<handles, internal_handles, main_program_handles, host_loader,
                 pending, host_pending, opening, held, failed>>

InternalMain == "INTERNAL_MAIN_PROGRAM_HANDLE_ID"
InternalSelf == "INTERNAL_PROC_SELF_EXE_HANDLE_ID"
RTLD_DEFAULT == "RTLD_DEFAULT"   \* the null pointer
RTLD_NEXT == "RTLD_NEXT"
NoHandle == "none"

Handles == Libraries \cup {HostMain, InternalMain, InternalSelf, Forged}

\* The two internal handles are identifiers of this library, and the null
\* pointer is no handle: the host's loader returns none of them.
ASSUME LoaderAssumption ==
  {InternalMain, InternalSelf, NoHandle} \cap (Libraries \cup {HostMain}) = {}

Absent == [state |-> "absent", refcount |-> 0]
Closed == [state |-> "closed", refcount |-> 0]
Open(n) == [state |-> "open", refcount |-> n]

Message(what, detail) == [what |-> what, detail |-> detail]
NoMessage == Message("none", "none")

-----------------------------------------------------------------------------
(* The registry, under its Mutex *)

\* A close of a handle that is open more than once forgets the other opens.
MutCloseHandle_Always(h) == handles' = [handles EXCEPT ![h] = Closed]

\* The count of register_open_handle_with_origin. Handles are far from the end
\* of the address range, where the code keeps no entry, and counts far from
\* saturation.
RegisterOpen(h) ==
  handles' = [handles EXCEPT ![h] = IF @.state = "open" THEN Open(@.refcount + 1) ELSE Open(1)]

SetHandleOrigin(h, is_internal, is_main_program) ==
  /\ internal_handles' =
       IF is_internal THEN internal_handles \cup {h} ELSE internal_handles \ {h}
  /\ main_program_handles' =
       IF is_main_program THEN main_program_handles \cup {h} ELSE main_program_handles \ {h}

register_open_handle_with_origin(h, is_internal, is_main_program) ==
  /\ RegisterOpen(h)
  /\ SetHandleOrigin(h, is_internal, is_main_program)
  /\ held' = [held EXCEPT ![h] = @ + 1]

register_open_main_program_handle(h) ==
  register_open_handle_with_origin(h, h = InternalMain, TRUE)

CloseHandle(h) ==
  handles' = [handles EXCEPT ![h] =
                IF @.refcount > 1 THEN Open(@.refcount - 1) ELSE Closed]

is_open(h) == handles[h].state = "open"

\* What dlclose and dlsym say of a handle that is not open.
NotOpenMessage(h) == IF handles[h].state = "closed" THEN "ALREADY_CLOSED" ELSE "INVALID_HANDLE"

-----------------------------------------------------------------------------
(* Messages and errno *)

LoaderIdle(t) == opening[t] = NoHandle

\* set_dlerror_message and set_dlerror_message_with_detail.
SetDlerror(t, what, detail) ==
  /\ pending' = [pending EXCEPT ![t] = Message(what, detail)]
  /\ failed' = [failed EXCEPT ![t] = what]

\* clear_host_dlerror_state is left out before a host call.
MutHostBefore_NotCleared(t) == host_pending[t]

\* Whether the host still has an old message when it is called:
\* clear_host_dlerror_state reads it away.
HostBefore(t) == FALSE

\* The details take_host_dlerror_message may find after a host call that
\* returned null: the host's message of this call, or, when the host had
\* nothing to say, whatever was there before.
HostDetails(t) == {"own", IF HostBefore(t) THEN "stale" ELSE "none"}

\* After a host call that worked an old message is still there; after one that
\* returned null it has been taken.
HostWorked(t) == host_pending' = [host_pending EXCEPT ![t] = HostBefore(t)]
HostAsked(t) == host_pending' = [host_pending EXCEPT ![t] = FALSE]

\* Other code of the process uses the host's loader in this thread and leaves
\* its message unread; so do the lookups of resolve_host_symbol.
HostFailsElsewhere(t) ==
  /\ LoaderIdle(t) /\ ~host_pending[t]
  /\ host_pending' = [host_pending EXCEPT ![t] = TRUE]
  /\ UNCHANGED <<handles, internal_handles, main_program_handles, host_loader, pending,
                 opening, held, failed>>

-----------------------------------------------------------------------------
(* dlopen *)

Fails(t, what, detail) ==
  /\ SetDlerror(t, what, detail)
  /\ UNCHANGED <<handles, internal_handles, main_program_handles, opening, held>>

\* Unsupported flags, or not exactly one of RTLD_LAZY and RTLD_NOW.
DlopenBadFlags(t) ==
  /\ Fails(t, "DLOPEN_INVALID_FLAGS", "none")
  /\ UNCHANGED host_pending

\* validate_elf_image: the file cannot be opened, is short or has no ELF magic.
DlopenBadFile(t) ==
  /\ \E what \in {"DLOPEN_PATH_OPEN_FAILED", "DLOPEN_NOT_ELF"} : Fails(t, what, "none")
  /\ UNCHANGED host_pending

\* /proc/self/exe, under any name: no call of the host.
DlopenSelf(t) ==
  /\ held[InternalSelf] < MaxOpens
  /\ register_open_handle_with_origin(InternalSelf, TRUE, FALSE)
  /\ UNCHANGED <<pending, failed, opening, host_pending>>

\* A null filename without the host's dlopen.
DlopenMainInternal(t) ==
  /\ ~host_loader
  /\ held[InternalMain] < MaxOpens
  /\ register_open_main_program_handle(InternalMain)
  /\ UNCHANGED <<pending, failed, opening, host_pending>>

DlopenHostUnavailable(t) ==
  /\ ~host_loader
  /\ Fails(t, "HOST_DLOPEN_UNAVAILABLE", "none")
  /\ UNCHANGED host_pending

\* A null filename or a path of a library, with the host's dlopen.
DlopenHostFails(t) ==
  /\ host_loader
  /\ \E detail \in HostDetails(t) : Fails(t, "HOST_DLOPEN_FAILED", detail)
  /\ HostAsked(t)

DlopenHostWorks(t, h) ==
  /\ host_loader
  /\ held[h] + Cardinality({u \in LoaderThreads : opening[u] = h}) < MaxOpens
  /\ opening' = [opening EXCEPT ![t] = h]
  /\ HostWorked(t)
  /\ UNCHANGED <<handles, internal_handles, main_program_handles, pending, failed, held>>

\* The rest of dlopen: the handle is registered.
DlopenRegister(t) ==
  /\ opening[t] # NoHandle
  /\ IF opening[t] = HostMain
     THEN register_open_main_program_handle(HostMain)
     ELSE register_open_handle_with_origin(opening[t], FALSE, FALSE)
  /\ opening' = [opening EXCEPT ![t] = NoHandle]
  /\ UNCHANGED <<host_loader, pending, host_pending, failed>>

dlopen(t) ==
  /\ LoaderIdle(t)
  /\ \/ DlopenBadFlags(t)
     \/ DlopenBadFile(t)
     \/ DlopenSelf(t)
     \/ DlopenMainInternal(t)
     \/ DlopenHostUnavailable(t)
     \/ DlopenHostFails(t)
     \/ \E h \in Libraries \cup {HostMain} : DlopenHostWorks(t, h)
  /\ UNCHANGED host_loader

-----------------------------------------------------------------------------
(* dlclose, dlerror *)

dlclose(t, h) ==
  /\ LoaderIdle(t)
  /\ IF is_open(h)
     THEN /\ CloseHandle(h)
          /\ held' = [held EXCEPT ![h] = @ - 1]
          /\ UNCHANGED <<pending, failed>>
     ELSE /\ SetDlerror(t, NotOpenMessage(h), "none")
          /\ UNCHANGED <<handles, held>>
  /\ UNCHANGED <<internal_handles, main_program_handles, host_loader, host_pending, opening>>

\* take_message_ptr.
dlerror(t) ==
  /\ LoaderIdle(t)
  /\ pending' = [pending EXCEPT ![t] = NoMessage]
  /\ failed' = [failed EXCEPT ![t] = "none"]
  /\ UNCHANGED <<handles, internal_handles, main_program_handles, host_loader, host_pending,
                 opening, held>>

-----------------------------------------------------------------------------
(* dlsym, under the Mutex unless the handle is one of the two special values *)

classify_dlsym_handle(h) ==
  CASE h = RTLD_DEFAULT -> "Default"
    [] h = RTLD_NEXT -> "Next"
    [] h \in Handles /\ is_open(h) /\ h \in main_program_handles -> "MainProgram"
    [] h \in Handles /\ is_open(h) /\ h \in internal_handles \ main_program_handles -> "Internal"
    [] h \in Handles /\ is_open(h) /\ h \notin internal_handles \cup main_program_handles ->
         "External"
    [] OTHER -> "NotOpen"

\* The names: one of this library's, one that only the host knows and one that
\* nobody knows, whichever handle the host is asked with. A null symbol is a
\* caller's mistake that is reported.
SymbolNames == {"getenv", "host_only", "missing", "NULL"}
HostKnows(symbol) == symbol \in {"getenv", "host_only"}

\* Who answers a lookup: this library, the host, or nobody.
Resolution(h, kind, symbol) ==
  LET here == resolve_rlibc_symbol(symbol)
      there == host_loader /\ HostKnows(symbol)
  IN CASE kind \in {"Internal", "Default", "MainProgram"} /\ here -> "rlibc"
       [] kind = "Internal" /\ ~here /\ h = InternalSelf /\ there -> "host"
       [] kind \in {"Default", "MainProgram", "External", "Next"} /\ there
            /\ ~(kind \in {"Default", "MainProgram"} /\ here) -> "host"
       [] kind = "Next" /\ ~there /\ here -> "rlibc"
       [] OTHER -> "nobody"

\* Whether the host was asked on the way.
HostIsAsked(h, kind, symbol) ==
  /\ host_loader
  /\ IF kind = "Internal" THEN h = InternalSelf /\ ~resolve_rlibc_symbol(symbol)
     ELSE ~(kind \in {"Default", "MainProgram"} /\ resolve_rlibc_symbol(symbol))

dlsym(t, h, symbol) ==
  LET kind == classify_dlsym_handle(h)
      by == Resolution(h, kind, symbol)
      asked == HostIsAsked(h, kind, symbol)
  IN /\ LoaderIdle(t)
     /\ CASE kind = "NotOpen" -> SetDlerror(t, NotOpenMessage(h), "none") /\ UNCHANGED host_pending
          [] kind # "NotOpen" /\ symbol = "NULL" ->
               SetDlerror(t, "NULL_SYMBOL", "none") /\ UNCHANGED host_pending
          [] kind # "NotOpen" /\ symbol # "NULL" /\ by # "nobody" ->
               /\ IF ~asked THEN UNCHANGED host_pending
                  ELSE IF by = "host" THEN HostWorked(t) ELSE HostAsked(t)
               /\ UNCHANGED <<pending, failed>>
          [] OTHER ->
               /\ \E detail \in IF asked /\ kind # "Internal" THEN HostDetails(t) ELSE {"none"} :
                    SetDlerror(t, IF host_loader \/ kind = "Internal"
                                  THEN "SYMBOL_NOT_FOUND" ELSE "HOST_DLSYM_UNAVAILABLE", detail)
               /\ IF asked THEN HostAsked(t) ELSE UNCHANGED host_pending
     /\ UNCHANGED <<handles, internal_handles, main_program_handles, host_loader, opening, held>>

-----------------------------------------------------------------------------
LoaderInit ==
  /\ handles = [h \in Handles |-> Absent]
  /\ internal_handles = {} /\ main_program_handles = {}
  /\ host_loader \in BOOLEAN
  /\ pending = [t \in LoaderThreads |-> NoMessage]
  /\ host_pending = [t \in LoaderThreads |-> FALSE]
  /\ opening = [t \in LoaderThreads |-> NoHandle]
  /\ held = [h \in Handles |-> 0]
  /\ failed = [t \in LoaderThreads |-> "none"]

LoaderNext == \E t \in LoaderThreads :
  \/ dlopen(t) \/ DlopenRegister(t) \/ dlerror(t) \/ HostFailsElsewhere(t)
  \/ \E h \in Handles : dlclose(t, h)
  \/ \E h \in Handles \cup {RTLD_DEFAULT, RTLD_NEXT}, symbol \in SymbolNames : dlsym(t, h, symbol)

LoaderSpec == LoaderInit /\ [][LoaderNext]_loader_vars

-----------------------------------------------------------------------------
(* Properties *)

\* The registry's count of a handle is the number of dlopens that returned it
\* less the number of dlcloses that accepted it, whatever the threads interleave:
\* a handle that somebody still holds is never closed, and it keeps the origin
\* that decides how dlsym looks a name up in it.
HandleCountsMatchClients ==
  \A h \in Handles :
    /\ is_open(h) <=> held[h] > 0
    /\ handles[h].refcount = held[h]
    /\ is_open(h) => /\ h \in internal_handles <=> h \in {InternalMain, InternalSelf}
                     /\ h \in main_program_handles <=> h \in {InternalMain, HostMain}

\* What dlerror will return is the last failure of this thread since it was
\* read, and a host detail in it is of the call that failed: neither another
\* thread's failure nor an older message of the host's loader shows up in it.
DlerrorIsOfLastFailure ==
  \A t \in LoaderThreads :
    /\ pending[t].what = failed[t]
    /\ pending[t].detail # "stale"
=============================================================================
