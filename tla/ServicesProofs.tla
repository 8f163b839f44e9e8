--------------------------- MODULE ServicesProofs ---------------------------
(***************************************************************************)
(* Theorems about the loader, signals, system calls and attribute objects, *)
(* for every set of threads, libraries, signals, words, error numbers and  *)
(* objects. Each component has an inductive invariant of its own, made of  *)
(* the types of its variables, the invariant the run checks and what that  *)
(* invariant needs. In the composition of the services the allocator's     *)
(* theorem holds too.                                                      *)
(***************************************************************************)
EXTENDS MCServices, AllocatorProofs, TLAPS

-----------------------------------------------------------------------------
(* The loader *)

Details == {"none", "own"}
Messages ==
  {"none", "DLOPEN_INVALID_FLAGS", "DLOPEN_PATH_OPEN_FAILED", "DLOPEN_NOT_ELF",
   "HOST_DLOPEN_UNAVAILABLE", "HOST_DLOPEN_FAILED", "ALREADY_CLOSED", "INVALID_HANDLE",
   "NULL_SYMBOL", "SYMBOL_NOT_FOUND", "HOST_DLSYM_UNAVAILABLE"}

\* What the registry's entry of a handle looks like, and what the host can have
\* returned to a dlopen under way.
LoaderTypeOK ==
  /\ handles \in [Handles -> [state : {"absent", "closed", "open"}, refcount : Nat]]
  /\ held \in [Handles -> Nat]
  /\ opening \in [LoaderThreads -> Libraries \cup {HostMain, NoHandle}]
  /\ failed \in [LoaderThreads -> Messages]
  /\ pending \in [LoaderThreads -> [what : Messages, detail : Details]]

LoaderIInv == LoaderTypeOK /\ HandleCountsMatchClients /\ DlerrorIsOfLastFailure

LEMMA LoaderInitEstablishes == LoaderInit => LoaderIInv
  BY DEF LoaderInit, LoaderIInv, LoaderTypeOK, HandleCountsMatchClients,
         DlerrorIsOfLastFailure, is_open, Absent, NoMessage, Message, Details, Messages,
         NoHandle

\* register_open_handle_with_origin counts one more open of a handle and gives
\* it its origin; the other handles keep theirs.
LEMMA RegisterPreserves ==
  ASSUME LoaderIInv, NEW h \in Libraries \cup {HostMain, InternalMain, InternalSelf},
         register_open_handle_with_origin(h, h \in {InternalMain, InternalSelf},
                                          h \in {InternalMain, HostMain})
  PROVE  /\ handles' \in [Handles -> [state : {"absent", "closed", "open"}, refcount : Nat]]
         /\ held' \in [Handles -> Nat]
         /\ HandleCountsMatchClients'
<1> USE DEF LoaderIInv, LoaderTypeOK
<1>0. h \in Handles
  BY DEF Handles
<1>1. handles' = [handles EXCEPT ![h] =
                    IF handles[h].state = "open" THEN Open(handles[h].refcount + 1) ELSE Open(1)]
  BY DEF register_open_handle_with_origin, RegisterOpen
<1>2. /\ handles' \in [Handles -> [state : {"absent", "closed", "open"}, refcount : Nat]]
      /\ held' \in [Handles -> Nat]
  BY <1>0, <1>1 DEF register_open_handle_with_origin, Open
<1>3. ASSUME NEW g \in Handles
      PROVE  /\ is_open(g)' <=> held'[g] > 0
             /\ handles'[g].refcount = held'[g]
  <2>1. CASE g = h
    BY <1>0, <1>1, <2>1
    DEF register_open_handle_with_origin, Open, HandleCountsMatchClients, is_open
  <2>2. CASE g # h
    BY <1>0, <1>1, <2>2
    DEF register_open_handle_with_origin, HandleCountsMatchClients, is_open
  <2> QED
    BY <2>1, <2>2
<1>4. ASSUME NEW g \in Handles, is_open(g)'
      PROVE  /\ g \in internal_handles' <=> g \in {InternalMain, InternalSelf}
             /\ g \in main_program_handles' <=> g \in {InternalMain, HostMain}
  <2>1. CASE g = h
    BY <2>1 DEF register_open_handle_with_origin, SetHandleOrigin
  <2>2. CASE g # h
    BY <1>0, <1>1, <1>4, <2>2
    DEF register_open_handle_with_origin, SetHandleOrigin, HandleCountsMatchClients, is_open
  <2> QED
    BY <2>1, <2>2
<1> QED
  BY <1>2, <1>3, <1>4 DEF HandleCountsMatchClients

\* A failure that is recorded is the one dlerror will report.
LEMMA RecordPreserves ==
  ASSUME LoaderIInv, NEW t \in LoaderThreads, NEW what \in Messages, NEW detail \in Details,
         SetDlerror(t, what, detail)
  PROVE  /\ failed' \in [LoaderThreads -> Messages]
         /\ pending' \in [LoaderThreads -> [what : Messages, detail : Details]]
         /\ DlerrorIsOfLastFailure'
<1> USE DEF LoaderIInv, LoaderTypeOK, SetDlerror, Message, Details, DlerrorIsOfLastFailure
<1>1. /\ failed' \in [LoaderThreads -> Messages]
      /\ pending' \in [LoaderThreads -> [what : Messages, detail : Details]]
  OBVIOUS
<1>2. ASSUME NEW u \in LoaderThreads
      PROVE  pending'[u].what = failed'[u] /\ pending'[u].detail # "stale"
  <2>1. CASE u = t
    BY <2>1
  <2>2. CASE u # t
    BY <2>2
  <2> QED
    BY <2>1, <2>2
<1> QED
  BY <1>1, <1>2

LEMMA CountsKept ==
  ASSUME HandleCountsMatchClients,
         UNCHANGED <<handles, internal_handles, main_program_handles, held>>
  PROVE  HandleCountsMatchClients'
  BY DEF HandleCountsMatchClients, is_open

LEMMA DlopenPreserves ==
  ASSUME LoaderIInv, NEW t \in LoaderThreads, dlopen(t)
  PROVE  LoaderIInv'
<1> USE DEF LoaderIInv
<1>1. ASSUME NEW what \in Messages, NEW detail \in Details, Fails(t, what, detail)
      PROVE  LoaderIInv'
  BY <1>1, RecordPreserves, CountsKept DEF Fails, LoaderTypeOK
<1>2. CASE DlopenBadFlags(t) \/ DlopenBadFile(t) \/ DlopenHostUnavailable(t)
  <2>1. \E what \in Messages : Fails(t, what, "none")
    BY <1>2 DEF DlopenBadFlags, DlopenBadFile, DlopenHostUnavailable, Messages
  <2> QED
    BY <1>1, <2>1 DEF Details
<1>3. CASE DlopenHostFails(t)
  BY <1>1, <1>3 DEF DlopenHostFails, HostDetails, HostBefore, Details, Messages
<1>4. CASE DlopenSelf(t)
  <2>1. register_open_handle_with_origin(InternalSelf, TRUE, FALSE)
    BY <1>4 DEF DlopenSelf
  <2>2. /\ InternalSelf \in {InternalMain, InternalSelf}
        /\ InternalSelf \notin {InternalMain, HostMain}
    BY LoaderAssumption DEF InternalMain, InternalSelf
  <2>3. register_open_handle_with_origin(InternalSelf,
           InternalSelf \in {InternalMain, InternalSelf}, InternalSelf \in {InternalMain, HostMain})
    BY <2>1, <2>2 DEF register_open_handle_with_origin, SetHandleOrigin
  <2> QED
    BY <1>4, <2>3, RegisterPreserves DEF DlopenSelf, LoaderTypeOK, DlerrorIsOfLastFailure
<1>5. CASE DlopenMainInternal(t)
  <2>1. register_open_handle_with_origin(InternalMain, TRUE, TRUE)
    BY <1>5 DEF DlopenMainInternal, register_open_main_program_handle,
                register_open_handle_with_origin, SetHandleOrigin
  <2>2. register_open_handle_with_origin(InternalMain,
           InternalMain \in {InternalMain, InternalSelf}, InternalMain \in {InternalMain, HostMain})
    BY <2>1 DEF register_open_handle_with_origin, SetHandleOrigin
  <2> QED
    BY <1>5, <2>2, RegisterPreserves
    DEF DlopenMainInternal, LoaderTypeOK, DlerrorIsOfLastFailure
<1>6. CASE \E h \in Libraries \cup {HostMain} : DlopenHostWorks(t, h)
  BY <1>6, CountsKept DEF DlopenHostWorks, LoaderTypeOK, DlerrorIsOfLastFailure
<1> QED
  BY <1>2, <1>3, <1>4, <1>5, <1>6 DEF dlopen

LEMMA DlopenRegisterPreserves ==
  ASSUME LoaderIInv, NEW t \in LoaderThreads, DlopenRegister(t)
  PROVE  LoaderIInv'
<1> USE DEF LoaderIInv
<1> DEFINE h == opening[t]
<1>1. h \in Libraries \cup {HostMain}
  BY DEF LoaderTypeOK, DlopenRegister
<1>2. /\ h \notin {InternalMain, InternalSelf}
      /\ h \in {InternalMain, HostMain} <=> h = HostMain
  BY <1>1, LoaderAssumption
<1>3. register_open_handle_with_origin(h, h \in {InternalMain, InternalSelf},
                                       h \in {InternalMain, HostMain})
  <2>1. CASE h = HostMain
    BY <1>2, <2>1
    DEF DlopenRegister, register_open_main_program_handle, register_open_handle_with_origin,
        SetHandleOrigin
  <2>2. CASE h # HostMain
    BY <1>2, <2>2 DEF DlopenRegister, register_open_handle_with_origin, SetHandleOrigin
  <2> QED
    BY <2>1, <2>2
<1>4. opening' \in [LoaderThreads -> Libraries \cup {HostMain, NoHandle}]
  BY DEF DlopenRegister, LoaderTypeOK
<1> QED
  BY <1>1, <1>3, <1>4, RegisterPreserves DEF DlopenRegister, LoaderTypeOK, DlerrorIsOfLastFailure

LEMMA DlclosePreserves ==
  ASSUME LoaderIInv, NEW t \in LoaderThreads, NEW h \in Handles, dlclose(t, h)
  PROVE  LoaderIInv'
<1> USE DEF LoaderIInv
<1>1. CASE is_open(h)
  <2>1. handles' = [handles EXCEPT ![h] =
                      IF handles[h].refcount > 1 THEN Open(handles[h].refcount - 1) ELSE Closed]
    BY <1>1 DEF dlclose, CloseHandle
  <2>2. handles[h].refcount = held[h] /\ held[h] \in Nat /\ held[h] > 0
    BY <1>1 DEF HandleCountsMatchClients, LoaderTypeOK
  <2>3. held' = [held EXCEPT ![h] = held[h] - 1]
    BY <1>1 DEF dlclose
  <2>4. LoaderTypeOK'
    BY <1>1, <2>1, <2>2, <2>3 DEF dlclose, LoaderTypeOK, Open, Closed
  <2>5. ASSUME NEW g \in Handles
        PROVE  /\ is_open(g)' <=> held'[g] > 0
               /\ handles'[g].refcount = held'[g]
               /\ is_open(g)' => is_open(g)
    <3>1. CASE g = h
      BY <1>1, <2>1, <2>2, <2>3, <3>1 DEF LoaderTypeOK, Open, Closed, is_open
    <3>2. CASE g # h
      BY <2>1, <2>3, <3>2 DEF LoaderTypeOK, HandleCountsMatchClients, is_open
    <3> QED
      BY <3>1, <3>2
  <2>6. HandleCountsMatchClients'
    BY <2>5 DEF HandleCountsMatchClients, dlclose
  <2> QED
    BY <1>1, <2>4, <2>6 DEF dlclose, DlerrorIsOfLastFailure
<1>2. CASE ~is_open(h)
  <2>1. NotOpenMessage(h) \in Messages /\ "none" \in Details
    BY DEF NotOpenMessage, Details, Messages
  <2> QED
    BY <1>2, <2>1, RecordPreserves, CountsKept DEF dlclose, LoaderTypeOK
<1> QED
  BY <1>1, <1>2

LEMMA DlerrorPreserves ==
  ASSUME LoaderIInv, NEW t \in LoaderThreads, dlerror(t)
  PROVE  LoaderIInv'
<1>1. SetDlerror(t, "none", "none")
  BY DEF dlerror, SetDlerror, NoMessage
<1>2. "none" \in Details
  BY DEF Details
<1>3. "none" \in Messages
  BY DEF Messages
<1> QED
  BY <1>1, <1>2, <1>3, RecordPreserves, CountsKept DEF dlerror, LoaderIInv, LoaderTypeOK

\* A lookup reads the registry; what it records, if anything, is its own failure.
LEMMA DlsymPreserves ==
  ASSUME LoaderIInv, NEW t \in LoaderThreads, NEW h, NEW symbol, dlsym(t, h, symbol)
  PROVE  LoaderIInv'
<1> USE DEF LoaderIInv
<1> DEFINE kind == classify_dlsym_handle(h)
           by == Resolution(h, kind, symbol)
           asked == HostIsAsked(h, kind, symbol)
           FoundDetails == IF asked /\ kind # "Internal" THEN HostDetails(t) ELSE {"none"}
<1>1. \/ UNCHANGED <<pending, failed>>
      \/ \E what \in Messages, detail \in Details : SetDlerror(t, what, detail)
  <2>1. NotOpenMessage(h) \in Messages /\ "none" \in Details
    BY DEF NotOpenMessage, Details, Messages
  <2>2. CASE kind = "NotOpen"
    BY <2>1, <2>2 DEF dlsym
  <2>3. CASE kind # "NotOpen" /\ symbol = "NULL"
    <3>1. "NULL_SYMBOL" \in Messages
      BY DEF Messages
    <3> QED
      BY <2>1, <2>3, <3>1 DEF dlsym
  <2>4. CASE kind # "NotOpen" /\ symbol # "NULL" /\ by # "nobody"
    BY <2>4 DEF dlsym
  <2>5. CASE kind # "NotOpen" /\ symbol # "NULL" /\ by = "nobody"
    <3>1. FoundDetails \subseteq Details
      BY DEF HostDetails, HostBefore, Details
    <3>2. \E detail \in FoundDetails :
            SetDlerror(t, IF host_loader \/ kind = "Internal"
                          THEN "SYMBOL_NOT_FOUND" ELSE "HOST_DLSYM_UNAVAILABLE", detail)
      BY <2>5 DEF dlsym
    <3>3. {"SYMBOL_NOT_FOUND", "HOST_DLSYM_UNAVAILABLE"} \subseteq Messages
      BY DEF Messages
    <3> QED
      BY <3>1, <3>2, <3>3
  <2> QED
    BY <2>2, <2>3, <2>4, <2>5
<1>2. UNCHANGED <<handles, internal_handles, main_program_handles, opening, held>>
  BY DEF dlsym
<1>3. CASE UNCHANGED <<pending, failed>>
  BY <1>2, <1>3, CountsKept DEF LoaderTypeOK, DlerrorIsOfLastFailure
<1>4. CASE \E what \in Messages, detail \in Details : SetDlerror(t, what, detail)
  BY <1>2, <1>4, CountsKept, RecordPreserves DEF LoaderTypeOK
<1> QED
  BY <1>1, <1>3, <1>4

LEMMA LoaderStepPreserves == LoaderIInv /\ [LoaderNext]_loader_vars => LoaderIInv'
<1> SUFFICES ASSUME LoaderIInv, [LoaderNext]_loader_vars
             PROVE  LoaderIInv'
  OBVIOUS
<1>1. ASSUME NEW t \in LoaderThreads, HostFailsElsewhere(t)
      PROVE  LoaderIInv'
  BY <1>1, CountsKept DEF HostFailsElsewhere, LoaderIInv, LoaderTypeOK, DlerrorIsOfLastFailure
<1>2. CASE UNCHANGED loader_vars
  BY <1>2, CountsKept DEF loader_vars, LoaderIInv, LoaderTypeOK, DlerrorIsOfLastFailure
<1> QED
  BY <1>1, <1>2, DlopenPreserves, DlopenRegisterPreserves, DlclosePreserves,
     DlerrorPreserves, DlsymPreserves
  DEF LoaderNext

LEMMA LoaderInvariance == LoaderSpec => []LoaderIInv
  BY LoaderInitEstablishes, LoaderStepPreserves, PTL DEF LoaderSpec

\* register_open_handle_with_origin and dlclose keep the counts of the registry
\* the clients', and a handle its origin, however many threads open and close.
THEOREM HandleCounts == LoaderSpec => []HandleCountsMatchClients
<1>1. LoaderIInv => HandleCountsMatchClients
  BY DEF LoaderIInv
<1> QED
  BY <1>1, LoaderInvariance, PTL

\* What dlerror returns to a thread is its own last failure, with the host's
\* detail of that call (set_dlerror_message_with_detail, clear_host_dlerror_state).
THEOREM DlerrorReports == LoaderSpec => []DlerrorIsOfLastFailure
<1>1. LoaderIInv => DlerrorIsOfLastFailure
  BY DEF LoaderIInv
<1> QED
  BY <1>1, LoaderInvariance, PTL

-----------------------------------------------------------------------------
(* Attribute objects *)

\* An attribute object a program has initialised and configured holds what it
\* asked for; one it has not may hold anything.
AttrIInv ==
  /\ made \in [AttrMutexes -> {<<>>} \cup {<<type>> : type \in MutexTypes}]
  /\ DOMAIN made_as = AttrMutexes
  /\ \A m \in AttrMutexes : made[m] # <<>> /\ made_as[m] # <<>> => made[m] = made_as[m]
  /\ mutexattr.initialized /\ asked_type # <<>> => mutexattr.pshared \in SharedSelectors
  /\ asked_type # <<>> =>
       /\ mutexattr.initialized
       /\ mutexattr.mutex_type \in MutexTypes
       /\ asked_type = <<mutexattr.mutex_type>>
  /\ DOMAIN mutexattr = {"initialized", "mutex_type", "pshared"}
  /\ mutexattr = [initialized |-> mutexattr.initialized, mutex_type |-> mutexattr.mutex_type,
                  pshared |-> mutexattr.pshared]

LEMMA AttrInitEstablishes == AttrInit => AttrIInv
  BY DEF AttrInit, AttrIInv

LEMMA AttrStepPreserves == AttrIInv /\ [AttrNext]_attr_vars => AttrIInv'
<1> SUFFICES ASSUME AttrIInv, [AttrNext]_attr_vars
             PROVE  AttrIInv'
  OBVIOUS
<1> USE DEF AttrIInv
<1>1. CASE pthread_mutexattr_init
  BY <1>1, AttrsAssumption DEF pthread_mutexattr_init, SharedSelectors
<1>2. CASE pthread_mutexattr_destroy
  BY <1>2 DEF pthread_mutexattr_destroy
<1>3. ASSUME NEW type, pthread_mutexattr_settype(type)
      PROVE  AttrIInv'
  BY <1>3 DEF pthread_mutexattr_settype, validate_mutex_type
<1>4. ASSUME NEW pshared, pthread_mutexattr_setpshared(pshared)
      PROVE  AttrIInv'
  BY <1>4 DEF pthread_mutexattr_setpshared
<1>5. ASSUME NEW m \in AttrMutexes, NEW with_attr \in BOOLEAN, pthread_mutex_init(m, with_attr)
      PROVE  AttrIInv'
  <2>1. Configured(with_attr) \in {<<type>> : type \in MutexTypes}
    BY <1>5, AttrsAssumption DEF pthread_mutex_init, Configured, validate_mutex_type
  <2>2. (IF with_attr THEN asked_type ELSE <<DefaultType>>) # <<>> =>
          Configured(with_attr) = IF with_attr THEN asked_type ELSE <<DefaultType>>
    BY <1>5 DEF pthread_mutex_init, Configured
  <2> QED
    BY <1>5, <2>1, <2>2 DEF pthread_mutex_init
<1>6. CASE \/ pthread_condattr_init \/ pthread_condattr_destroy
           \/ \E pshared : pthread_condattr_setpshared(pshared)
           \/ \E c, with_attr : pthread_cond_init(c, with_attr)
           \/ UNCHANGED attr_vars
  BY <1>6 DEF pthread_condattr_init, pthread_condattr_destroy, pthread_condattr_setpshared,
              pthread_cond_init, attr_vars
<1> QED
  BY <1>1, <1>2, <1>3, <1>4, <1>5, <1>6 DEF AttrNext

LEMMA AttrIInvSuffices == AttrIInv => MutexesAreAsConfigured
  BY DEF AttrIInv, MutexesAreAsConfigured, validate_mutex_type, pthread_mutexattr_gettype,
         pthread_mutexattr_getpshared, Configured

\* pthread_mutex_init makes a mutex of the type its program chose, whatever the
\* storage of the attribute object held before.
THEOREM MutexTypesChosen == AttrSpec => []MutexesAreAsConfigured
<1>1. AttrSpec => []AttrIInv
  BY AttrInitEstablishes, AttrStepPreserves, PTL DEF AttrSpec
<1> QED
  BY <1>1, AttrIInvSuffices, PTL

-----------------------------------------------------------------------------
(* Signals *)

Restorers == {NoRestorer, OwnRestorer, Trampoline}
HandlerValues == Handlers \cup {SIG_DFL, SIG_IGN}

\* The first word of a set the kernel filled holds integers; the kernel holds no
\* mask with a signal that cannot be blocked.
HeldActions ==
  [handler : HandlerValues, asked : BOOLEAN, has_restorer : BOOLEAN, restorer : Restorers,
   mask : SUBSET (Int \ Unblockable)]
UserActions ==
  [handler : HandlerValues, has_restorer : BOOLEAN, restorer : Restorers,
   mask : [Words -> SUBSET Int]]
Frames == [sig : SignalNumbers, restorer : Restorers, saved : SUBSET Int]

SignalTypeOK ==
  /\ sigset \in [SignalThreads -> [Words -> SUBSET Bits]]
  /\ denoted \in [SignalThreads -> SUBSET SignalNumbers]
  /\ oldset \in [SignalThreads -> [Words -> SUBSET Int]]
  /\ oldact \in [SignalThreads -> UserActions]
  /\ mask \in [SignalThreads -> SUBSET Int]
  /\ disposition \in [SignalNumbers -> HeldActions]
  /\ pending_signals \in [SignalThreads -> SUBSET SignalNumbers]
  /\ handling \in [SignalThreads -> Seq(Frames)]
  /\ DOMAIN section = SignalThreads
  /\ DOMAIN replaced = SignalThreads

SetDenotes(t) == \A sig \in SignalNumbers : sig - 1 \in sigset[t][0] <=> sig \in denoted[t]

\* A handler that interrupted the section saved a mask that blocks its signals:
\* that is why its return cannot unblock them.
SectionKept(t) ==
  section[t] # <<>> =>
    /\ section[t][1].depth \in 0..Len(handling[t])
    /\ section[t][1].blocked \subseteq mask[t]
    /\ \A i \in (section[t][1].depth + 1)..Len(handling[t]) :
         section[t][1].blocked \subseteq handling[t][i].saved
    /\ ToKernel(oldset[t]) = section[t][1].mask

\* What a thread's oldact says of the action it replaced.
ReplacedKept(t) ==
  replaced[t] # <<>> =>
    LET was == replaced[t][1].action
    IN /\ replaced[t][1].sig \in SignalNumbers
       /\ was \in HeldActions
       /\ oldact[t].handler = was.handler
       /\ oldact[t].restorer = was.restorer
       /\ ToKernel(oldact[t].mask) = was.mask
       /\ \A w \in Words \ {0} : oldact[t].mask[w] = {}

SignalIInv ==
  /\ SignalTypeOK
  /\ \A t \in SignalThreads : SetDenotes(t) /\ SectionKept(t) /\ ReplacedKept(t)

\* Every signal is a bit of the first word.
LEMMA PlaceOfSignal ==
  /\ 0 \in Words
  /\ \A sig : signal_word_and_bit(sig) # <<>> => sig \in SignalNumbers
  /\ \A sig \in SignalNumbers :
       signal_word_and_bit(sig) = <<0, sig - 1>> /\ sig - 1 \in Bits
<1>1. 0 \in Words
  BY SignalsAssumption DEF Words
<1>2. ASSUME NEW sig \in SignalNumbers
      PROVE  sig - 1 \in Bits /\ (sig - 1) \div BITS_PER_WORD = 0
             /\ (sig - 1) % BITS_PER_WORD = sig - 1
  BY SignalsAssumption DEF SignalNumbers, Bits
<1>3. \A sig \in SignalNumbers : signal_word_and_bit(sig) = <<0, sig - 1>>
  BY <1>2, SignalsAssumption DEF signal_word_and_bit
<1> QED
  BY <1>1, <1>2, <1>3 DEF signal_word_and_bit

\* What the kernel writes into a set and reads back is the same set of signals.
LEMMA KernelRoundTrip ==
  ASSUME NEW blocked \in SUBSET Int, NEW set \in [Words -> SUBSET Int]
  PROVE  /\ FromKernel(set, blocked) \in [Words -> SUBSET Int]
         /\ ToKernel(FromKernel(set, blocked)) = blocked
         /\ \A w \in Words \ {0} : FromKernel(set, blocked)[w] = set[w]
         /\ ToKernel(set) \in SUBSET Int
<1> DEFINE bits == {sig - 1 : sig \in blocked}
<1>1. bits \in SUBSET Int
  OBVIOUS
<1>2. 0 \in Words
  BY PlaceOfSignal
<1>3. FromKernel(set, blocked) = [set EXCEPT ![0] = bits]
  BY DEF FromKernel
<1>4. FromKernel(set, blocked)[0] = bits
  BY <1>2, <1>3
<1>5. {bit + 1 : bit \in bits} = blocked
  <2>1. \A bit \in bits : bit + 1 \in blocked
    OBVIOUS
  <2>2. \A sig \in blocked : sig - 1 \in bits /\ sig = (sig - 1) + 1
    OBVIOUS
  <2> QED
    BY <2>1, <2>2
<1>6. ToKernel(set) \in SUBSET Int
  <2>1. set[0] \in SUBSET Int
    BY <1>2
  <2> QED
    BY <2>1 DEF ToKernel
<1> HIDE DEF bits
<1>7. FromKernel(set, blocked) \in [Words -> SUBSET Int]
  BY <1>1, <1>3
<1>8. \A w \in Words \ {0} : FromKernel(set, blocked)[w] = set[w]
  BY <1>3
<1>9. ToKernel(FromKernel(set, blocked)) = blocked
  BY <1>4, <1>5 DEF ToKernel
<1> QED
  BY <1>6, <1>7, <1>8, <1>9

LEMMA SignalInitEstablishes == SignalInit => SignalIInv
<1> SUFFICES ASSUME SignalInit
             PROVE  SignalIInv
  OBVIOUS
<1>1. SignalTypeOK
  <2>1. /\ EmptySigSet \in [Words -> SUBSET Bits]
        /\ FullSigSet \in [Words -> SUBSET Int]
    BY SignalsAssumption DEF EmptySigSet, FullSigSet, Bits
  <2>2. [DefaultAction EXCEPT !.mask = FullSigSet] \in UserActions
    BY <2>1 DEF DefaultAction, UserActions, HandlerValues, Restorers
  <2>3. [handler |-> SIG_DFL, asked |-> TRUE, has_restorer |-> FALSE,
         restorer |-> NoRestorer, mask |-> {}] \in HeldActions
    BY DEF HeldActions, HandlerValues, Restorers
  <2>4. /\ sigset \in [SignalThreads -> [Words -> SUBSET Bits]]
        /\ denoted \in [SignalThreads -> SUBSET SignalNumbers]
        /\ oldset \in [SignalThreads -> [Words -> SUBSET Int]]
        /\ mask \in [SignalThreads -> SUBSET Int]
        /\ pending_signals \in [SignalThreads -> SUBSET SignalNumbers]
    BY <2>1 DEF SignalInit
  <2>5. /\ oldact \in [SignalThreads -> UserActions]
        /\ disposition \in [SignalNumbers -> HeldActions]
    BY <2>2, <2>3 DEF SignalInit
  <2>6. /\ handling \in [SignalThreads -> Seq(Frames)]
        /\ DOMAIN section = SignalThreads /\ DOMAIN replaced = SignalThreads
    BY DEF SignalInit
  <2> QED
    BY <2>4, <2>5, <2>6 DEF SignalTypeOK
<1>2. ASSUME NEW t \in SignalThreads
      PROVE  SetDenotes(t) /\ SectionKept(t) /\ ReplacedKept(t)
  BY PlaceOfSignal DEF SignalInit, SetDenotes, SectionKept, ReplacedKept, EmptySigSet
<1> QED
  BY <1>1, <1>2 DEF SignalIInv

\* The calls that build a set keep its first word equal to the signals they denote.
LEMMA BuildPreserves ==
  ASSUME SignalIInv, NEW t \in SignalThreads,
         \/ sigemptyset(t) \/ sigfillset(t)
         \/ \E sig : sigaddset(t, sig) \/ sigdelset(t, sig)
  PROVE  SignalIInv'
<1> USE PlaceOfSignal DEF SignalIInv
<1>1. PICK word \in [Words -> SUBSET Bits], signals \in SUBSET SignalNumbers :
        /\ sigset' = [sigset EXCEPT ![t] = word]
        /\ denoted' = [denoted EXCEPT ![t] = signals]
        /\ \A sig \in SignalNumbers : sig - 1 \in word[0] <=> sig \in signals
        /\ SetUnchanged
  <2>1. CASE sigemptyset(t)
    <3>1. EmptySigSet \in [Words -> SUBSET Bits] /\ EmptySigSet[0] = {}
      BY DEF EmptySigSet
    <3> QED
      BY <2>1, <3>1 DEF sigemptyset
  <2>2. CASE sigfillset(t)
    <3>1. FullSigSet \in [Words -> SUBSET Bits] /\ FullSigSet[0] = Bits
      BY DEF FullSigSet
    <3> QED
      BY <2>2, <3>1 DEF sigfillset
  <2>3. ASSUME NEW sig, sigaddset(t, sig) \/ sigdelset(t, sig)
        PROVE  \E word \in [Words -> SUBSET Bits], signals \in SUBSET SignalNumbers :
                 /\ sigset' = [sigset EXCEPT ![t] = word]
                 /\ denoted' = [denoted EXCEPT ![t] = signals]
                 /\ \A s \in SignalNumbers : s - 1 \in word[0] <=> s \in signals
                 /\ SetUnchanged
    <3> DEFINE old == sigset[t]
    <3>0. sig \in SignalNumbers /\ signal_word_and_bit(sig) = <<0, sig - 1>>
          /\ sig - 1 \in Bits
      BY <2>3 DEF sigaddset, sigdelset
    <3>1. old \in [Words -> SUBSET Bits] /\ old[0] \in SUBSET Bits
          /\ denoted[t] \in SUBSET SignalNumbers
          /\ \A s \in SignalNumbers : s - 1 \in old[0] <=> s \in denoted[t]
      BY DEF SignalTypeOK, SetDenotes
    <3> HIDE DEF old
    <3>2. \A s \in SignalNumbers : s - 1 = sig - 1 <=> s = sig
      BY <3>0 DEF SignalNumbers
    <3>3. CASE sigaddset(t, sig)
      <4> DEFINE word == [old EXCEPT ![0] = @ \cup {sig - 1}]
                 signals == denoted[t] \cup {sig}
      <4>1. sigset' = [sigset EXCEPT ![t] = word] /\ denoted' = [denoted EXCEPT ![t] = signals]
            /\ SetUnchanged
        BY <3>0, <3>3 DEF sigaddset, WithBit, SignalTypeOK, old
      <4>2. word \in [Words -> SUBSET Bits] /\ signals \in SUBSET SignalNumbers
            /\ word[0] = old[0] \cup {sig - 1}
        BY <3>0, <3>1
      <4>3. \A s \in SignalNumbers : s - 1 \in word[0] <=> s \in signals
        BY <3>1, <3>2, <4>2
      <4> QED
        BY <4>1, <4>2, <4>3
    <3>4. CASE sigdelset(t, sig)
      <4> DEFINE word == [old EXCEPT ![0] = @ \ {sig - 1}]
                 signals == denoted[t] \ {sig}
      <4>1. sigset' = [sigset EXCEPT ![t] = word] /\ denoted' = [denoted EXCEPT ![t] = signals]
            /\ SetUnchanged
        BY <3>0, <3>4 DEF sigdelset, WithBit, SignalTypeOK, old
      <4>2. word \in [Words -> SUBSET Bits] /\ signals \in SUBSET SignalNumbers
            /\ word[0] = old[0] \ {sig - 1}
        BY <3>0, <3>1
      <4>3. \A s \in SignalNumbers : s - 1 \in word[0] <=> s \in signals
        BY <3>1, <3>2, <4>2
      <4> QED
        BY <4>1, <4>2, <4>3
    <3> QED
      BY <2>3, <3>3, <3>4
  <2> QED
    BY <2>1, <2>2, <2>3
<1>2. SignalTypeOK'
  BY <1>1 DEF SetUnchanged, SignalTypeOK
<1>3. ASSUME NEW u \in SignalThreads
      PROVE  (SetDenotes(u) /\ SectionKept(u) /\ ReplacedKept(u))'
  <2>1. SetDenotes(u)'
    BY <1>1 DEF SetDenotes, SignalTypeOK
  <2>2. SectionKept(u)' /\ ReplacedKept(u)'
    BY <1>1 DEF SetUnchanged, SectionKept, ReplacedKept
  <2> QED
    BY <2>1, <2>2
<1> QED
  BY <1>2, <1>3

\* sigprocmask leaves sets of integers, whatever it is asked.
LEMMA ProcmaskTypes ==
  ASSUME SignalTypeOK, NEW t \in SignalThreads, NEW how, NEW fetch,
         NEW set, set = <<>> \/ set = <<sigset[t]>> \/ set = <<oldset[t]>>,
         sigprocmask(t, how, set, fetch)
  PROVE  /\ mask' \in [SignalThreads -> SUBSET Int]
         /\ oldset' \in [SignalThreads -> [Words -> SUBSET Int]]
         /\ \A u \in SignalThreads \ {t} : mask'[u] = mask[u] /\ oldset'[u] = oldset[u]
<1> USE DEF SignalTypeOK
<1>1. /\ mask[t] \in SUBSET Int
      /\ oldset[t] \in [Words -> SUBSET Int]
      /\ sigset[t] \in [Words -> SUBSET Int]
  BY SignalsAssumption DEF Bits
<1>2. \A given \in SUBSET Int : \A h : KernelMask(mask[t], h, given) \in SUBSET Int
  BY <1>1 DEF KernelMask
<1>3. mask' = mask \/ \E left \in SUBSET Int : mask' = [mask EXCEPT ![t] = left]
  <2>1. CASE set = <<>>
    BY <2>1 DEF sigprocmask
  <2>2. CASE set # <<>>
    <3>1. set[1] \in [Words -> SUBSET Int]
      BY <1>1, <2>2
    <3>2. ToKernel(set[1]) \in SUBSET Int
      BY <1>1, <3>1, KernelRoundTrip
    <3>3. mask' = [mask EXCEPT ![t] = KernelMask(mask[t], how, ToKernel(set[1]))]
      BY <2>2 DEF sigprocmask
    <3> QED
      BY <1>2, <3>2, <3>3
  <2> QED
    BY <2>1, <2>2
<1>4. mask' \in [SignalThreads -> SUBSET Int] /\ \A u \in SignalThreads \ {t} : mask'[u] = mask[u]
  BY <1>3
<1>5. FromKernel(oldset[t], mask[t]) \in [Words -> SUBSET Int]
  BY <1>1, KernelRoundTrip
<1>6. /\ oldset' \in [SignalThreads -> [Words -> SUBSET Int]]
      /\ \A u \in SignalThreads \ {t} : oldset'[u] = oldset[u]
  BY <1>5 DEF sigprocmask
<1> QED
  BY <1>4, <1>6

\* A section blocks its signals, and what it saved is the mask it restores.
LEMMA SectionPreserves ==
  ASSUME SignalIInv, NEW t \in SignalThreads,
         \/ EnterSection(t) \/ LeaveSection(t) \/ UnblockMask(t)
         \/ \E how : QueryMask(t, how)
  PROVE  SignalIInv'
<1> USE DEF SignalIInv
<1>1. PICK how, set, fetch : /\ set = <<>> \/ set = <<sigset[t]>> \/ set = <<oldset[t]>>
                             /\ sigprocmask(t, how, set, fetch)
  BY DEF EnterSection, LeaveSection, UnblockMask, QueryMask
<1>2. /\ mask' \in [SignalThreads -> SUBSET Int]
      /\ oldset' \in [SignalThreads -> [Words -> SUBSET Int]]
      /\ \A u \in SignalThreads \ {t} : mask'[u] = mask[u] /\ oldset'[u] = oldset[u]
  BY <1>1, ProcmaskTypes
<1>3. MaskUnchanged /\ DOMAIN section' = SignalThreads
      /\ \A u \in SignalThreads \ {t} : section'[u] = section[u]
  BY DEF EnterSection, LeaveSection, UnblockMask, QueryMask, SignalTypeOK
<1>4. SignalTypeOK'
  BY <1>2, <1>3 DEF MaskUnchanged, SignalTypeOK
<1>5. ASSUME NEW u \in SignalThreads
      PROVE  SetDenotes(u)' /\ ReplacedKept(u)'
  BY <1>3 DEF MaskUnchanged, SetDenotes, ReplacedKept
<1>6. ASSUME NEW u \in SignalThreads \ {t}
      PROVE  SectionKept(u)'
  BY <1>2, <1>3 DEF MaskUnchanged, SectionKept
<1>7. SectionKept(t)'
  <2>1. CASE EnterSection(t)
    <3>1. /\ section'[t] = <<[depth |-> Len(handling[t]), mask |-> mask[t],
                              blocked |-> denoted[t] \ Unblockable]>>
          /\ mask'[t] = (mask[t] \cup ToKernel(sigset[t])) \ Unblockable
          /\ oldset'[t] = FromKernel(oldset[t], mask[t])
          /\ handling' = handling
      BY <2>1 DEF EnterSection, sigprocmask, KernelMask, MaskUnchanged, SignalTypeOK
    <3>2. denoted[t] \subseteq ToKernel(sigset[t])
      <4>1. ASSUME NEW sig \in denoted[t]
            PROVE  sig \in ToKernel(sigset[t])
        <5>1. sig \in SignalNumbers /\ sig - 1 \in sigset[t][0] /\ sig = (sig - 1) + 1
          BY SignalsAssumption DEF SetDenotes, SignalTypeOK, SignalNumbers
        <5> QED
          BY <5>1 DEF ToKernel
      <4> QED
        BY <4>1
    <3>3. ToKernel(oldset'[t]) = mask[t]
      BY <3>1, KernelRoundTrip DEF SignalTypeOK
    <3>4. Len(handling[t]) \in Nat
      BY DEF SignalTypeOK
    <3>5. ToKernel(oldset[t])' = ToKernel(oldset'[t])
      BY DEF ToKernel
    <3> QED
      BY <3>1, <3>2, <3>3, <3>4, <3>5 DEF SectionKept
  <2>2. CASE LeaveSection(t)
    BY <2>2 DEF LeaveSection, SectionKept, SignalTypeOK
  <2>3. CASE UnblockMask(t) \/ \E h : QueryMask(t, h)
    BY <2>3 DEF UnblockMask, QueryMask, SectionKept
  <2> QED
    BY <2>1, <2>2, <2>3
<1> QED
  BY <1>4, <1>5, <1>6, <1>7

\* A disposition the kernel holds, and what it is when it is read back.
LEMMA ActionRoundTrip ==
  /\ \A act \in UserActions : KernelAction(act) \in HeldActions
  /\ \A was \in HeldActions : \A storage :
       /\ Filled(storage, was) \in UserActions
       /\ Filled(storage, was).handler = was.handler
       /\ Filled(storage, was).restorer = was.restorer
       /\ ToKernel(Filled(storage, was).mask) = was.mask
       /\ \A w \in Words \ {0} : Filled(storage, was).mask[w] = {}
<1>1. ASSUME NEW act \in UserActions
      PROVE  KernelAction(act) \in HeldActions
  <2>1. act.mask \in [Words -> SUBSET Int]
    BY DEF UserActions
  <2>2. ToKernel(act.mask) \in SUBSET Int
    BY <2>1, KernelRoundTrip
  <2>3. ToKernel(act.mask) \ Unblockable \in SUBSET (Int \ Unblockable)
    BY <2>2
  <2> QED
    BY <2>3 DEF KernelAction, HeldActions, UserActions, Restorers
<1>2. ASSUME NEW was \in HeldActions, NEW storage
      PROVE  /\ Filled(storage, was) \in UserActions
             /\ Filled(storage, was).handler = was.handler
             /\ Filled(storage, was).restorer = was.restorer
             /\ ToKernel(Filled(storage, was).mask) = was.mask
             /\ \A w \in Words \ {0} : Filled(storage, was).mask[w] = {}
  <2> DEFINE clear == [w \in Words |-> {}]
  <2>1. clear \in [Words -> SUBSET Int] /\ was.mask \in SUBSET Int
    BY DEF HeldActions
  <2>2. /\ FromKernel(clear, was.mask) \in [Words -> SUBSET Int]
        /\ ToKernel(FromKernel(clear, was.mask)) = was.mask
        /\ \A w \in Words \ {0} : FromKernel(clear, was.mask)[w] = clear[w]
    BY <2>1, KernelRoundTrip
  <2>3. Filled(storage, was) = [handler |-> was.handler, has_restorer |-> was.has_restorer,
                                restorer |-> was.restorer,
                                mask |-> FromKernel(clear, was.mask)]
    BY DEF Filled
  <2>4. \A w \in Words \ {0} : clear[w] = {}
    OBVIOUS
  <2> HIDE DEF clear
  <2> QED
    BY <2>2, <2>3, <2>4 DEF HeldActions, UserActions
<1> QED
  BY <1>1, <1>2

\* sigaction keeps its types, fills the caller's oldact from the disposition it
\* found, and touches no other thread's.
LEMMA SigactionTypes ==
  ASSUME SignalTypeOK, NEW t \in SignalThreads, NEW signum, NEW act, NEW fetch \in BOOLEAN,
         act = <<>> \/ act[1] \in UserActions,
         sigaction(t, signum, act, fetch)
  PROVE  /\ signum \in SignalNumbers
         /\ disposition' \in [SignalNumbers -> HeldActions]
         /\ oldact' \in [SignalThreads -> UserActions]
         /\ oldact'[t] = IF fetch THEN Filled(oldact[t], disposition[signum]) ELSE oldact[t]
         /\ \A u \in SignalThreads \ {t} : oldact'[u] = oldact[u]
         /\ UNCHANGED <<sigset, oldset, mask, pending_signals, handling, section, denoted>>
<1> USE DEF SignalTypeOK
<1>1. signum \in SignalNumbers
  BY PlaceOfSignal DEF sigaction
<1>2. \/ disposition' = disposition
      \/ /\ disposition' = [disposition EXCEPT ![signum] = KernelAction(act[1])]
         /\ act[1] \in UserActions
  BY DEF sigaction
<1>3. disposition' \in [SignalNumbers -> HeldActions]
  <2>1. CASE disposition' = disposition
    BY <2>1
  <2>2. CASE /\ disposition' = [disposition EXCEPT ![signum] = KernelAction(act[1])]
             /\ act[1] \in UserActions
    <3>1. KernelAction(act[1]) \in HeldActions
      BY <2>2, ActionRoundTrip
    <3> QED
      BY <2>2, <3>1
  <2> QED
    BY <1>2, <2>1, <2>2
<1>4. Filled(oldact[t], disposition[signum]) \in UserActions
  BY <1>1, ActionRoundTrip
<1>5. oldact' = [oldact EXCEPT ![t] =
                   IF fetch THEN Filled(oldact[t], disposition[signum]) ELSE oldact[t]]
  BY DEF sigaction
<1>6. UNCHANGED <<sigset, oldset, mask, pending_signals, handling, section, denoted>>
  BY DEF sigaction
<1> QED
  BY <1>1, <1>3, <1>4, <1>5, <1>6

\* What a thread saved of a disposition stays with it until it is put back.
LEMMA ActionPreserves ==
  ASSUME SignalIInv, NEW t \in SignalThreads,
         \/ ReinstateAction(t)
         \/ \E sig : \/ QueryAction(t, sig)
                     \/ \E act \in Actions(t) : ReplaceAction(t, sig, act)
  PROVE  SignalIInv'
<1> USE DEF SignalIInv
<1>1. sigset[t] \in [Words -> SUBSET Int]
  BY SignalsAssumption DEF SignalTypeOK, Bits
<1> DEFINE Replacing(signum, act, fetch) ==
             /\ act = <<>> \/ act[1] \in UserActions
             /\ sigaction(t, signum, act, fetch)
             /\ \/ replaced'[t] = <<>>
                \/ /\ fetch
                   /\ replaced'[t] = <<[sig |-> signum, action |-> disposition[signum]]>>
             /\ DOMAIN replaced' = SignalThreads
             /\ \A u \in SignalThreads \ {t} : replaced'[u] = replaced[u]
<1>2. \E signum, act : \E fetch \in BOOLEAN : Replacing(signum, act, fetch)
  <2>1. CASE ReinstateAction(t)
    <3>1. oldact[t] \in UserActions
      BY DEF SignalTypeOK
    <3>2. sigaction(t, replaced[t][1].sig, <<oldact[t]>>, FALSE)
          /\ replaced' = [replaced EXCEPT ![t] = <<>>]
      BY <2>1 DEF ReinstateAction
    <3>3. <<oldact[t]>>[1] \in UserActions
      BY <3>1
    <3>4. replaced'[t] = <<>> /\ DOMAIN replaced' = SignalThreads
          /\ \A u \in SignalThreads \ {t} : replaced'[u] = replaced[u]
      BY <3>2 DEF SignalTypeOK
    <3>5. Replacing(replaced[t][1].sig, <<oldact[t]>>, FALSE)
      BY <3>2, <3>3, <3>4
    <3> QED
      BY <3>5
  <2>2. ASSUME NEW sig, QueryAction(t, sig)
        PROVE  Replacing(sig, <<>>, TRUE)
    BY <2>2 DEF QueryAction, SignalTypeOK
  <2>3. ASSUME NEW sig, NEW act \in Actions(t), ReplaceAction(t, sig, act)
        PROVE  Replacing(sig, <<act>>, TRUE)
    <3>1. act \in UserActions
      BY <1>1 DEF Actions, UserActions, HandlerValues, Restorers
    <3> QED
      BY <2>3, <3>1 DEF ReplaceAction, copy_sigaction_from_user, SignalTypeOK
  <2> QED
    BY <2>1, <2>2, <2>3
<1> PICK signum, act : \E fetch \in BOOLEAN : Replacing(signum, act, fetch)
  BY <1>2
<1> PICK fetch \in BOOLEAN : Replacing(signum, act, fetch)
  OBVIOUS
<1>3. /\ signum \in SignalNumbers
      /\ disposition' \in [SignalNumbers -> HeldActions]
      /\ oldact' \in [SignalThreads -> UserActions]
      /\ oldact'[t] = IF fetch THEN Filled(oldact[t], disposition[signum]) ELSE oldact[t]
      /\ \A u \in SignalThreads \ {t} : oldact'[u] = oldact[u]
      /\ UNCHANGED <<sigset, oldset, mask, pending_signals, handling, section, denoted>>
  BY SigactionTypes
<1>4. SignalTypeOK'
  BY <1>3 DEF SignalTypeOK
<1>5. ASSUME NEW u \in SignalThreads
      PROVE  SetDenotes(u)' /\ SectionKept(u)'
  BY <1>3 DEF SetDenotes, SectionKept, ToKernel
<1>6. ASSUME NEW u \in SignalThreads \ {t}
      PROVE  ReplacedKept(u)'
  BY <1>3 DEF ReplacedKept, ToKernel
<1>7. ReplacedKept(t)'
  <2>1. CASE replaced'[t] = <<>>
    BY <2>1 DEF ReplacedKept
  <2>2. CASE fetch /\ replaced'[t] = <<[sig |-> signum, action |-> disposition[signum]]>>
    <3> DEFINE was == disposition[signum]
    <3>1. was \in HeldActions
      BY <1>3 DEF SignalTypeOK
    <3>2. oldact'[t] = Filled(oldact[t], was)
      BY <1>3, <2>2
    <3>3. replaced'[t][1].sig = signum /\ replaced'[t][1].action = was
      BY <2>2
    <3> HIDE DEF was
    <3>4. /\ oldact'[t].handler = was.handler /\ oldact'[t].restorer = was.restorer
          /\ ToKernel(oldact'[t].mask) = was.mask
          /\ \A w \in Words \ {0} : oldact'[t].mask[w] = {}
      BY <3>1, <3>2, ActionRoundTrip
    <3>5. ToKernel(oldact[t].mask)' = ToKernel(oldact'[t].mask)
      BY DEF ToKernel
    <3> QED
      BY <1>3, <3>1, <3>3, <3>4, <3>5 DEF ReplacedKept
  <2> QED
    BY <2>1, <2>2
<1> QED
  BY <1>4, <1>5, <1>6, <1>7

LEMMA PostPreserves ==
  ASSUME SignalIInv, NEW t \in SignalThreads, NEW sig, Post(t, sig)
  PROVE  SignalIInv'
<1>1. pending_signals' \in [SignalThreads -> SUBSET SignalNumbers]
  BY DEF SignalIInv, SignalTypeOK, Post, is_valid_delivery_signal
<1> QED
  BY <1>1 DEF SignalIInv, SignalTypeOK, Post, SetDenotes, SectionKept, ReplacedKept, ToKernel

\* A handler that starts inside a section saves a mask that blocks the
\* section's signals, and one that returns puts such a mask back.
LEMMA DeliverPreserves ==
  ASSUME SignalIInv, NEW t \in SignalThreads, NEW sig \in SignalNumbers, Deliver(t, sig)
  PROVE  SignalIInv'
<1> USE DEF SignalIInv
<1> DEFINE held_action == disposition[sig]
           frame == [sig |-> sig, restorer |-> held_action.restorer, saved |-> mask[t]]
<1>1. held_action \in HeldActions /\ mask[t] \in SUBSET Int /\ handling[t] \in Seq(Frames)
  BY DEF SignalTypeOK
<1>2. frame \in Frames
  BY <1>1 DEF Frames, HeldActions
<1>3. UNCHANGED <<sigset, oldset, oldact, disposition, section, replaced, denoted>>
      /\ pending_signals' = [pending_signals EXCEPT ![t] = @ \ {sig}]
  BY DEF Deliver
<1>4. CASE UNCHANGED <<handling, mask>>
  <2>1. SignalTypeOK'
    BY <1>3, <1>4 DEF SignalTypeOK
  <2>2. \A u \in SignalThreads : (SetDenotes(u) /\ SectionKept(u) /\ ReplacedKept(u))'
    BY <1>3, <1>4 DEF SetDenotes, SectionKept, ReplacedKept, ToKernel
  <2> QED
    BY <2>1, <2>2
<1>5. CASE /\ handling' = [handling EXCEPT ![t] = Append(@, frame)]
           /\ mask' = [mask EXCEPT ![t] = @ \cup held_action.mask \cup {sig}]
  <2>1. mask[t] \cup held_action.mask \cup {sig} \in SUBSET Int
    BY <1>1, SignalsAssumption DEF HeldActions, SignalNumbers
  <2> HIDE DEF frame, held_action
  <2>2. Append(handling[t], frame) \in Seq(Frames)
        /\ Len(Append(handling[t], frame)) = Len(handling[t]) + 1
        /\ \A i \in 1..Len(handling[t]) : Append(handling[t], frame)[i] = handling[t][i]
        /\ Append(handling[t], frame)[Len(handling[t]) + 1] = frame
    BY <1>1, <1>2
  <2>3. SignalTypeOK'
    BY <1>3, <1>5, <2>1, <2>2 DEF SignalTypeOK
  <2>4. ASSUME NEW u \in SignalThreads
        PROVE  SetDenotes(u)' /\ ReplacedKept(u)'
    BY <1>3 DEF SetDenotes, ReplacedKept, ToKernel
  <2>5. ASSUME NEW u \in SignalThreads \ {t}
        PROVE  SectionKept(u)'
    BY <1>3, <1>5 DEF SectionKept, SignalTypeOK, ToKernel
  <2>6. SectionKept(t)'
    <3>1. /\ handling'[t] = Append(handling[t], frame) /\ mask[t] \subseteq mask'[t]
          /\ section'[t] = section[t] /\ oldset'[t] = oldset[t]
      BY <1>3, <1>5 DEF SignalTypeOK
    <3>2. frame.saved = mask[t]
      BY DEF frame
    <3>3. Len(handling[t]) \in Nat
      BY <1>1
    <3>4. ASSUME section[t] # <<>>
          PROVE  /\ section[t][1].depth \in 0..(Len(handling[t]) + 1)
                 /\ section[t][1].blocked \subseteq mask'[t]
                 /\ \A i \in (section[t][1].depth + 1)..(Len(handling[t]) + 1) :
                      section[t][1].blocked \subseteq Append(handling[t], frame)[i].saved
                 /\ ToKernel(oldset[t]) = section[t][1].mask
      <4>1. SectionKept(t)
        OBVIOUS
      <4>2. ASSUME NEW i \in (section[t][1].depth + 1)..(Len(handling[t]) + 1)
            PROVE  section[t][1].blocked \subseteq Append(handling[t], frame)[i].saved
        <5>1. CASE i = Len(handling[t]) + 1
          BY <2>2, <3>2, <3>4, <4>1, <5>1 DEF SectionKept
        <5>2. CASE i # Len(handling[t]) + 1
          <6>1. i \in (section[t][1].depth + 1)..Len(handling[t]) /\ i \in 1..Len(handling[t])
            BY <3>3, <3>4, <4>1, <5>2 DEF SectionKept
          <6> QED
            BY <2>2, <3>4, <4>1, <6>1 DEF SectionKept
        <5> QED
          BY <5>1, <5>2
      <4> QED
        BY <3>1, <3>3, <3>4, <4>1, <4>2 DEF SectionKept
    <3> QED
      BY <2>2, <3>1, <3>4 DEF SectionKept, ToKernel
  <2> QED
    BY <2>3, <2>4, <2>5, <2>6
<1> QED
  BY <1>4, <1>5 DEF Deliver

LEMMA ReturnsPreserves ==
  ASSUME SignalIInv, NEW t \in SignalThreads, HandlerReturns(t)
  PROVE  SignalIInv'
<1> USE DEF SignalIInv
<1> DEFINE depth == Len(handling[t])
           rest == SubSeq(handling[t], 1, depth - 1)
<1>1. handling[t] \in Seq(Frames) /\ handling[t] # <<>> /\ depth \in Nat \ {0}
  BY DEF HandlerReturns, SignalTypeOK
<1>2. handling[t][depth] \in Frames /\ handling[t][depth].saved \in SUBSET Int
  <2>1. handling[t][depth] \in Frames
    BY <1>1
  <2> QED
    BY <2>1 DEF Frames
<1>3. rest \in Seq(Frames) /\ Len(rest) = depth - 1
      /\ \A i \in 1..(depth - 1) : rest[i] = handling[t][i]
  BY <1>1
<1>4. /\ UNCHANGED <<sigset, oldset, oldact, disposition, pending_signals, section, replaced,
                     denoted>>
      /\ handling' = [handling EXCEPT ![t] = rest]
      /\ mask' = [mask EXCEPT ![t] = handling[t][depth].saved]
      /\ section[t] # <<>> => section[t][1].depth < depth
  BY DEF HandlerReturns
<1> HIDE DEF rest
<1>5. SignalTypeOK'
  BY <1>2, <1>3, <1>4 DEF SignalTypeOK
<1>6. ASSUME NEW u \in SignalThreads
      PROVE  SetDenotes(u)' /\ ReplacedKept(u)'
  BY <1>4 DEF SetDenotes, ReplacedKept, ToKernel
<1>7. ASSUME NEW u \in SignalThreads \ {t}
      PROVE  SectionKept(u)'
  BY <1>4 DEF SectionKept, SignalTypeOK, ToKernel
<1>8. SectionKept(t)'
  <2>1. handling'[t] = rest /\ mask'[t] = handling[t][depth].saved
        /\ section'[t] = section[t] /\ oldset'[t] = oldset[t]
    BY <1>4 DEF SignalTypeOK
  <2>2. ASSUME section[t] # <<>>
        PROVE  /\ section[t][1].depth \in 0..(depth - 1)
               /\ section[t][1].blocked \subseteq handling[t][depth].saved
               /\ \A i \in (section[t][1].depth + 1)..(depth - 1) :
                    section[t][1].blocked \subseteq rest[i].saved
               /\ ToKernel(oldset[t]) = section[t][1].mask
    <3>1. /\ section[t][1].depth \in 0..depth /\ section[t][1].depth < depth
          /\ \A i \in (section[t][1].depth + 1)..depth :
               section[t][1].blocked \subseteq handling[t][i].saved
          /\ ToKernel(oldset[t]) = section[t][1].mask
      BY <1>4, <2>2 DEF SectionKept
    <3>2. depth \in (section[t][1].depth + 1)..depth
      BY <1>1, <3>1
    <3>3. ASSUME NEW i \in (section[t][1].depth + 1)..(depth - 1)
          PROVE  section[t][1].blocked \subseteq rest[i].saved
      <4>1. i \in (section[t][1].depth + 1)..depth /\ i \in 1..(depth - 1)
        BY <1>1, <3>1
      <4> QED
        BY <1>3, <3>1, <4>1
    <3>4. section[t][1].depth \in 0..(depth - 1)
      BY <1>1, <3>1
    <3> QED
      BY <3>1, <3>2, <3>3, <3>4
  <2> QED
    BY <1>3, <2>1, <2>2 DEF SectionKept, ToKernel
<1> QED
  BY <1>5, <1>6, <1>7, <1>8

LEMMA SignalStepPreserves == SignalIInv /\ [SignalNext]_signal_vars => SignalIInv'
<1> SUFFICES ASSUME SignalIInv, [SignalNext]_signal_vars
             PROVE  SignalIInv'
  OBVIOUS
<1>1. ASSUME NEW t \in SignalThreads, SignalCall(t)
      PROVE  SignalIInv'
  <2>1. ASSUME NEW sig, raise(t, sig) \/ kill(t, sig)
        PROVE  SignalIInv'
    BY <2>1, PostPreserves DEF raise, kill
  <2> QED
    BY <1>1, <2>1, BuildPreserves, SectionPreserves, ActionPreserves DEF SignalCall
<1>2. CASE UNCHANGED signal_vars
  BY <1>2 DEF signal_vars, SignalIInv, SignalTypeOK, SetDenotes, SectionKept, ReplacedKept,
              ToKernel
<1> QED
  BY <1>1, <1>2, DeliverPreserves, ReturnsPreserves DEF SignalNext, Refusal

LEMMA SignalIInvSuffices == SignalIInv => SignalsAreKept
<1>1. SignalIInv => BlockedSignalsWait
  BY PlaceOfSignal
  DEF SignalIInv, BlockedSignalsWait, contains_signal, SetDenotes, SectionKept
<1>2. SignalIInv => SavedStateIsWhole
  <2> SUFFICES ASSUME SignalIInv, NEW t \in SignalThreads
               PROVE  /\ section[t] # <<>> => ToKernel(oldset[t]) = section[t][1].mask
                      /\ replaced[t] # <<>> =>
                           LET held_now == KernelAction(oldact[t])
                               was == replaced[t][1].action
                           IN /\ held_now.handler = was.handler /\ held_now.mask = was.mask
                              /\ was.restorer # NoRestorer =>
                                   held_now.restorer = was.restorer
                              /\ \A w \in Words \ {0} : oldact[t].mask[w] = {}
    BY DEF SavedStateIsWhole
  <2>1. SectionKept(t) /\ ReplacedKept(t)
    BY DEF SignalIInv
  <2>2. \A was \in HeldActions : was.mask \ Unblockable = was.mask
    BY DEF HeldActions
  <2> QED
    BY <2>1, <2>2 DEF SectionKept, ReplacedKept, KernelAction
<1> QED
  BY <1>1, <1>2 DEF SignalsAreKept

\* A signal a critical section blocks waits, and what a thread saved of its mask
\* or of a disposition is what it puts back, in any order of nested handlers,
\* sections and replacements of any number of threads.
THEOREM SavedSignals == SignalSpec => []SignalsAreKept
<1>1. SignalSpec => []SignalIInv
  BY SignalInitEstablishes, SignalStepPreserves, PTL DEF SignalSpec
<1> QED
  BY <1>1, SignalIInvSuffices, PTL

-----------------------------------------------------------------------------
(* System calls and errno *)

Kinds == {"silent", "status", "number", "identity", "terminal"}

\* What a thread finds after a call: `raw' is the register the call saw.
OutcomeFits(kind, raw, outcome) ==
  IF kind # "silent" /\ raw < 0
  THEN outcome.error = -raw /\ outcome.answer = IF kind = "terminal" THEN 0 ELSE -1
  ELSE /\ outcome.error = 0
       /\ kind \in {"number", "status"} => outcome.answer = raw
       /\ kind = "identity" => /\ (outcome.answer - raw) % (2 * SIGN_BIT) = 0
                               /\ outcome.answer \in (-SIGN_BIT)..(SIGN_BIT - 1)
       /\ kind = "terminal" => outcome.answer = 1

CallTypeOK ==
  /\ errno_of \in [CallThreads -> Nat] /\ before_of \in [CallThreads -> Nat]
  /\ DOMAIN answer = CallThreads
  /\ raw_of \in [CallThreads -> [kind : Kinds, raw : Int]]

CallIInv == CallTypeOK /\ ErrnoIsOfTheCaller

LEMMA CallInitEstablishes == CallInit => CallIInv
  BY DEF CallInit, CallIInv, CallTypeOK, ErrnoIsOfTheCaller, Kinds

LEMMA RegistersAreIntegers ==
  /\ \A raw \in Errors : raw \in (-MAX_ERRNO)..(-1)
  /\ \A raw \in Errors \cup {0} \cup KernelValues \cup KernelIds : raw \in Int
  /\ \A raw \in Errors \cup KernelIds : raw < 2 * SIGN_BIT
<1>1. ASSUME NEW raw \in Errors
      PROVE  raw \in (-MAX_ERRNO)..(-1) /\ raw \in Int /\ raw < 2 * SIGN_BIT
  <2>1. PICK error \in KernelErrors : raw = -error
    BY DEF Errors
  <2>2. error \in 1..MAX_ERRNO
    BY CallsAssumption
  <2> QED
    BY <2>1, <2>2, CallsAssumption
<1>2. ASSUME NEW raw \in KernelIds
      PROVE  raw \in Int /\ raw >= 0 /\ raw < 2 * SIGN_BIT
  <2>1. raw \in 0..(2 * SIGN_BIT - 1)
    BY CallsAssumption
  <2> QED
    BY <2>1, CallsAssumption
<1>3. ASSUME NEW raw \in {0} \cup KernelValues
      PROVE  raw \in Int /\ raw >= 0
  BY CallsAssumption
<1> QED
  BY <1>1, <1>2, <1>3

\* Every wrapper decodes its register as its kind asks.
LEMMA PassingFits ==
  ASSUME NEW raw \in Int, NEW kind \in {"status", "number"}
  PROVE  OutcomeFits(kind, raw, Passing(raw))
  BY DEF OutcomeFits, Passing, Failed, errno_from_raw

LEMMA StatusFits ==
  ASSUME NEW raw \in Errors \cup {0}
  PROVE  /\ OutcomeFits("status", raw, status_result(raw))
         /\ OutcomeFits("status", raw, syscall_status(raw))
         /\ OutcomeFits("terminal", raw, isatty(raw))
<1>1. raw \in (-MAX_ERRNO)..0
  BY CallsAssumption DEF Errors
<1> QED
  BY <1>1, CallsAssumption
  DEF OutcomeFits, status_result, syscall_status, decode_raw, isatty, Failed, errno_from_raw

LEMMA IdentityFits ==
  ASSUME NEW raw \in Errors \cup KernelIds
  PROVE  OutcomeFits("identity", raw, Identity(raw))
<1>1. raw \in Int /\ raw < 2 * SIGN_BIT
  BY RegistersAreIntegers
<1>2. CASE raw < 0
  BY <1>1, <1>2 DEF OutcomeFits, Identity, Failed, errno_from_raw
<1>3. CASE raw >= 0
  <2> DEFINE value == abi_u32_bits_as_c_int(raw)
  <2>1. value \in (-SIGN_BIT)..(SIGN_BIT - 1)
    BY <1>1, <1>3, CallsAssumption DEF abi_u32_bits_as_c_int
  <2>2. value - raw = 0 \/ value - raw = -(2 * SIGN_BIT)
    BY <1>1, CallsAssumption DEF abi_u32_bits_as_c_int
  <2>3. \A n \in Nat \ {0} : 0 % n = 0 /\ (-n) % n = 0
    OBVIOUS
  <2>4. (value - raw) % (2 * SIGN_BIT) = 0
    BY <2>2, <2>3, CallsAssumption
  <2> QED
    BY <1>1, <1>3, <2>1, <2>4 DEF OutcomeFits, Identity
<1> QED
  BY <1>1, <1>2, <1>3

\* A call that ends writes the errno of its own thread only.
LEMMA ReturnPreserves ==
  ASSUME CallIInv, NEW t \in CallThreads, NEW kind \in Kinds, NEW raw \in Int, NEW outcome,
         outcome.error \in Nat, OutcomeFits(kind, raw, outcome), Return(t, kind, raw, outcome)
  PROVE  CallIInv'
<1> USE DEF CallIInv
<1>1. CallTypeOK'
  BY DEF CallTypeOK, Return, set_errno
<1>2. ASSUME NEW u \in CallThreads \ {t}
      PROVE  /\ raw_of'[u] = raw_of[u] /\ errno_of'[u] = errno_of[u]
             /\ answer'[u] = answer[u] /\ before_of'[u] = before_of[u]
  BY DEF CallTypeOK, Return, set_errno
<1>3. /\ raw_of'[t] = [kind |-> kind, raw |-> raw] /\ answer'[t] = outcome.answer
      /\ before_of'[t] = errno_of[t]
      /\ errno_of'[t] = IF outcome.error = 0 THEN errno_of[t] ELSE outcome.error
  BY DEF CallTypeOK, Return, set_errno
<1>4. ErrnoIsOfTheCaller'
  BY <1>2, <1>3 DEF ErrnoIsOfTheCaller, OutcomeFits
<1> QED
  BY <1>1, <1>4

LEMMA SetlocalePreserves ==
  ASSUME CallIInv, NEW t \in CallThreads, setlocale(t)
  PROVE  CallIInv'
<1>1. PICK within \in KernelErrors, value \in {0, 1} :
        /\ before_of' = [before_of EXCEPT ![t] = errno_of[t]]
        /\ raw_of' = [raw_of EXCEPT ![t] = [kind |-> "silent", raw |-> 0]]
        /\ answer' = [answer EXCEPT ![t] = value]
        /\ errno_of' = [[errno_of EXCEPT ![t] = within] EXCEPT ![t] = errno_of[t]]
  BY DEF setlocale, ErrnoGuard, CallIInv, CallTypeOK
<1>2. errno_of' = errno_of
  BY <1>1 DEF CallIInv, CallTypeOK
<1>3. CallTypeOK'
  BY <1>1, <1>2 DEF CallIInv, CallTypeOK, Kinds
<1>4. ASSUME NEW u \in CallThreads \ {t}
      PROVE  /\ raw_of'[u] = raw_of[u] /\ answer'[u] = answer[u]
             /\ before_of'[u] = before_of[u]
  BY <1>1 DEF CallIInv, CallTypeOK
<1>5. raw_of'[t].kind = "silent" /\ before_of'[t] = errno_of'[t]
  BY <1>1, <1>2 DEF CallIInv, CallTypeOK
<1> QED
  BY <1>2, <1>3, <1>4, <1>5 DEF CallIInv, ErrnoIsOfTheCaller

LEMMA CallStepPreserves == CallIInv /\ [CallNext]_call_vars => CallIInv'
<1> SUFFICES ASSUME CallIInv, [CallNext]_call_vars
             PROVE  CallIInv'
  OBVIOUS
<1>1. Errors \subseteq Int /\ Registers \subseteq Int
  BY RegistersAreIntegers DEF Registers
<1>2. ASSUME NEW t \in CallThreads, NEW raw \in Int, NEW kind \in {"status", "number"},
             Return(t, kind, raw, Passing(raw))
      PROVE  CallIInv'
  <2>1. Passing(raw).error \in Nat
    BY DEF Passing, Failed, errno_from_raw
  <2> QED
    BY <1>2, <2>1, PassingFits, ReturnPreserves DEF Kinds
<1>3. ASSUME NEW t \in CallThreads,
             \/ access_unlink(t) \/ pipe(t) \/ fsync(t) \/ close_dup(t) \/ open(t) \/ openat(t)
             \/ accept(t) \/ getpid(t) \/ lseek(t) \/ read_write(t) \/ send_recv(t) \/ socket(t)
             \/ fcntl(t)
      PROVE  CallIInv'
  <2>1. \E raw \in Int, kind \in {"status", "number"} : Return(t, kind, raw, Passing(raw))
    BY <1>1, <1>3
    DEF access_unlink, pipe, fsync, close_dup, open, openat, accept, getpid, lseek, read_write,
        send_recv, socket, fcntl, fd_result
  <2> QED
    BY <1>2, <2>1
<1>4. ASSUME NEW t \in CallThreads, NEW raw \in Errors \cup {0}, NEW kind \in Kinds, NEW outcome,
             \/ kind = "status" /\ outcome \in {status_result(raw), syscall_status(raw)}
             \/ kind = "terminal" /\ outcome = isatty(raw),
             Return(t, kind, raw, outcome)
      PROVE  CallIInv'
  <2>1. raw \in (-MAX_ERRNO)..0
    BY CallsAssumption DEF Errors
  <2>2. outcome.error \in Nat
    BY <1>4, <2>1, CallsAssumption
    DEF status_result, syscall_status, decode_raw, isatty, Failed, errno_from_raw
  <2> QED
    BY <1>1, <1>4, <2>2, StatusFits, ReturnPreserves
<1>5. ASSUME NEW t \in CallThreads,
             stat(t) \/ connect_bind_listen(t) \/ prlimit64(t) \/ isatty_call(t)
      PROVE  CallIInv'
  BY <1>4, <1>5 DEF stat, connect_bind_listen, prlimit64, isatty_call, Kinds
<1>6. ASSUME NEW t \in CallThreads, getuid(t)
      PROVE  CallIInv'
  <2>1. PICK raw \in Errors \cup KernelIds : Return(t, "identity", raw, Identity(raw))
    BY <1>6 DEF getuid
  <2>2. raw \in Int
    BY RegistersAreIntegers
  <2>3. Identity(raw).error \in Nat
    BY <2>2 DEF Identity, Failed, errno_from_raw
  <2> QED
    BY <2>1, <2>2, <2>3, IdentityFits, ReturnPreserves DEF Kinds
<1>7. ASSUME NEW t \in CallThreads, sync_call(t)
      PROVE  CallIInv'
  <2>1. Return(t, "silent", 0, sync(0)) /\ sync(0).error \in Nat
    BY <1>7 DEF sync_call, sync
  <2>2. OutcomeFits("silent", 0, sync(0))
    BY DEF OutcomeFits, sync
  <2> QED
    BY <2>1, <2>2, ReturnPreserves DEF Kinds
<1>8. ASSUME NEW t \in CallThreads, NullRlimit(t)
      PROVE  CallIInv'
  <2> DEFINE refusal == [answer |-> -1, error |-> EFAULT_NUMBER]
  <2>1. /\ Return(t, "status", -EFAULT_NUMBER, refusal)
        /\ refusal.error \in Nat /\ -EFAULT_NUMBER \in Int
    BY <1>8, CallsAssumption DEF NullRlimit
  <2>2. OutcomeFits("status", -EFAULT_NUMBER, refusal)
    BY CallsAssumption DEF OutcomeFits
  <2> QED
    BY <2>1, <2>2, ReturnPreserves DEF Kinds
<1>9. CASE UNCHANGED call_vars
  BY <1>9 DEF call_vars, CallIInv, CallTypeOK, ErrnoIsOfTheCaller
<1> QED
  BY <1>3, <1>5, <1>6, <1>7, <1>8, <1>9, SetlocalePreserves DEF CallNext

\* A call's error number reaches the errno of the thread that made it, and no
\* success or other thread's call disturbs it.
THEOREM ErrnoBelongsToCaller == CallSpec => []ErrnoIsOfTheCaller
<1>1. CallIInv => ErrnoIsOfTheCaller
  BY DEF CallIInv
<1>2. CallSpec => []CallIInv
  BY CallInitEstablishes, CallStepPreserves, PTL DEF CallSpec
<1> QED
  BY <1>1, <1>2, PTL

\* resolve_all_categories_from_environment and the rule for one category agree,
\* whatever the environment says.
LEMMA LocaleRulesAgree ==
  ASSUME NEW environment
  PROVE  LocaleIsUniform(environment)
<1>1. \A category \in CATEGORY_VARIABLES :
        Localised(environment, category, "")
          = resolve_category_locale_from_environment(environment, category)
  BY DEF Localised, CATEGORY_VARIABLES, LocaleNames
<1>2. Localised(environment, "LC_ALL", "") = resolve_all_categories_from_environment(environment)
  BY DEF Localised, CATEGORY_VARIABLES, LocaleNames
<1>3. \E category \in CATEGORY_VARIABLES : TRUE
  BY DEF CATEGORY_VARIABLES
<1> QED
  BY <1>1, <1>2, <1>3
  DEF LocaleIsUniform, resolve_all_categories_from_environment,
      resolve_category_locale_from_environment

\* In the composition of the services, errno and the locale are exact, whichever
\* service a behaviour uses.
THEOREM ErrnoAndLocale == ServicesSpec => []ErrnoAndLocaleAreExact
<1>1. ServicesInit => CallIInv
  BY CallInitEstablishes DEF ServicesInit
<1>2. CallIInv /\ [ServicesNext]_service_vars => CallIInv'
  BY CallStepPreserves DEF ServicesNext, service_vars
<1>3. CallIInv => ErrnoAndLocaleAreExact
  BY LocaleRulesAgree DEF CallIInv, ErrnoAndLocaleAreExact
<1> QED
  BY <1>1, <1>2, <1>3, PTL DEF ServicesSpec

\* And the other services keep what they promise there too: their theorems above
\* hold of the specification that the run checks.
THEOREM ServicesKeepTheirPromises ==
  ServicesSpec => [](/\ HeapIsSound /\ HandleCountsMatchClients /\ DlerrorIsOfLastFailure
                     /\ SignalsAreKept /\ MutexesAreAsConfigured)
<1>1. ServicesInit => HeapIInv /\ LoaderIInv /\ SignalIInv /\ AttrIInv
  BY HeapInitEstablishes, LoaderInitEstablishes, SignalInitEstablishes, AttrInitEstablishes DEF ServicesInit
<1>2. /\ HeapIInv /\ [ServicesNext]_service_vars => HeapIInv'
      /\ LoaderIInv /\ [ServicesNext]_service_vars => LoaderIInv'
      /\ SignalIInv /\ [ServicesNext]_service_vars => SignalIInv'
      /\ AttrIInv /\ [ServicesNext]_service_vars => AttrIInv'
  BY HeapStepPreserves, LoaderStepPreserves, SignalStepPreserves, AttrStepPreserves DEF ServicesNext, service_vars
<1>3. LoaderIInv => HandleCountsMatchClients /\ DlerrorIsOfLastFailure
  BY DEF LoaderIInv
<1>4. HeapIInv => HeapIsSound
  BY BlocksAreBacked, HoldersAreAccounted DEF HeapIsSound
<1> QED
  BY <1>1, <1>2, <1>3, <1>4, SignalIInvSuffices, AttrIInvSuffices, PTL DEF ServicesSpec
=============================================================================
