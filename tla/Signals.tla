------------------------------- MODULE Signals -------------------------------
(***************************************************************************)
(* Signal sets, dispositions and masks (src/src/signal.rs).  A SigSet is   *)
(* SIGSET_WORDS words of BITS_PER_WORD bits; the kernel reads and writes   *)
(* its first word only.  Dispositions belong to the process, masks to the  *)
(* threads.  Each thread owns one SigSet and one SigAction it builds, and  *)
(* one of each that the library fills (oldset, oldact), whose storage      *)
(* starts dirty.  The kernel (rt_sigaction, rt_sigprocmask, tgkill, kill,  *)
(* delivery and return) is external.  A thread uses its calls as programs  *)
(* do: it blocks a set around a critical section and puts back what it     *)
(* saved, and it replaces a disposition and reinstalls what it saved.      *)
(***************************************************************************)
EXTENDS Integers, Sequences, FiniteSets

CONSTANTS
    SignalThreads,      \* the threads of the process
    SIGSET_WORDS,       \* words of a SigSet
    BITS_PER_WORD,      \* bits of a word
    MAX_KERNEL_SIGNAL,  \* the largest signal
    SIGKILL, SIGSTOP,   \* the two signals no program handles
    Handlers,           \* handler functions of the program
    OwnRestorer,        \* a restorer function of the program
    BadNumbers,         \* numbers that name no signal
    MaxHandlerDepth,    \* bound: handlers a thread runs at once
    MaxSignalCalls      \* bound: calls of the library in a behaviour

VARIABLES
    sigset,       \* thread -> the SigSet it builds
    oldset,       \* thread -> the SigSet sigprocmask fills
    oldact,       \* thread -> the SigAction sigaction fills
    mask,         \* thread -> signals the kernel blocks
    disposition,  \* signal -> the SigAction the kernel holds
    pending_signals,      \* thread -> signals raised and not delivered
    handling,     \* thread -> stack of [sig, restorer, saved mask]
    section,      \* thread -> <<>> or what it saved: [handling, mask, blocked]
    replaced,     \* thread -> <<>> or what it replaced: [sig, action]
    denoted,      \* thread -> the set its calls on sigset denote
    calls         \* calls made, for the bound
signal_vars == <<sigset, oldset, oldact, mask, disposition, pending_signals, handling,
                 section, replaced, denoted, calls>>

(* Every signal has its bit in the first word, the one the kernel sees.    *)
ASSUME SignalsAssumption ==
    /\ SIGSET_WORDS \in Nat \ {0} /\ BITS_PER_WORD \in Nat \ {0}
    /\ MAX_KERNEL_SIGNAL \in 1..BITS_PER_WORD

SignalNumbers == 1..MAX_KERNEL_SIGNAL
Words == 0..(SIGSET_WORDS - 1)
Bits == 0..(BITS_PER_WORD - 1)
SIG_DFL == "SIG_DFL"
SIG_IGN == "SIG_IGN"
NoRestorer == "null"
Trampoline == "rlibc_rt_sigreturn_trampoline"

(***************************************************************************)
(* Representation of a set.                                                *)
(***************************************************************************)
signal_word_and_bit(sig) ==
    IF sig \in SignalNumbers /\ (sig - 1) \div BITS_PER_WORD < SIGSET_WORDS
    THEN <<(sig - 1) \div BITS_PER_WORD, (sig - 1) % BITS_PER_WORD>>
    ELSE <<>>

EmptySigSet == [w \in Words |-> {}]
FullSigSet == [w \in Words |-> Bits]

MutWithBit_Assigns(set, place, on) ==
    [set EXCEPT ![place[1]] = IF on THEN {place[2]} ELSE {}]

WithBit(set, place, on) ==
    [set EXCEPT ![place[1]] = IF on THEN @ \union {place[2]} ELSE @ \ {place[2]}]

contains_signal(set, sig) ==
    LET place == signal_word_and_bit(sig)
    IN place # <<>> /\ place[2] \in set[place[1]]

(* The kernel copies kernel_sigset_size() bytes: the first word.           *)
FromKernel(set, blocked) ==
    [set EXCEPT ![0] = {sig - 1 : sig \in blocked}]

ToKernel(set) == {bit + 1 : bit \in set[0]}

Unblockable == {SIGKILL, SIGSTOP}

(***************************************************************************)
(* sigemptyset, sigfillset, sigaddset, sigdelset: each returns -1 and      *)
(* leaves the set alone for a null set or a number that names no signal.   *)
(***************************************************************************)
SetUnchanged == UNCHANGED <<oldset, oldact, mask, disposition, pending_signals,
                            handling, section, replaced>>

sigemptyset(t) ==
    /\ sigset' = [sigset EXCEPT ![t] = EmptySigSet]
    /\ denoted' = [denoted EXCEPT ![t] = {}]
    /\ SetUnchanged

sigfillset(t) ==
    /\ sigset' = [sigset EXCEPT ![t] = FullSigSet]
    /\ denoted' = [denoted EXCEPT ![t] = SignalNumbers]
    /\ SetUnchanged

sigaddset(t, sig) ==
    LET place == signal_word_and_bit(sig)
    IN /\ place # <<>>
       /\ sigset' = [sigset EXCEPT ![t] = WithBit(@, place, TRUE)]
       /\ denoted' = [denoted EXCEPT ![t] = @ \union {sig}]
       /\ SetUnchanged

sigdelset(t, sig) ==
    LET place == signal_word_and_bit(sig)
    IN /\ place # <<>>
       /\ sigset' = [sigset EXCEPT ![t] = WithBit(@, place, FALSE)]
       /\ denoted' = [denoted EXCEPT ![t] = @ \ {sig}]
       /\ SetUnchanged

(***************************************************************************)
(* sigprocmask: the mask the call leaves, as the kernel computes it.       *)
(***************************************************************************)
is_valid_sigprocmask_how(how) == how \in {"SIG_BLOCK", "SIG_UNBLOCK", "SIG_SETMASK"}

KernelMask(current, how, given) ==
    CASE how = "SIG_BLOCK" -> (current \union given) \ Unblockable
      [] how = "SIG_UNBLOCK" -> current \ given
      [] OTHER -> given \ Unblockable

(* `set` is <<>> for a null pointer or <<SigSet>>; with both pointers null  *)
(* nothing is called, and a null `set` only reads.                          *)
sigprocmask(t, how, set, fetch) ==
    /\ set # <<>> => is_valid_sigprocmask_how(how)
    /\ LET effective_how == IF set = <<>> THEN "SIG_SETMASK" ELSE how
       IN mask' = IF set = <<>> THEN mask
                  ELSE [mask EXCEPT ![t] = KernelMask(@, effective_how, ToKernel(set[1]))]
    /\ oldset' = [oldset EXCEPT ![t] = IF fetch THEN FromKernel(@, mask[t]) ELSE @]

MaskUnchanged == UNCHANGED <<sigset, oldact, disposition, pending_signals, handling,
                             replaced, denoted>>

(* A critical section: block the set, later put the saved mask back.       *)
EnterSection(t) ==
    /\ section[t] = <<>>
    /\ sigprocmask(t, "SIG_BLOCK", <<sigset[t]>>, TRUE)
    /\ section' = [section EXCEPT ![t] =
           <<[depth |-> Len(handling[t]), mask |-> mask[t],
              blocked |-> denoted[t] \ Unblockable]>>]
    /\ MaskUnchanged

LeaveSection(t) ==
    /\ section[t] # <<>>
    /\ section[t][1].depth = Len(handling[t])
    /\ sigprocmask(t, "SIG_SETMASK", <<oldset[t]>>, FALSE)
    /\ section' = [section EXCEPT ![t] = <<>>]
    /\ MaskUnchanged

(* Queries and refused calls, at any time; outside a section the saved set  *)
(* is free to be overwritten, inside it the thread asks for nothing.        *)
QueryMask(t, how) ==
    /\ section[t] = <<>>
    /\ sigprocmask(t, how, <<>>, TRUE)
    /\ UNCHANGED section /\ MaskUnchanged

UnblockMask(t) ==
    /\ section[t] = <<>>
    /\ sigprocmask(t, "SIG_UNBLOCK", <<sigset[t]>>, FALSE)
    /\ UNCHANGED section /\ MaskUnchanged

(***************************************************************************)
(* sigaction.                                                              *)
(***************************************************************************)
DefaultAction == [handler |-> SIG_DFL, has_restorer |-> FALSE,
                  restorer |-> NoRestorer, mask |-> EmptySigSet]

(* process_vm_readv copies the whole record or the call fails with EFAULT.  *)
copy_sigaction_from_user(act, readable) == IF readable THEN <<act>> ELSE <<>>

(* The copy handed to the kernel, whose mask is the first word; `asked`    *)
(* records whether the caller's flags had SA_RESTORER.                     *)
KernelAction(act) ==
    [handler |-> act.handler,
     asked |-> act.has_restorer,
     has_restorer |-> TRUE,
     restorer |-> IF act.restorer = NoRestorer THEN Trampoline ELSE act.restorer,
     mask |-> ToKernel(act.mask) \ Unblockable]

MutFilled_KeepsHighWords(storage, held) ==
    [handler |-> held.handler, has_restorer |-> held.has_restorer,
     restorer |-> held.restorer,
     mask |-> FromKernel(storage.mask, held.mask)]

(* What the caller finds in oldact: the kernel writes the first word and   *)
(* the others are cleared.                                                 *)
Filled(storage, held) ==
    [handler |-> held.handler, has_restorer |-> held.has_restorer,
     restorer |-> held.restorer,
     mask |-> FromKernel([w \in Words |-> {}], held.mask)]

sigaction(t, signum, act, fetch) ==
    /\ signal_word_and_bit(signum) # <<>> /\ signum \notin Unblockable
    /\ disposition' = IF act = <<>> THEN disposition
                      ELSE [disposition EXCEPT ![signum] = KernelAction(act[1])]
    /\ oldact' = [oldact EXCEPT ![t] =
           IF fetch THEN Filled(@, disposition[signum]) ELSE @]
    /\ UNCHANGED <<sigset, oldset, mask, pending_signals, handling, section, denoted>>

Actions(t) ==
    [handler: Handlers \union {SIG_DFL, SIG_IGN}, has_restorer: BOOLEAN,
     restorer: {NoRestorer, OwnRestorer}, mask: {sigset[t]}]

NobodyReplaces(sig) ==
    \A u \in SignalThreads : replaced[u] # <<>> => replaced[u][1].sig # sig

ReplaceAction(t, signum, act) ==
    /\ replaced[t] = <<>> /\ NobodyReplaces(signum)
    /\ sigaction(t, signum, copy_sigaction_from_user(act, TRUE), TRUE)
    /\ replaced' = [replaced EXCEPT ![t] = <<[sig |-> signum,
                                              action |-> disposition[signum]]>>]

ReinstateAction(t) ==
    /\ replaced[t] # <<>>
    /\ sigaction(t, replaced[t][1].sig, <<oldact[t]>>, FALSE)
    /\ replaced' = [replaced EXCEPT ![t] = <<>>]

QueryAction(t, signum) ==
    /\ replaced[t] = <<>>
    /\ sigaction(t, signum, <<>>, TRUE)
    /\ UNCHANGED replaced

(* Every refusal: a number that names no signal, an unreadable action, an   *)
(* unknown `how`; nothing but errno changes.                                *)
Refusal(sig, how, readable) ==
    /\ \/ signal_word_and_bit(sig) = <<>> \/ sig \in Unblockable
       \/ copy_sigaction_from_user(DefaultAction, readable) = <<>>
       \/ ~is_valid_sigprocmask_how(how)
    /\ UNCHANGED signal_vars

(***************************************************************************)
(* raise and kill; delivery and return are the kernel's.                   *)
(***************************************************************************)
is_valid_delivery_signal(sig) == sig = 0 \/ sig \in SignalNumbers

Post(t, sig) ==
    /\ is_valid_delivery_signal(sig)
    /\ pending_signals' = [pending_signals EXCEPT ![t] = IF sig = 0 THEN @ ELSE @ \union {sig}]
    /\ UNCHANGED <<sigset, oldset, oldact, mask, disposition, handling, section,
                   replaced, denoted>>

raise(t, sig) == sig \notin Unblockable /\ Post(t, sig)

kill(t, sig) == sig \notin Unblockable /\ \E u \in SignalThreads : Post(u, sig)

(* A signal that would end the process is not delivered in this model.     *)
Deliver(t, sig) ==
    LET held == disposition[sig]
    IN /\ sig \in pending_signals[t] /\ sig \notin mask[t]
       /\ held.handler # SIG_DFL
       /\ Len(handling[t]) < MaxHandlerDepth
       /\ pending_signals' = [pending_signals EXCEPT ![t] = @ \ {sig}]
       /\ IF held.handler = SIG_IGN
          THEN UNCHANGED <<handling, mask>>
          ELSE /\ handling' = [handling EXCEPT ![t] =
                      Append(@, [sig |-> sig, restorer |-> held.restorer,
                                 saved |-> mask[t]])]
               /\ mask' = [mask EXCEPT ![t] = @ \union held.mask \union {sig}]
       /\ UNCHANGED <<sigset, oldset, oldact, disposition, section, replaced, denoted>>

(* A handler returns into its restorer, which makes the rt_sigreturn call.  *)
HandlerReturns(t) ==
    /\ handling[t] # <<>>
    /\ section[t] # <<>> => section[t][1].depth < Len(handling[t])
    /\ LET frame == handling[t][Len(handling[t])]
       IN /\ frame.restorer \in {Trampoline, OwnRestorer}
          /\ mask' = [mask EXCEPT ![t] = frame.saved]
    /\ handling' = [handling EXCEPT ![t] = SubSeq(@, 1, Len(@) - 1)]
    /\ UNCHANGED <<sigset, oldset, oldact, disposition, pending_signals, section, replaced,
                   denoted>>

SignalInit ==
    /\ sigset = [t \in SignalThreads |-> EmptySigSet]
    /\ denoted = [t \in SignalThreads |-> {}]
    /\ oldset = [t \in SignalThreads |-> FullSigSet]
    /\ oldact = [t \in SignalThreads |-> [DefaultAction EXCEPT !.mask = FullSigSet]]
    /\ mask = [t \in SignalThreads |-> {}]
    /\ disposition = [sig \in SignalNumbers |->
           [handler |-> SIG_DFL, asked |-> TRUE, has_restorer |-> FALSE,
            restorer |-> NoRestorer, mask |-> {}]]
    /\ pending_signals = [t \in SignalThreads |-> {}]
    /\ handling = [t \in SignalThreads |-> <<>>]
    /\ section = [t \in SignalThreads |-> <<>>]
    /\ replaced = [t \in SignalThreads |-> <<>>]
    /\ calls = 0

SignalCall(t) ==
    \/ sigemptyset(t) \/ sigfillset(t)
    \/ \E sig \in SignalNumbers \union BadNumbers :
           \/ sigaddset(t, sig) \/ sigdelset(t, sig)
           \/ raise(t, sig) \/ kill(t, sig)
           \/ QueryAction(t, sig)
           \/ \E act \in Actions(t) : ReplaceAction(t, sig, act)
    \/ \E how \in {"SIG_BLOCK", "other"} : QueryMask(t, how)
    \/ EnterSection(t) \/ LeaveSection(t) \/ UnblockMask(t)
    \/ ReinstateAction(t)

SignalNext ==
    \/ /\ calls < MaxSignalCalls
       /\ \E t \in SignalThreads : SignalCall(t)
       /\ calls' = calls + 1
    \/ /\ \E t \in SignalThreads :
              HandlerReturns(t) \/ \E sig \in SignalNumbers : Deliver(t, sig)
       /\ UNCHANGED calls
    \/ \E sig \in BadNumbers, how \in {"SIG_BLOCK", "other"}, readable \in BOOLEAN :
           Refusal(sig, how, readable)

SignalSpec == SignalInit /\ [][SignalNext]_signal_vars

(***************************************************************************)
(* Properties.                                                             *)
(***************************************************************************)
(* The words of a SigSet hold exactly the signals the caller put in it, and *)
(* a signal a critical section blocks stays blocked for as long as it lasts *)
(* (sigaddset, sigdelset, sigprocmask): handlers that run inside the        *)
(* section on the same thread, with their own masks, and other threads'     *)
(* calls change nothing of it.                                              *)
BlockedSignalsWait ==
    \A t \in SignalThreads :
        /\ \A sig \in SignalNumbers : contains_signal(sigset[t], sig) <=> sig \in denoted[t]
        /\ section[t] # <<>> => section[t][1].blocked \subseteq mask[t]

(* What a thread saves can be put back: the mask sigprocmask stored is the  *)
(* one that LeaveSection restores, and the SigAction sigaction stored, with *)
(* no stale word of the caller's storage in its mask, reinstalls the        *)
(* disposition that was replaced, restorer included.                        *)
SavedStateIsWhole ==
    \A t \in SignalThreads :
        /\ section[t] # <<>> => ToKernel(oldset[t]) = section[t][1].mask
        /\ replaced[t] # <<>> =>
               LET held == KernelAction(oldact[t]) was == replaced[t][1].action
               IN /\ held.handler = was.handler /\ held.mask = was.mask
                  /\ was.restorer # NoRestorer => held.restorer = was.restorer
                  /\ \A w \in Words \ {0} : oldact[t].mask[w] = {}

(* Blocked signals wait, and what a thread saved of its mask or of a        *)
(* disposition is what it puts back, in any order of nested handlers,       *)
(* sections and replacements.                                               *)
SignalsAreKept == BlockedSignalsWait /\ SavedStateIsWhole

(* "when `act` is non-null and `SA_RESTORER` is omitted, `rlibc` provides   *)
(* an internal `rt_sigreturn` trampoline": a handler installed without the  *)
(* flag returns through the trampoline.                                     *)
HandlersReturnByTrampoline ==
    \A sig \in SignalNumbers :
        disposition[sig].handler \in Handlers /\ ~disposition[sig].asked
            => disposition[sig].restorer = Trampoline
=============================================================================
