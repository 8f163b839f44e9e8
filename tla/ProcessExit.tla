---------------------------- MODULE ProcessExit ----------------------------
(* Process start and termination: src/src/startup.rs (constructors, main,  *)
(* destructors, exit) and src/src/stdlib/process.rs (atexit, exit, _Exit,  *)
(* abort).                                                                 *)
(*                                                                         *)
(* Every thread has a stack of frames, the last one running.  A frame is   *)
(* either a loop of the library or code of the program: a constructor,     *)
(* main, a destructor, an atexit handler, a SIGABRT handler or the body of *)
(* a thread.  Program code may call any of the functions in any order.     *)
(* The Mutex around the handler list is held for one push or one pop, and  *)
(* not while a handler runs.                                               *)
EXTENDS Naturals, Sequences, FiniteSets

CONSTANTS
  Threads, Main,
  InitArray,            \* one BOOLEAN per slot: does it hold a callable address?
  FiniArray,
  ATEXIT_MAX_HANDLERS,
  MaxRegistrations,     \* bound on the successful calls of atexit
  MaxFrames             \* bound on the stack of a thread

ASSUME ProcessAssumption ==
  /\ Main \in Threads
  /\ InitArray \in Seq(BOOLEAN) /\ FiniArray \in Seq(BOOLEAN)
  /\ ATEXIT_MAX_HANDLERS \in Nat /\ MaxRegistrations \in Nat /\ MaxFrames \in Nat

VARIABLES
  handlers,      \* AT_EXIT_HANDLERS: the numbers of the registrations
  registered,    \* successful registrations so far
  started,       \* handlers that exit has called, in order
  returned,      \* those of them that returned
  constructed,   \* slots of the two arrays that were called, in order
  destructed,
  stack,
  disposition,   \* of SIGABRT, process-wide: "default", "ignore" or "catch"
  blocked,       \* SIGABRT in the mask of each thread
  outcome        \* how the process ended, or "running"

listVars == <<handlers, registered, started, returned>>
arrayVars == <<constructed, destructed>>
signalVars == <<disposition, blocked>>
vars == <<listVars, arrayVars, stack, signalVars, outcome>>

Frame(what, arg) == [what |-> what, arg |-> arg]
ProgramCode == {"constructor", "main", "destructor", "handler", "on_abort", "thread"}
LibraryCode == {"init_array", "fini_array", "exit", "terminate", "abort"}
Outcomes == {"running", "exit", "_Exit", "SIGABRT", "abort_status"}

ProcessTypeOK ==
  /\ handlers \in Seq(1..MaxRegistrations) /\ Len(handlers) <= ATEXIT_MAX_HANDLERS
  /\ registered \in 0..MaxRegistrations
  /\ started \in Seq(1..registered)
  /\ returned \subseteq 1..registered
  /\ constructed \in Seq(DOMAIN InitArray) /\ destructed \in Seq(DOMAIN FiniArray)
  /\ \A t \in Threads : \A i \in DOMAIN stack[t] :
       stack[t][i].what \in ProgramCode \cup LibraryCode
  /\ disposition \in {"default", "ignore", "catch"}
  /\ blocked \in [Threads -> BOOLEAN]
  /\ outcome \in Outcomes

(* __libc_start_main: without a main the process exits at once.            *)
Init ==
  /\ handlers = <<>> /\ registered = 0 /\ started = <<>> /\ returned = {}
  /\ constructed = <<>> /\ destructed = <<>>
  /\ \E first \in {Frame("init_array", 1), Frame("exit", 0)} :
       stack = [t \in Threads |-> IF t = Main THEN <<first>> ELSE <<Frame("thread", 0)>>]
  /\ disposition = "default" /\ blocked = [t \in Threads |-> FALSE]
  /\ outcome = "running"

---------------------------------------------------------------------------
Top(t) == stack[t][Len(stack[t])]
Runs(t, what) == outcome = "running" /\ stack[t] # <<>> /\ Top(t).what = what
RunsProgram(t) == outcome = "running" /\ stack[t] # <<>> /\ Top(t).what \in ProgramCode

Below(t) == SubSeq(stack[t], 1, Len(stack[t]) - 1)
Push(t, frame) == stack' = [stack EXCEPT ![t] = Append(@, frame)]
Replace(t, frame) == stack' = [stack EXCEPT ![t] = Append(Below(t), frame)]
Pop(t) == stack' = [stack EXCEPT ![t] = Below(t)]
(* The running loop advances to next and calls program code.               *)
CallFrom(t, next, frame) ==
  stack' = [stack EXCEPT ![t] = Below(t) \o <<next, frame>>]

(* run_init_array_range: ascending, slots without a callable address are   *)
(* skipped; then main.                                                     *)
MutRunInitArray_StopsAtNull(t) ==
  /\ Runs(t, "init_array")
  /\ LET slot == Top(t).arg IN
     \/ /\ slot <= Len(InitArray) /\ InitArray[slot]
        /\ CallFrom(t, Frame("init_array", slot + 1), Frame("constructor", slot))
        /\ constructed' = Append(constructed, slot)
     \/ /\ slot > Len(InitArray) \/ ~InitArray[slot]
        /\ Replace(t, Frame("main", 0))
        /\ UNCHANGED constructed
  /\ UNCHANGED <<listVars, destructed, signalVars, outcome>>

RunInitArray(t) ==
  /\ Runs(t, "init_array")
  /\ LET slot == Top(t).arg IN
     \/ /\ slot <= Len(InitArray) /\ InitArray[slot]
        /\ CallFrom(t, Frame("init_array", slot + 1), Frame("constructor", slot))
        /\ constructed' = Append(constructed, slot)
     \/ /\ slot <= Len(InitArray) /\ ~InitArray[slot]
        /\ Replace(t, Frame("init_array", slot + 1))
        /\ UNCHANGED constructed
     \/ /\ slot > Len(InitArray)
        /\ Replace(t, Frame("main", 0))
        /\ UNCHANGED constructed
  /\ UNCHANGED <<listVars, destructed, signalVars, outcome>>

(* run_fini_array_range: descending; then exit.                            *)
RunFiniArray(t) ==
  /\ Runs(t, "fini_array")
  /\ LET slot == Top(t).arg IN
     \/ /\ slot >= 1 /\ FiniArray[slot]
        /\ CallFrom(t, Frame("fini_array", slot - 1), Frame("destructor", slot))
        /\ destructed' = Append(destructed, slot)
     \/ /\ slot >= 1 /\ ~FiniArray[slot]
        /\ Replace(t, Frame("fini_array", slot - 1))
        /\ UNCHANGED destructed
     \/ /\ slot = 0
        /\ Replace(t, Frame("exit", 0))
        /\ UNCHANGED destructed
  /\ UNCHANGED <<listVars, constructed, signalVars, outcome>>

(* Program code returns.  sigreturn restores the mask of the raise, which  *)
(* had SIGABRT unblocked.                                                  *)
ReturnFromCode(t) ==
  /\ RunsProgram(t)
  /\ IF Top(t).what = "main" THEN Replace(t, Frame("fini_array", Len(FiniArray))) ELSE Pop(t)
  /\ returned' = IF Top(t).what = "handler" THEN returned \cup {Top(t).arg} ELSE returned
  /\ blocked' = IF Top(t).what = "on_abort" THEN [blocked EXCEPT ![t] = FALSE] ELSE blocked
  /\ UNCHANGED <<handlers, registered, started, arrayVars, disposition, outcome>>

---------------------------------------------------------------------------
MutAtexit_OneTooMany(t) ==
  /\ RunsProgram(t)
  /\ registered < MaxRegistrations
  /\ Len(handlers) <= ATEXIT_MAX_HANDLERS
  /\ registered' = registered + 1
  /\ handlers' = Append(handlers, registered + 1)
  /\ UNCHANGED <<started, returned, arrayVars, stack, signalVars, outcome>>

(* A full list refuses the registration and changes nothing.               *)
Atexit(t) ==
  /\ RunsProgram(t)
  /\ registered < MaxRegistrations
  /\ Len(handlers) < ATEXIT_MAX_HANDLERS
  /\ registered' = registered + 1
  /\ handlers' = Append(handlers, registered + 1)
  /\ UNCHANGED <<started, returned, arrayVars, stack, signalVars, outcome>>

Exit(t) ==
  /\ RunsProgram(t) /\ Len(stack[t]) < MaxFrames
  /\ Push(t, Frame("exit", 0))
  /\ UNCHANGED <<listVars, arrayVars, signalVars, outcome>>

MutRunAtexitHandler_PopsAfter(t) ==
  /\ Runs(t, "exit")
  /\ handlers # <<>>
  /\ LET handler == handlers[Len(handlers)] IN
       started' = Append(started, handler) /\ Push(t, Frame("handler", handler))
  /\ UNCHANGED <<handlers, registered, returned, arrayVars, signalVars, outcome>>

MutRunAtexitHandler_Oldest(t) ==
  /\ Runs(t, "exit")
  /\ handlers # <<>>
  /\ handlers' = Tail(handlers)
  /\ started' = Append(started, handlers[1])
  /\ Push(t, Frame("handler", handlers[1]))
  /\ UNCHANGED <<registered, returned, arrayVars, signalVars, outcome>>

(* One round of run_atexit_handlers: the newest handler is removed from    *)
(* the list and called with the list unlocked.                             *)
RunAtexitHandler(t) ==
  /\ Runs(t, "exit")
  /\ handlers # <<>>
  /\ LET handler == handlers[Len(handlers)] IN
     /\ handlers' = SubSeq(handlers, 1, Len(handlers) - 1)
     /\ started' = Append(started, handler)
     /\ Push(t, Frame("handler", handler))
  /\ UNCHANGED <<registered, returned, arrayVars, signalVars, outcome>>

MutNoHandlerLeft_AfterOne(t) ==
  /\ Runs(t, "exit")
  /\ handlers = <<>> \/ started # <<>>
  /\ Replace(t, Frame("terminate", "exit"))
  /\ UNCHANGED <<listVars, arrayVars, signalVars, outcome>>

NoHandlerLeft(t) ==
  /\ Runs(t, "exit")
  /\ handlers = <<>>
  /\ Replace(t, Frame("terminate", "exit"))
  /\ UNCHANGED <<listVars, arrayVars, signalVars, outcome>>

(* terminate_immediately: exit_group ends all threads.                     *)
Terminate(t) ==
  /\ Runs(t, "terminate")
  /\ outcome' = Top(t).arg
  /\ UNCHANGED <<listVars, arrayVars, stack, signalVars>>

QuickExit(t) ==                        \* _Exit
  /\ RunsProgram(t) /\ Len(stack[t]) < MaxFrames
  /\ Push(t, Frame("terminate", "_Exit"))
  /\ UNCHANGED <<listVars, arrayVars, signalVars, outcome>>

---------------------------------------------------------------------------
(* abort: unblock, raise, reset the disposition, raise, terminate.         *)
Abort(t) ==
  /\ RunsProgram(t) /\ Len(stack[t]) < MaxFrames
  /\ Push(t, Frame("abort", "unblock"))
  /\ UNCHANGED <<listVars, arrayVars, signalVars, outcome>>

InAbort(t, step) == Runs(t, "abort") /\ Top(t).arg = step

MutUnblock_Not(t) ==
  /\ InAbort(t, "unblock")
  /\ Replace(t, Frame("abort", "raise"))
  /\ UNCHANGED <<listVars, arrayVars, signalVars, outcome>>

Unblock(t) ==
  /\ InAbort(t, "unblock")
  /\ blocked' = [blocked EXCEPT ![t] = FALSE]
  /\ Replace(t, Frame("abort", "raise"))
  /\ UNCHANGED <<listVars, arrayVars, disposition, outcome>>

(* raise(SIGABRT) in the running thread, then the next step of abort.      *)
Raise(t, next) ==
  \/ /\ ~blocked[t] /\ disposition = "default"
     /\ outcome' = "SIGABRT"
     /\ UNCHANGED <<stack, blocked>>
  \/ /\ ~blocked[t] /\ disposition = "catch"
     /\ CallFrom(t, next, Frame("on_abort", 0))
     /\ blocked' = [blocked EXCEPT ![t] = TRUE]
     /\ UNCHANGED outcome
  \/ /\ blocked[t] \/ disposition = "ignore"
     /\ Replace(t, next)
     /\ UNCHANGED <<outcome, blocked>>

FirstRaise(t) ==
  /\ InAbort(t, "raise")
  /\ Raise(t, Frame("abort", "reset"))
  /\ UNCHANGED <<listVars, arrayVars, disposition>>

Reset(t) ==
  /\ InAbort(t, "reset")
  /\ disposition' = "default"
  /\ Replace(t, Frame("abort", "raise_again"))
  /\ UNCHANGED <<listVars, arrayVars, blocked, outcome>>

SecondRaise(t) ==
  /\ InAbort(t, "raise_again")
  /\ Raise(t, Frame("terminate", "abort_status"))
  /\ UNCHANGED <<listVars, arrayVars, disposition>>

(* The program changes its signal state.                                   *)
SetDisposition(t, d) ==
  /\ RunsProgram(t) /\ d # disposition
  /\ disposition' = d
  /\ UNCHANGED <<listVars, arrayVars, stack, blocked, outcome>>

BlockSigabrt(t) ==
  /\ RunsProgram(t) /\ ~blocked[t]
  /\ blocked' = [blocked EXCEPT ![t] = TRUE]
  /\ UNCHANGED <<listVars, arrayVars, stack, disposition, outcome>>

---------------------------------------------------------------------------
Library(t) ==
  \/ RunInitArray(t) \/ RunFiniArray(t)
  \/ RunAtexitHandler(t) \/ NoHandlerLeft(t) \/ Terminate(t)
  \/ Unblock(t) \/ FirstRaise(t) \/ Reset(t) \/ SecondRaise(t)

Program(t) ==
  \/ ReturnFromCode(t)
  \/ Atexit(t) \/ Exit(t) \/ QuickExit(t) \/ Abort(t)
  \/ \E d \in {"default", "ignore", "catch"} : SetDisposition(t, d)
  \/ BlockSigabrt(t)

Ended == outcome # "running" /\ UNCHANGED vars

Next == Ended \/ \E t \in Threads : Library(t) \/ Program(t)
Spec == Init /\ [][Next]_vars

---------------------------------------------------------------------------
(* atexit "registers a process-global termination handler that is executed *)
(* by exit" (process.rs:120): no registration is dropped and none is       *)
(* executed twice, whoever calls exit, again, or from a handler.           *)
HandlersRunOnce ==
  /\ Len(handlers) + Len(started) = registered
  /\ {handlers[i] : i \in DOMAIN handlers} \cup {started[i] : i \in DOMAIN started}
       = 1..registered

(* "Handlers execute in reverse registration order (LIFO)"                 *)
(* (process.rs:121), with several threads in exit and with handlers that   *)
(* register handlers: when a handler starts, every later registration has  *)
(* been started before.                                                    *)
LifoOrder ==
  [][started' # started =>
       \A h \in 1..registered : h > started'[Len(started')] =>
         \E i \in DOMAIN started : started[i] = h]_vars

(* Constructors run in ascending and destructors in descending order, no   *)
(* callable slot is left out, and main runs between the two.               *)
Ascending(slots) == \A i, j \in DOMAIN slots : i < j => slots[i] < slots[j]
Descending(slots) == \A i, j \in DOMAIN slots : i < j => slots[i] > slots[j]
Callable(array) == {i \in DOMAIN array : array[i]}
MainRuns == \E i \in DOMAIN stack[Main] : stack[Main][i].what = "main"
InitFiniOrder ==
  /\ Ascending(constructed) /\ Descending(destructed)
  /\ MainRuns => Len(constructed) = Cardinality(Callable(InitArray)) /\ destructed = <<>>
  /\ destructed # <<>> => Len(constructed) = Cardinality(Callable(InitArray))

(* exit "executes handlers in LIFO order until no handlers remain,         *)
(* including handlers registered by other handlers" (process.rs:157): when *)
(* a call of exit turns to ending the process, every registered handler    *)
(* has returned, or is still running: it called exit itself, or another    *)
(* thread's exit called it.                                                *)
Has(t, frame) == \E i \in DOMAIN stack[t] : stack[t][i] = frame
TurnsTo(t, frame) == ~Has(t, frame) /\ Has(t, frame)'
OnStack(t) == {stack[t][i].arg : i \in {j \in DOMAIN stack[t] : stack[t][j].what = "handler"}}
ExitCompletesHandlers ==
  [][\A t \in Threads : TurnsTo(t, Frame("terminate", "exit")) =>
       1..registered = returned \cup UNION {OnStack(u) : u \in Threads}]_vars

(* Stronger, and not so: none of the handlers that were started is cut off *)
(* by the exit of another thread.                                          *)
NoHandlerIsCutOff ==
  outcome = "exit" =>
    \E t \in Threads :
      /\ stack[t] # <<>> /\ Top(t) = Frame("terminate", "exit")
      /\ \A i \in DOMAIN started : started[i] \in returned \cup OnStack(t)

(* abort ends the process by SIGABRT although the signal is blocked,       *)
(* ignored or caught by a handler that returns; the exit status is only    *)
(* the last resort, when another thread changes the disposition again      *)
(* between abort's reset and its second raise.                             *)
AbortEndsBySignal ==
  [][\A t \in Threads :
       TurnsTo(t, Frame("terminate", "abort_status")) => disposition # "default"]_vars

(* Nothing is lost on the way through startup and exit: handlers and array *)
(* slots run once each, and the arrays in their order.                     *)
HandlersAreAccounted == ProcessTypeOK /\ HandlersRunOnce /\ InitFiniOrder

(* Both ways out of the process: exit starts handlers newest first and     *)
(* goes on until none is left, abort gets through by the signal.           *)
TerminationIsOrderly == LifoOrder /\ ExitCompletesHandlers /\ AbortEndsBySignal
=============================================================================
