-------------------------- MODULE ProcessExitProofs --------------------------
(* Startup and termination keep their promises, for any number of threads, *)
(* handlers and array slots.                                               *)
EXTENDS ProcessExit, Integers, SequenceTheorems, FiniteSetTheorems, TLAPS

---------------------------------------------------------------------------
(* The inductive invariant.  First, what a thread's stack can hold.        *)
Frames ==
  [what : {"init_array", "fini_array", "constructor", "destructor", "handler"}, arg : Nat]
    \cup [what : {"main", "on_abort", "thread", "exit"}, arg : {0}]
    \cup [what : {"terminate"}, arg : {"exit", "_Exit", "abort_status"}]
    \cup [what : {"abort"}, arg : {"unblock", "raise", "reset", "raise_again"}]

(* Only the main thread runs the arrays and main, from its bottom frame.   *)
StackShape(t) ==
  /\ t = Main => Len(stack[t]) >= 1
  /\ \A i \in DOMAIN stack[t] :
       stack[t][i].what \in
         IF t = Main
         THEN IF i = 1 THEN {"init_array", "main", "fini_array", "exit", "terminate"}
              ELSE {"constructor", "destructor", "handler", "on_abort", "exit", "terminate", "abort"}
         ELSE {"thread", "handler", "on_abort", "exit", "terminate", "abort"}

(* Once abort has unblocked SIGABRT the signal stays unblocked while abort *)
(* runs, and only a handler of the signal runs in between.                 *)
AbortUnblocked(t) ==
  \A i \in DOMAIN stack[t] :
    stack[t][i].what = "abort" /\ stack[t][i].arg # "unblock" =>
      IF i = Len(stack[t]) THEN ~blocked[t] ELSE stack[t][i + 1].what = "on_abort"

StacksInv ==
  /\ stack \in [Threads -> Seq(Frames)]
  /\ \A t \in Threads : StackShape(t) /\ AbortUnblocked(t)

(* The handlers.                                                           *)
Elements(seq) == {seq[i] : i \in DOMAIN seq}
IsRunning(h) ==
  \E t \in Threads : \E i \in DOMAIN stack[t] : stack[t][i].what = "handler" /\ stack[t][i].arg = h

HandlersInv ==
  /\ registered \in Nat /\ registered <= MaxRegistrations
  /\ handlers \in Seq(1..registered) /\ Len(handlers) <= ATEXIT_MAX_HANDLERS
  /\ started \in Seq(1..registered) /\ returned \subseteq 1..registered
  /\ Ascending(handlers)
  /\ HandlersRunOnce
  /\ \A h \in Elements(started) : h \in returned \/ IsRunning(h)
  /\ \A h \in Nat : IsRunning(h) => h \in 1..registered

(* The arrays: where the main thread is, and what was called on the way.   *)
Bottom == stack[Main][1]
AllConstructed == Elements(constructed) = Callable(InitArray)
ArraysInv ==
  /\ constructed \in Seq(DOMAIN InitArray) /\ destructed \in Seq(DOMAIN FiniArray)
  /\ Ascending(constructed) /\ Descending(destructed)
  /\ Bottom.what = "init_array" =>
       /\ Bottom.arg >= 1
       /\ Elements(constructed) = {i \in Callable(InitArray) : i < Bottom.arg}
       /\ destructed = <<>>
  /\ Bottom.what = "main" => AllConstructed /\ destructed = <<>>
  /\ Bottom.what = "fini_array" =>
       /\ Bottom.arg <= Len(FiniArray)
       /\ AllConstructed
       /\ \A i \in Elements(destructed) : i > Bottom.arg
  /\ destructed # <<>> => AllConstructed

SignalsInv ==
  /\ disposition \in {"default", "ignore", "catch"}
  /\ blocked \in [Threads -> BOOLEAN]
  /\ outcome \in Outcomes

ExitIInv == StacksInv /\ HandlersInv /\ ArraysInv /\ SignalsInv

---------------------------------------------------------------------------
(* What a step does to the stack of its thread: everything below the       *)
(* running frame stays.                                                    *)
Depth(t) == Len(stack[t])
Kept(t) ==
  /\ stack' \in [Threads -> Seq(Frames)]
  /\ \A u \in Threads \ {t} : stack'[u] = stack[u]
  /\ \A i \in 1..Depth(t) - 1 : stack'[t][i] = stack[t][i]
IsPopped(t) == Kept(t) /\ Len(stack'[t]) = Depth(t) - 1
IsReplaced(t, frame) ==
  Kept(t) /\ Len(stack'[t]) = Depth(t) /\ stack'[t][Depth(t)] = frame
IsCalled(t, next, frame) ==
  /\ Kept(t) /\ Len(stack'[t]) = Depth(t) + 1
  /\ stack'[t][Depth(t)] = next /\ stack'[t][Depth(t) + 1] = frame

LastChanged(S, s, f, g) ==
  LET b == SubSeq(s, 1, Len(s) - 1) IN
  /\ Len(s) \in Nat \ {0} /\ s[Len(s)] \in S
  /\ b \in Seq(S) /\ Len(b) = Len(s) - 1 /\ \A i \in 1..Len(s) - 1 : b[i] = s[i]
  /\ Append(b, f) \in Seq(S) /\ Len(Append(b, f)) = Len(s) /\ Append(b, f)[Len(s)] = f
  /\ \A i \in 1..Len(s) - 1 : Append(b, f)[i] = s[i]
  /\ b \o <<f, g>> \in Seq(S) /\ Len(b \o <<f, g>>) = Len(s) + 1
  /\ (b \o <<f, g>>)[Len(s)] = f /\ (b \o <<f, g>>)[Len(s) + 1] = g
  /\ \A i \in 1..Len(s) - 1 : (b \o <<f, g>>)[i] = s[i]

LEMMA BelowFacts ==
  ASSUME NEW S, NEW s \in Seq(S), s # <<>>, NEW f \in S, NEW g \in S
  PROVE  LastChanged(S, s, f, g)
<1>1. Len(s) \in Nat \ {0} /\ s[Len(s)] \in S
  OBVIOUS
<1> DEFINE b == SubSeq(s, 1, Len(s) - 1)
<1>2. b \in Seq(S) /\ Len(b) = Len(s) - 1 /\ \A i \in 1..Len(s) - 1 : b[i] = s[i]
  <2>1. \A i \in 1..Len(s) - 1 : s[i] \in S
    BY <1>1
  <2>2. /\ b \in Seq(S)
        /\ Len(b) = IF 1 <= Len(s) - 1 THEN (Len(s) - 1) - 1 + 1 ELSE 0
        /\ \A i \in 1..(Len(s) - 1) - 1 + 1 : b[i] = s[1 + i - 1]
    BY <1>1, <2>1, SubSeqProperties
  <2>3. (Len(s) - 1) - 1 + 1 = Len(s) - 1 /\ \A i \in 1..Len(s) - 1 : 1 + i - 1 = i
    BY <1>1
  <2> QED
    BY <1>1, <2>2, <2>3
<1> HIDE DEF b
<1>3. /\ Append(b, f) \in Seq(S) /\ Len(Append(b, f)) = Len(s) /\ Append(b, f)[Len(s)] = f
      /\ \A i \in 1..Len(s) - 1 : Append(b, f)[i] = s[i]
  BY <1>1, <1>2
<1>4. <<f, g>> \in Seq(S) /\ Len(<<f, g>>) = 2 /\ <<f, g>>[1] = f /\ <<f, g>>[2] = g
  OBVIOUS
<1> DEFINE q == <<f, g>>
<1> HIDE DEF q
<1>5. /\ b \o q \in Seq(S) /\ Len(b \o q) = Len(b) + Len(q)
      /\ \A i \in 1..Len(b) : (b \o q)[i] = b[i]
      /\ \A i \in 1..Len(q) : (b \o q)[Len(b) + i] = q[i]
  <2>1. q \in Seq(S)
    BY <1>4 DEF q
  <2>2. /\ b \o q \in Seq(S) /\ Len(b \o q) = Len(b) + Len(q)
        /\ \A i \in 1..Len(b) + Len(q) : (b \o q)[i] = IF i <= Len(b) THEN b[i] ELSE q[i - Len(b)]
    BY <1>2, <2>1, ConcatProperties
  <2>3. Len(b) \in Nat /\ Len(q) = 2
    BY <1>2, <1>4 DEF q
  <2> QED
    BY <2>2, <2>3
<1>6. Len(b) + 1 = Len(s) /\ Len(b) + 2 = Len(s) + 1
  BY <1>1, <1>2
<1>7. /\ b \o q \in Seq(S) /\ Len(b \o q) = Len(s) + 1
      /\ (b \o q)[Len(s)] = f /\ (b \o q)[Len(s) + 1] = g
      /\ \A i \in 1..Len(s) - 1 : (b \o q)[i] = s[i]
  BY <1>1, <1>2, <1>4, <1>5, <1>6 DEF q
<1> QED
  BY <1>1, <1>2, <1>3, <1>7 DEF b, q, LastChanged

LEMMA StackFacts ==
  ASSUME StacksInv, NEW t \in Threads, stack[t] # <<>>, NEW f \in Frames, NEW g \in Frames
  PROVE  /\ Depth(t) \in Nat \ {0} /\ Top(t) \in Frames
         /\ Pop(t) => IsPopped(t)
         /\ Replace(t, f) => IsReplaced(t, f)
         /\ CallFrom(t, f, g) => IsCalled(t, f, g)
         /\ Push(t, f) => IsCalled(t, Top(t), f)
<1> DEFINE s == stack[t]
<1>1. s \in Seq(Frames) /\ stack \in [Threads -> Seq(Frames)]
  BY DEF StacksInv
<1>0. LastChanged(Frames, s, f, g) /\ LastChanged(Frames, s, f, f)
  BY <1>1, BelowFacts
<1>2. Depth(t) \in Nat \ {0} /\ Top(t) \in Frames
  BY <1>0 DEF Depth, Top, LastChanged
<1>3. ASSUME NEW r \in Seq(Frames), stack' = [stack EXCEPT ![t] = r],
             \A i \in 1..Len(s) - 1 : r[i] = s[i]
      PROVE  Kept(t) /\ stack'[t] = r
  BY <1>1, <1>3 DEF Kept, Depth
<1>4. Pop(t) => IsPopped(t)
  <2> DEFINE r == SubSeq(s, 1, Len(s) - 1)
  <2>1. r \in Seq(Frames) /\ Len(r) = Len(s) - 1 /\ \A i \in 1..Len(s) - 1 : r[i] = s[i]
    BY <1>0 DEF LastChanged
  <2>2. Pop(t) => stack' = [stack EXCEPT ![t] = r]
    BY DEF Pop, Below
  <2> HIDE DEF r
  <2> QED
    BY <1>3, <2>1, <2>2 DEF IsPopped, Depth
<1>5. Replace(t, f) => IsReplaced(t, f)
  <2> DEFINE r == Append(SubSeq(s, 1, Len(s) - 1), f)
  <2>1. r \in Seq(Frames) /\ Len(r) = Len(s) /\ r[Len(s)] = f /\ \A i \in 1..Len(s) - 1 : r[i] = s[i]
    BY <1>0 DEF LastChanged
  <2>2. Replace(t, f) => stack' = [stack EXCEPT ![t] = r]
    BY DEF Replace, Below
  <2> HIDE DEF r
  <2> QED
    BY <1>3, <2>1, <2>2 DEF IsReplaced, Depth
<1>6. CallFrom(t, f, g) => IsCalled(t, f, g)
  <2> DEFINE r == SubSeq(s, 1, Len(s) - 1) \o <<f, g>>
  <2>1. /\ r \in Seq(Frames) /\ Len(r) = Len(s) + 1 /\ r[Len(s)] = f /\ r[Len(s) + 1] = g
        /\ \A i \in 1..Len(s) - 1 : r[i] = s[i]
    BY <1>0 DEF LastChanged
  <2>2. CallFrom(t, f, g) => stack' = [stack EXCEPT ![t] = r]
    BY DEF CallFrom, Below
  <2> HIDE DEF r
  <2> QED
    BY <1>3, <2>1, <2>2 DEF IsCalled, Depth
<1>7. Push(t, f) => IsCalled(t, Top(t), f)
  <2>1. /\ Append(s, f) \in Seq(Frames) /\ Len(Append(s, f)) = Len(s) + 1
        /\ \A i \in 1..Len(s) : Append(s, f)[i] = s[i]
        /\ Append(s, f)[Len(s) + 1] = f
    BY <1>1
  <2>2. \A i \in 1..Len(s) - 1 : Append(s, f)[i] = s[i]
    BY <1>2, <2>1 DEF Depth
  <2>3. Push(t, f) => stack' = [stack EXCEPT ![t] = Append(s, f)]
    BY DEF Push
  <2>4. Append(s, f)[Len(s)] = Top(t)
    BY <1>2, <2>1 DEF Depth, Top
  <2> QED
    BY <1>3, <2>1, <2>2, <2>3, <2>4 DEF IsCalled, Depth
<1> QED
  BY <1>2, <1>4, <1>5, <1>6, <1>7

(* When a call of exit or abort may turn to ending the process.            *)
Ends(f) ==
  f.what = "terminate" =>
    \/ f.arg = "_Exit"
    \/ f.arg = "exit" /\ handlers = <<>>
    \/ f.arg = "abort_status" /\ disposition # "default"

(* The changes of a stack that steps make: none; program code returns; a   *)
(* loop goes on; or code is called, by a loop or by the program.           *)
Returns(t) ==
  /\ IsPopped(t) /\ Top(t).what \in ProgramCode \ {"main"}
  /\ Top(t).what = "on_abort" => ~blocked'[t]
  /\ Top(t).what = "handler" => Top(t).arg \in returned'

GoesOn(t, f) ==
  /\ IsReplaced(t, f) /\ f \in Frames /\ Ends(f)
  /\ \/ Top(t).what = "init_array" /\ f.what \in {"init_array", "main"}
     \/ Top(t).what = "main" /\ f.what = "fini_array"
     \/ Top(t).what = "fini_array" /\ f.what \in {"fini_array", "exit"}
     \/ Top(t).what = "exit" /\ f.what = "terminate"
     \/ Top(t).what = "abort" /\ f.what \in {"abort", "terminate"} /\ ~blocked'[t]

ProgramCalls(t, f) ==
  /\ IsCalled(t, Top(t), f) /\ f \in Frames /\ Ends(f) /\ UNCHANGED blocked
  /\ \/ Top(t).what \in ProgramCode
        /\ \/ f.what \in {"exit", "terminate"}
           \/ f.what = "abort" /\ f.arg = "unblock"
     \/ Top(t).what = "exit" /\ f.what = "handler" /\ f.arg \in Elements(started')

LibraryCalls(t, next, f) ==
  /\ IsCalled(t, next, f) /\ next \in Frames /\ f \in Frames /\ Ends(next)
  /\ \/ Top(t).what = "init_array" /\ next.what = "init_array" /\ f.what = "constructor"
     \/ Top(t).what = "fini_array" /\ next.what = "fini_array" /\ f.what = "destructor"
     \/ Top(t).what = "abort" /\ next.what \in {"abort", "terminate"} /\ f.what = "on_abort"

Stays(t) ==
  stack' = stack /\ (Top(t).what = "abort" => blocked' = blocked)

Kind(t) ==
  \/ Stays(t) \/ Returns(t)
  \/ \E f \in Frames : GoesOn(t, f) \/ ProgramCalls(t, f)
  \/ \E next \in Frames, f \in Frames : LibraryCalls(t, next, f)

LEMMA FrameFacts ==
  /\ Frame("main", 0) \in Frames /\ Frame("exit", 0) \in Frames /\ Frame("on_abort", 0) \in Frames
  /\ Frame("thread", 0) \in Frames
  /\ \A end \in {"exit", "_Exit", "abort_status"} : Frame("terminate", end) \in Frames
  /\ \A step \in {"unblock", "raise", "reset", "raise_again"} : Frame("abort", step) \in Frames
  /\ \A what \in {"init_array", "fini_array", "constructor", "destructor", "handler"}, n \in Nat :
       Frame(what, n) \in Frames
  /\ \A what, arg : Frame(what, arg).what = what /\ Frame(what, arg).arg = arg
BY DEF Frame, Frames

(* What the running frame tells of its argument.                           *)
LEMMA ArgFacts ==
  ASSUME NEW f \in Frames
  PROVE  /\ f.what \in {"init_array", "fini_array", "constructor", "destructor", "handler"} => f.arg \in Nat
         /\ f.what = "terminate" => f.arg \in {"exit", "_Exit", "abort_status"}
         /\ f.what = "abort" => f.arg \in {"unblock", "raise", "reset", "raise_again"}
         /\ f.what \in ProgramCode \cup LibraryCode
         /\ f = Frame(f.what, f.arg)
BY DEF Frames, Frame, ProgramCode, LibraryCode

BlockedOf(t) ==
  blocked' \in [Threads -> BOOLEAN] /\ \A u \in Threads \ {t} : blocked'[u] = blocked[u]

LEMMA StepKinds ==
  ASSUME StacksInv, blocked \in [Threads -> BOOLEAN], NEW t \in Threads,
         Library(t) \/ Program(t), HandlersInv
  PROVE  /\ stack[t] # <<>> /\ Depth(t) \in Nat \ {0} /\ Top(t) \in Frames
         /\ Kind(t) /\ BlockedOf(t)
<1> USE DEF signalVars, arrayVars, listVars
<1>1. stack[t] # <<>>
  BY DEF Library, Program, RunInitArray, RunFiniArray, RunAtexitHandler, NoHandlerLeft, Terminate,
         Unblock, FirstRaise, Reset, SecondRaise, ReturnFromCode, Atexit, Exit, QuickExit, Abort,
         SetDisposition, BlockSigabrt, InAbort, Runs, RunsProgram
<1>2. Depth(t) \in Nat \ {0} /\ Top(t) \in Frames
  BY <1>1, StackFacts, FrameFacts
<1> SUFFICES Kind(t) /\ BlockedOf(t)
  BY <1>1, <1>2
<1>3. \A f \in Frames, g \in Frames :
        \/ Stays(t) \/ Returns(t) \/ GoesOn(t, f) \/ ProgramCalls(t, f) \/ LibraryCalls(t, f, g)
        => Kind(t)
  BY DEF Kind
<1>4. UNCHANGED blocked => BlockedOf(t)
  BY DEF BlockedOf
<1>5. \A f \in Frames, g \in Frames :
        /\ Replace(t, f) => IsReplaced(t, f)
        /\ CallFrom(t, f, g) => IsCalled(t, f, g)
        /\ Push(t, f) => IsCalled(t, Top(t), f)
  BY <1>1, StackFacts
<1>6. CASE RunInitArray(t) \/ RunFiniArray(t)
  <2> DEFINE slot == Top(t).arg
  <2>1. slot \in Nat /\ slot + 1 \in Nat /\ Top(t).what \in {"init_array", "fini_array"} /\ UNCHANGED blocked
    BY <1>2, <1>6, ArgFacts DEF RunInitArray, RunFiniArray, Runs
  <2>2. CASE \E f \in Frames : GoesOn(t, f)
    BY <1>3, <1>4, <2>1, <2>2
  <2>3. CASE \E f \in Frames, g \in Frames : LibraryCalls(t, f, g)
    BY <1>3, <1>4, <2>1, <2>3
  <2>4. ASSUME NEW f \in Frames, Replace(t, f),
               \/ Top(t).what = "init_array" /\ f.what \in {"init_array", "main"}
               \/ Top(t).what = "fini_array" /\ f.what \in {"fini_array", "exit"}
        PROVE  \E g \in Frames : GoesOn(t, g)
    BY <1>5, <2>4 DEF GoesOn, Ends
  <2>5. ASSUME NEW f \in Frames, NEW g \in Frames, CallFrom(t, f, g),
               \/ Top(t).what = "init_array" /\ f.what = "init_array" /\ g.what = "constructor"
               \/ Top(t).what = "fini_array" /\ f.what = "fini_array" /\ g.what = "destructor"
        PROVE  \E h \in Frames, i \in Frames : LibraryCalls(t, h, i)
    BY <1>5, <2>5 DEF LibraryCalls, Ends
  <2>6. CASE RunInitArray(t)
    <3>1. Top(t).what = "init_array"
      BY <2>6 DEF RunInitArray, Runs
    <3>2. CASE Replace(t, Frame("init_array", slot + 1)) \/ Replace(t, Frame("main", 0))
      BY <2>1, <2>2, <2>4, <3>1, <3>2, FrameFacts
    <3>3. CASE CallFrom(t, Frame("init_array", slot + 1), Frame("constructor", slot))
      BY <2>1, <2>3, <2>5, <3>1, <3>3, FrameFacts
    <3> QED
      BY <2>6, <3>2, <3>3 DEF RunInitArray
  <2>7. CASE RunFiniArray(t)
    <3>1. Top(t).what = "fini_array"
      BY <2>7 DEF RunFiniArray, Runs
    <3>2. slot >= 1 => slot - 1 \in Nat
      BY <2>1
    <3>3. CASE (slot >= 1 /\ Replace(t, Frame("fini_array", slot - 1))) \/ Replace(t, Frame("exit", 0))
      BY <2>1, <2>2, <2>4, <3>1, <3>2, <3>3, FrameFacts
    <3>4. CASE slot >= 1 /\ CallFrom(t, Frame("fini_array", slot - 1), Frame("destructor", slot))
      BY <2>1, <2>3, <2>5, <3>1, <3>2, <3>4, FrameFacts
    <3> QED
      BY <2>7, <3>3, <3>4 DEF RunFiniArray
  <2> QED
    BY <1>6, <2>6, <2>7
<1>7. CASE RunAtexitHandler(t)
  <2>1. /\ Top(t).what = "exit" /\ UNCHANGED blocked
        /\ \E n \in Nat : Push(t, Frame("handler", n)) /\ n \in Elements(started')
    <3> DEFINE handler == handlers[Len(handlers)]
    <3>1. handler \in 1..registered /\ handler \in Nat /\ started \in Seq(1..registered)
      BY <1>7 DEF HandlersInv, RunAtexitHandler
    <3>2. Len(started) + 1 \in DOMAIN Append(started, handler) /\ Append(started, handler)[Len(started) + 1] = handler
      BY <3>1
    <3>3. started' = Append(started, handler) /\ Push(t, Frame("handler", handler))
      BY <1>7 DEF RunAtexitHandler
    <3>4. handler \in Elements(started')
      BY <3>2, <3>3 DEF Elements
    <3> QED
      BY <1>7, <3>1, <3>3, <3>4 DEF RunAtexitHandler, Runs
  <2>2. PICK n \in Nat : Push(t, Frame("handler", n)) /\ n \in Elements(started')
    BY <2>1
  <2>3. ProgramCalls(t, Frame("handler", n))
    BY <1>5, <2>1, <2>2, FrameFacts DEF ProgramCalls, Ends
  <2> QED
    BY <1>3, <1>4, <2>1, <2>3, FrameFacts
<1>8. CASE NoHandlerLeft(t)
  <2>1. /\ Top(t).what = "exit" /\ UNCHANGED blocked /\ handlers = <<>>
        /\ Replace(t, Frame("terminate", "exit"))
    BY <1>8 DEF NoHandlerLeft, Runs
  <2>2. GoesOn(t, Frame("terminate", "exit"))
    BY <1>5, <2>1, FrameFacts DEF GoesOn, Ends
  <2> QED
    BY <1>3, <1>4, <2>1, <2>2, FrameFacts
<1>9. CASE Terminate(t) \/ Atexit(t) \/ (\E d \in {"default", "ignore", "catch"} : SetDisposition(t, d))
           \/ BlockSigabrt(t)
  <2>1. stack' = stack /\ (UNCHANGED blocked \/ (RunsProgram(t) /\ blocked' = [blocked EXCEPT ![t] = TRUE]))
    BY <1>9 DEF Terminate, Atexit, SetDisposition, BlockSigabrt
  <2>2. Stays(t)
    BY <2>1 DEF Stays, RunsProgram, ProgramCode
  <2>3. BlockedOf(t)
    BY <2>1 DEF BlockedOf
  <2> QED
    BY <1>2, <1>3, <2>2, <2>3
<1>10. CASE Unblock(t)
  <2>1. /\ Top(t).what = "abort" /\ blocked' = [blocked EXCEPT ![t] = FALSE]
        /\ Replace(t, Frame("abort", "raise"))
    BY <1>10 DEF Unblock, InAbort, Runs
  <2>2. GoesOn(t, Frame("abort", "raise")) /\ BlockedOf(t)
    BY <1>5, <2>1, FrameFacts DEF GoesOn, BlockedOf, Ends
  <2> QED
    BY <1>3, <2>2, FrameFacts
<1>11. Top(t).what = "abort" /\ Top(t).arg # "unblock" => ~blocked[t]
  BY <1>1, <1>2 DEF StacksInv, AbortUnblocked, Top, Depth
<1>12. CASE Reset(t)
  <2>1. /\ Top(t).what = "abort" /\ Top(t).arg = "reset" /\ UNCHANGED blocked
        /\ Replace(t, Frame("abort", "raise_again"))
    BY <1>12 DEF Reset, InAbort, Runs
  <2>2. GoesOn(t, Frame("abort", "raise_again"))
    BY <1>5, <1>11, <2>1, FrameFacts DEF GoesOn, Ends
  <2> QED
    BY <1>3, <1>4, <2>1, <2>2, FrameFacts
<1>13. CASE FirstRaise(t) \/ SecondRaise(t)
  <2>1. PICK next \in Frames : /\ Raise(t, next) /\ Top(t).what = "abort" /\ ~blocked[t]
                               /\ \/ next = Frame("terminate", "abort_status")
                                  \/ next.what = "abort"
    BY <1>11, <1>13, FrameFacts DEF FirstRaise, SecondRaise, InAbort, Runs
  <2>2. CASE stack' = stack /\ blocked' = blocked
    BY <1>2, <1>3, <1>4, <2>2 DEF Stays
  <2>3. CASE /\ CallFrom(t, next, Frame("on_abort", 0)) /\ blocked' = [blocked EXCEPT ![t] = TRUE]
             /\ disposition = "catch"
    <3>0. Ends(next) /\ next.what \in {"terminate", "abort"}
      BY <2>1, <2>3, FrameFacts DEF Ends
    <3>1. LibraryCalls(t, next, Frame("on_abort", 0)) /\ BlockedOf(t)
      BY <1>5, <2>1, <2>3, <3>0, FrameFacts DEF LibraryCalls, BlockedOf
    <3> QED
      BY <1>3, <3>1, FrameFacts
  <2>4. CASE Replace(t, next) /\ blocked' = blocked /\ disposition = "ignore"
    <3>0. Ends(next) /\ next.what \in {"terminate", "abort"}
      BY <2>1, <2>4, FrameFacts DEF Ends
    <3>1. GoesOn(t, next)
      BY <1>5, <2>1, <2>4, <3>0 DEF GoesOn
    <3> QED
      BY <1>3, <1>4, <2>4, <3>1
  <2> QED
    BY <2>1, <2>2, <2>3, <2>4 DEF Raise
<1>14. CASE ReturnFromCode(t)
  <2>1. /\ Top(t).what \in ProgramCode
        /\ IF Top(t).what = "main" THEN Replace(t, Frame("fini_array", Len(FiniArray))) ELSE Pop(t)
        /\ Top(t).what = "handler" => Top(t).arg \in returned'
        /\ blocked' = IF Top(t).what = "on_abort" THEN [blocked EXCEPT ![t] = FALSE] ELSE blocked
    BY <1>14 DEF ReturnFromCode, RunsProgram
  <2>2. BlockedOf(t) /\ (Top(t).what = "on_abort" => ~blocked'[t])
    BY <2>1 DEF BlockedOf
  <2>3. CASE Top(t).what = "main"
    <3>1. Len(FiniArray) \in Nat
      BY ProcessAssumption
    <3>2. GoesOn(t, Frame("fini_array", Len(FiniArray)))
      BY <1>5, <2>1, <2>3, <3>1, FrameFacts DEF GoesOn, Ends
    <3> QED
      BY <1>3, <2>2, <3>1, <3>2, FrameFacts
  <2>4. CASE Top(t).what # "main"
    <3>1. IsPopped(t)
      BY <1>1, <2>1, <2>4, StackFacts, FrameFacts
    <3> QED
      BY <1>2, <1>3, <2>1, <2>2, <2>4, <3>1 DEF Returns
  <2> QED
    BY <2>3, <2>4
<1>15. CASE Exit(t) \/ QuickExit(t) \/ Abort(t)
  <2>1. /\ Top(t).what \in ProgramCode /\ UNCHANGED blocked
        /\ \E f \in {Frame("exit", 0), Frame("terminate", "_Exit"), Frame("abort", "unblock")} : Push(t, f)
    BY <1>15 DEF Exit, QuickExit, Abort, RunsProgram
  <2>2. PICK f \in {Frame("exit", 0), Frame("terminate", "_Exit"), Frame("abort", "unblock")} : Push(t, f)
    BY <2>1
  <2>3. f \in Frames /\ Ends(f) /\ (f.what \in {"exit", "terminate"} \/ (f.what = "abort" /\ f.arg = "unblock"))
    BY FrameFacts DEF Ends
  <2>4. ProgramCalls(t, f)
    BY <1>5, <2>1, <2>2, <2>3 DEF ProgramCalls
  <2> QED
    BY <1>3, <1>4, <2>1, <2>3, <2>4
<1> QED
  BY <1>6, <1>7, <1>8, <1>9, <1>10, <1>12, <1>13, <1>14, <1>15 DEF Library, Program

LEMMA KindKeepsStacks ==
  ASSUME StacksInv, blocked \in [Threads -> BOOLEAN], NEW t \in Threads, stack[t] # <<>>,
         Kind(t), BlockedOf(t)
  PROVE  StacksInv'
<1>0. Depth(t) \in Nat \ {0} /\ Top(t) \in Frames /\ Top(t) = stack[t][Depth(t)]
  BY StackFacts, FrameFacts DEF Top, Depth
<1>1. StackShape(t) /\ AbortUnblocked(t) /\ stack[t] \in Seq(Frames) /\ DOMAIN stack[t] = 1..Depth(t)
  BY DEF StacksInv, Depth
<1>2. CASE Stays(t)
  <2>1. \A u \in Threads : Depth(u) \in Nat
    BY DEF StacksInv, Depth
  <2>2. ASSUME NEW u \in Threads
        PROVE  AbortUnblocked(u)'
    <3>1. CASE u # t
      BY <1>2, <3>1 DEF Stays, BlockedOf, StacksInv, AbortUnblocked
    <3>2. CASE u = t /\ Top(t).what = "abort"
      BY <1>2, <3>2 DEF Stays, StacksInv, AbortUnblocked
    <3>3. CASE u = t /\ Top(t).what # "abort"
      BY <1>0, <1>1, <1>2, <3>3 DEF Stays, AbortUnblocked, Depth
    <3> QED
      BY <3>1, <3>2, <3>3
  <2> QED
    BY <1>2, <2>2 DEF Stays, StacksInv, StackShape
<1>3. CASE ~Stays(t)
  <2>1. Kept(t)
    BY <1>3 DEF Kind, Returns, GoesOn, ProgramCalls, LibraryCalls, IsPopped, IsReplaced, IsCalled
  <2>2. /\ stack' \in [Threads -> Seq(Frames)] /\ stack'[t] \in Seq(Frames)
        /\ \A u \in Threads \ {t} : stack'[u] = stack[u]
        /\ \A i \in 1..Depth(t) - 1 : stack'[t][i] = stack[t][i]
        /\ DOMAIN stack'[t] = 1..Len(stack'[t])
    BY <2>1 DEF Kept
  <2>3. \A u \in Threads \ {t} : StackShape(u)' /\ AbortUnblocked(u)'
    BY <2>2 DEF StacksInv, StackShape, AbortUnblocked, BlockedOf
  <2>4. Top(t).what # "on_abort" =>
          \A i \in 1..Depth(t) - 1 : i + 1 = Depth(t) => ~(stack[t][i].what = "abort" /\ stack[t][i].arg # "unblock")
    BY <1>0, <1>1 DEF AbortUnblocked, Depth
  <2>5. \A i \in 1..Depth(t) - 1 : i + 1 < Depth(t) /\ stack[t][i].what = "abort" /\ stack[t][i].arg # "unblock"
            => stack[t][i + 1].what = "on_abort" /\ i + 1 \in 1..Depth(t) - 1
    BY <1>0, <1>1 DEF AbortUnblocked, Depth
  <2>6. CASE Returns(t)
    <3>1. Len(stack'[t]) = Depth(t) - 1 /\ Top(t).what \in ProgramCode \ {"main"}
      BY <2>6 DEF Returns, IsPopped
    <3>2. t = Main => Depth(t) # 1
      BY <1>0, <1>1, <3>1 DEF StackShape, ProgramCode
    <3>3. StackShape(t)'
      <4>1. \A i \in DOMAIN stack'[t] : stack'[t][i] = stack[t][i] /\ i \in DOMAIN stack[t]
        BY <1>0, <1>1, <2>2, <3>1
      <4>2. t = Main => Len(stack'[t]) >= 1
        BY <1>0, <3>1, <3>2
      <4> QED
        BY <1>1, <4>1, <4>2 DEF StackShape
    <3>4. AbortUnblocked(t)'
      <4> SUFFICES ASSUME NEW i \in 1..Depth(t) - 1, stack[t][i].what = "abort", stack[t][i].arg # "unblock"
                   PROVE  IF i = Depth(t) - 1 THEN ~blocked'[t] ELSE stack'[t][i + 1].what = "on_abort"
        BY <1>0, <2>2, <3>1 DEF AbortUnblocked
      <4>1. CASE i = Depth(t) - 1
        BY <1>0, <2>4, <2>6, <4>1 DEF Returns
      <4>2. CASE i # Depth(t) - 1
        <5>1. i + 1 < Depth(t)
          BY <1>0, <4>2
        <5> QED
          BY <2>2, <2>5, <4>2, <5>1
      <4> QED
        BY <4>1, <4>2
    <3> QED
      BY <2>2, <2>3, <3>3, <3>4 DEF StacksInv
  <2>7. ASSUME NEW f \in Frames, GoesOn(t, f)
        PROVE  StacksInv'
    <3>1. Len(stack'[t]) = Depth(t) /\ stack'[t][Depth(t)] = f
      BY <2>7 DEF GoesOn, IsReplaced
    <3>2. StackShape(t)'
      <4>1. ASSUME NEW i \in 1..Depth(t) - 1
            PROVE  stack'[t][i] = stack[t][i] /\ i \in DOMAIN stack[t]
        BY <1>0, <1>1, <2>2
      <4>2. f.what \in IF t = Main
                       THEN IF Depth(t) = 1 THEN {"init_array", "main", "fini_array", "exit", "terminate"}
                            ELSE {"constructor", "destructor", "handler", "on_abort", "exit", "terminate", "abort"}
                       ELSE {"thread", "handler", "on_abort", "exit", "terminate", "abort"}
        BY <1>0, <1>1, <2>7 DEF GoesOn, StackShape
      <4>3. \A i \in DOMAIN stack'[t] : i \in 1..Depth(t) - 1 \/ i = Depth(t)
        BY <1>0, <2>2, <3>1
      <4>4. t = Main => Len(stack'[t]) >= 1
        BY <1>0, <3>1
      <4> QED
        BY <1>1, <3>1, <4>1, <4>2, <4>3, <4>4 DEF StackShape
    <3>3. AbortUnblocked(t)'
      <4> SUFFICES ASSUME NEW i \in 1..Depth(t), stack'[t][i].what = "abort", stack'[t][i].arg # "unblock"
                   PROVE  IF i = Depth(t) THEN ~blocked'[t] ELSE stack'[t][i + 1].what = "on_abort"
        BY <1>0, <2>2, <3>1 DEF AbortUnblocked
      <4>1. CASE i = Depth(t)
        BY <2>7, <3>1, <4>1 DEF GoesOn
      <4>2. CASE i # Depth(t)
        <5>1. i \in 1..Depth(t) - 1 /\ (i + 1 = Depth(t) \/ i + 1 < Depth(t))
          BY <1>0, <4>2
        <5>2. Top(t).what # "on_abort"
          BY <2>7 DEF GoesOn
        <5> QED
          BY <2>2, <2>4, <2>5, <4>2, <5>1, <5>2
      <4> QED
        BY <4>1, <4>2
    <3> QED
      BY <2>2, <2>3, <3>2, <3>3 DEF StacksInv
  <2>8. ASSUME NEW n \in Frames, NEW f \in Frames, IsCalled(t, n, f),
               Top(t).what # "on_abort" \/ n = Top(t),
               n.what = Top(t).what \/ (Top(t).what = "abort" /\ n.what = "terminate"),
               n.what = "abort" => f.what = "on_abort",
               f.what \in {"constructor", "destructor"} => Top(t).what \in {"init_array", "fini_array"},
               f.what \in {"constructor", "destructor", "handler", "on_abort", "exit", "terminate", "abort"},
               f.what = "abort" => f.arg = "unblock"
        PROVE  StacksInv'
    <3>1. /\ Len(stack'[t]) = Depth(t) + 1 /\ stack'[t][Depth(t)] = n /\ stack'[t][Depth(t) + 1] = f
      BY <2>8 DEF IsCalled
    <3>2. StackShape(t)'
      <4>1. ASSUME NEW i \in 1..Depth(t) - 1
            PROVE  stack'[t][i] = stack[t][i] /\ i \in DOMAIN stack[t]
        BY <1>0, <1>1, <2>2
      <4>2. n.what \in IF t = Main
                       THEN IF Depth(t) = 1 THEN {"init_array", "main", "fini_array", "exit", "terminate"}
                            ELSE {"constructor", "destructor", "handler", "on_abort", "exit", "terminate", "abort"}
                       ELSE {"thread", "handler", "on_abort", "exit", "terminate", "abort"}
        BY <1>0, <1>1, <2>8 DEF StackShape
      <4>3. t # Main => f.what \in {"thread", "handler", "on_abort", "exit", "terminate", "abort"}
        BY <1>0, <1>1, <2>8 DEF StackShape
      <4>4. ASSUME NEW i \in DOMAIN stack'[t]
            PROVE  stack'[t][i].what \in
                     IF t = Main
                     THEN IF i = 1 THEN {"init_array", "main", "fini_array", "exit", "terminate"}
                          ELSE {"constructor", "destructor", "handler", "on_abort", "exit", "terminate", "abort"}
                     ELSE {"thread", "handler", "on_abort", "exit", "terminate", "abort"}
        <5>1. CASE i < Depth(t)
          <6>1. i \in 1..Depth(t) - 1
            BY <1>0, <2>2, <5>1
          <6> QED
            BY <1>1, <4>1, <6>1 DEF StackShape
        <5>2. CASE i = Depth(t)
          BY <3>1, <4>2, <5>2
        <5>3. CASE i = Depth(t) + 1
          <6>1. i # 1
            BY <1>0, <5>3
          <6> QED
            BY <2>8, <3>1, <4>3, <5>3, <6>1
        <5> QED
          BY <1>0, <2>2, <3>1, <5>1, <5>2, <5>3
      <4> QED
        BY <1>0, <3>1, <4>4 DEF StackShape
    <3>3. AbortUnblocked(t)'
      <4> SUFFICES ASSUME NEW i \in 1..Depth(t) + 1, stack'[t][i].what = "abort", stack'[t][i].arg # "unblock"
                   PROVE  IF i = Depth(t) + 1 THEN ~blocked'[t] ELSE stack'[t][i + 1].what = "on_abort"
        BY <1>0, <2>2, <3>1 DEF AbortUnblocked
      <4>1. i # Depth(t) + 1
        BY <2>8, <3>1
      <4>2. CASE i = Depth(t)
        BY <2>8, <3>1, <4>1, <4>2
      <4>3. CASE i # Depth(t)
        <5>1. i \in 1..Depth(t) - 1 /\ (i + 1 = Depth(t) \/ i + 1 < Depth(t))
          BY <1>0, <4>1, <4>3
        <5>2. CASE i + 1 < Depth(t)
          BY <2>2, <2>5, <4>1, <5>1, <5>2
        <5>3. CASE i + 1 = Depth(t)
          <6>1. Top(t).what = "on_abort"
            BY <2>2, <2>4, <5>1, <5>3
          <6> QED
            BY <2>8, <3>1, <4>1, <5>3, <6>1
        <5> QED
          BY <5>1, <5>2, <5>3
      <4> QED
        BY <4>2, <4>3
    <3> QED
      BY <2>2, <2>3, <3>2, <3>3 DEF StacksInv
  <2>9. ASSUME NEW f \in Frames, ProgramCalls(t, f)
        PROVE  StacksInv'
    BY <1>0, <2>8, <2>9 DEF ProgramCalls, ProgramCode
  <2>10. ASSUME NEW n \in Frames, NEW f \in Frames, LibraryCalls(t, n, f)
         PROVE  StacksInv'
    BY <1>0, <2>8, <2>10 DEF LibraryCalls
  <2> QED
    BY <1>3, <2>6, <2>7, <2>9, <2>10 DEF Kind
<1> QED
  BY <1>2, <1>3

---------------------------------------------------------------------------
(* What the kinds of steps say of the handlers that run, of the bottom     *)
(* frame of the main thread and of the frames that end the process.        *)
LEMMA KindFacts ==
  ASSUME StacksInv, NEW t \in Threads, stack[t] # <<>>, Kind(t),
         NEW u \in Threads, NEW i \in DOMAIN stack[u]
  PROVE  \/ i \in DOMAIN stack'[u] /\ stack'[u][i] = stack[u][i]
         \/ u = t /\ i = Depth(t) /\ ~Stays(t)
<1>1. \A v \in Threads : DOMAIN stack[v] = 1..Depth(v) /\ Depth(v) \in Nat
  BY DEF StacksInv, Depth
<1>2. CASE Stays(t)
  BY <1>2 DEF Stays
<1>3. CASE ~Stays(t)
  <2>1. /\ stack' \in [Threads -> Seq(Frames)]
        /\ \A v \in Threads \ {t} : stack'[v] = stack[v]
        /\ \A j \in 1..Depth(t) - 1 : stack'[t][j] = stack[t][j]
        /\ Len(stack'[t]) >= Depth(t) - 1
    BY <1>1, <1>3 DEF Kind, Returns, GoesOn, ProgramCalls, LibraryCalls, IsPopped, IsReplaced,
                      IsCalled, Kept
  <2>2. CASE u # t
    BY <2>1, <2>2
  <2>3. CASE u = t /\ i # Depth(t)
    BY <1>1, <2>1, <2>3
  <2>4. CASE u = t /\ i = Depth(t)
    BY <1>3, <2>4
  <2> QED
    BY <2>2, <2>3, <2>4
<1> QED
  BY <1>2, <1>3

(* The frames that a step adds.                                            *)
LEMMA NewFrames ==
  ASSUME StacksInv, NEW t \in Threads, stack[t] # <<>>, Kind(t),
         NEW u \in Threads, NEW i \in DOMAIN stack'[u]
  PROVE  \/ i \in DOMAIN stack[u] /\ stack'[u][i] = stack[u][i]
         \/ /\ u = t /\ Ends(stack'[u][i])
            /\ stack'[u][i].what = "handler" => stack'[u][i].arg \in Elements(started')
<1>1. \A v \in Threads : DOMAIN stack[v] = 1..Depth(v) /\ Depth(v) \in Nat
  BY DEF StacksInv, Depth
<1>2. Top(t) = stack[t][Depth(t)] /\ Depth(t) \in Nat \ {0} /\ Depth(t) \in DOMAIN stack[t]
  BY <1>1, StackFacts, FrameFacts DEF Top, Depth
<1>3. CASE Stays(t)
  BY <1>3 DEF Stays
<1>4. CASE ~Stays(t)
  <2>1. Kept(t)
    BY <1>4 DEF Kind, Returns, GoesOn, ProgramCalls, LibraryCalls, IsPopped, IsReplaced, IsCalled
  <2>2. DOMAIN stack'[t] = 1..Len(stack'[t])
    BY <2>1 DEF Kept
  <2>3. CASE u # t \/ i \in 1..Depth(t) - 1
    <3>1. CASE u # t
      BY <2>1, <3>1 DEF Kept
    <3>2. CASE u = t /\ i \in 1..Depth(t) - 1
      BY <1>1, <1>2, <2>1, <3>2 DEF Kept
    <3> QED
      BY <2>3, <3>1, <3>2
  <2>4. CASE u = t /\ i \notin 1..Depth(t) - 1
    <3>1. CASE Returns(t)
      BY <1>2, <2>2, <2>4, <3>1 DEF Returns, IsPopped
    <3>2. ASSUME NEW f \in Frames, GoesOn(t, f)
          PROVE  Ends(stack'[u][i]) /\ stack'[u][i].what # "handler"
      <4>1. i = Depth(t) /\ stack'[u][i] = f
        BY <1>2, <2>2, <2>4, <3>2 DEF GoesOn, IsReplaced
      <4> QED
        BY <3>2, <4>1 DEF GoesOn
    <3>3. ASSUME NEW f \in Frames, ProgramCalls(t, f)
          PROVE  \/ i = Depth(t) /\ stack'[u][i] = stack[u][i]
                 \/ stack'[u][i] = f
      BY <1>2, <2>2, <2>4, <3>3 DEF ProgramCalls, IsCalled
    <3>4. ASSUME NEW f \in Frames, ProgramCalls(t, f), stack'[u][i] = f
          PROVE  Ends(f) /\ (f.what = "handler" => f.arg \in Elements(started'))
      BY <3>4 DEF ProgramCalls
    <3>5. ASSUME NEW next \in Frames, NEW f \in Frames, LibraryCalls(t, next, f)
          PROVE  Ends(stack'[u][i]) /\ stack'[u][i].what # "handler"
      <4>1. stack'[u][i] = next \/ stack'[u][i] = f
        BY <1>2, <2>2, <2>4, <3>5 DEF LibraryCalls, IsCalled
      <4>2. Ends(next) /\ next.what # "handler" /\ Ends(f) /\ f.what # "handler"
        BY <3>5 DEF LibraryCalls, Ends
      <4> QED
        BY <4>1, <4>2
    <3> QED
      BY <1>2, <1>4, <2>4, <3>1, <3>2, <3>3, <3>4, <3>5 DEF Kind
  <2> QED
    BY <2>3, <2>4
<1> QED
  BY <1>3, <1>4

(* A handler runs until it returns, and runs only if it was started.       *)
LEMMA RunningFacts ==
  ASSUME StacksInv, NEW t \in Threads, stack[t] # <<>>, Kind(t), NEW h
  PROVE  /\ IsRunning(h) => IsRunning(h)' \/ h \in returned'
         /\ IsRunning(h)' => IsRunning(h) \/ h \in Elements(started')
<1>1. ASSUME IsRunning(h)
      PROVE  IsRunning(h)' \/ h \in returned'
  <2>1. PICK u \in Threads : \E i \in DOMAIN stack[u] : stack[u][i].what = "handler" /\ stack[u][i].arg = h
    BY <1>1 DEF IsRunning
  <2>2. PICK i \in DOMAIN stack[u] : stack[u][i].what = "handler" /\ stack[u][i].arg = h
    BY <2>1
  <2>3. CASE i \in DOMAIN stack'[u] /\ stack'[u][i] = stack[u][i]
    BY <2>2, <2>3 DEF IsRunning
  <2>4. CASE u = t /\ i = Depth(t) /\ ~Stays(t)
    <3>1. Top(t).what = "handler" /\ Top(t).arg = h
      BY <2>2, <2>4 DEF Top, Depth
    <3>2. CASE Returns(t)
      BY <3>1, <3>2 DEF Returns
    <3>3. ASSUME NEW f \in Frames, ProgramCalls(t, f)
          PROVE  IsRunning(h)'
      <4>1. Depth(t) \in Nat \ {0} /\ Top(t) \in Frames
        BY StackFacts, FrameFacts
      <4>2. stack'[t][Depth(t)] = Top(t) /\ Len(stack'[t]) = Depth(t) + 1 /\ stack'[t] \in Seq(Frames)
        BY <3>3 DEF ProgramCalls, IsCalled, Kept
      <4>3. Depth(t) \in DOMAIN stack'[t]
        BY <4>1, <4>2
      <4> QED
        BY <3>1, <4>2, <4>3 DEF IsRunning
    <3> QED
      BY <2>4, <3>1, <3>2, <3>3 DEF Kind, GoesOn, LibraryCalls
  <2> QED
    BY <2>3, <2>4, KindFacts
<1>2. ASSUME IsRunning(h)'
      PROVE  IsRunning(h) \/ h \in Elements(started')
  <2>1. PICK u \in Threads : \E i \in DOMAIN stack'[u] : stack'[u][i].what = "handler" /\ stack'[u][i].arg = h
    BY <1>2 DEF IsRunning
  <2>2. PICK i \in DOMAIN stack'[u] : stack'[u][i].what = "handler" /\ stack'[u][i].arg = h
    BY <2>1
  <2>3. CASE i \in DOMAIN stack[u] /\ stack'[u][i] = stack[u][i]
    BY <2>2, <2>3 DEF IsRunning
  <2> QED
    BY <2>2, <2>3, NewFrames
<1> QED
  BY <1>1, <1>2

(* The main thread leaves the arrays and main only for the end.            *)
LEMMA BottomFacts ==
  ASSUME StacksInv, NEW t \in Threads, stack[t] # <<>>, Kind(t)
  PROVE  \/ Bottom' = Bottom
         \/ Bottom'.what \in {"exit", "terminate"}
         \/ Top(t).what \in {"init_array", "main", "fini_array"}
<1>0. Main \in Threads
  BY ProcessAssumption
<1>1. Depth(Main) \in Nat \ {0} /\ 1 \in DOMAIN stack[Main]
  BY <1>0 DEF StacksInv, StackShape, Depth
<1>2. CASE 1 \in DOMAIN stack'[Main] /\ stack'[Main][1] = stack[Main][1]
  BY <1>2 DEF Bottom
<1>3. CASE Main = t /\ 1 = Depth(t) /\ ~Stays(t)
  <2>1. Top(t) = Bottom /\ Bottom.what \in {"init_array", "main", "fini_array", "exit", "terminate"}
    BY <1>0, <1>1, <1>3 DEF Top, Bottom, Depth, StacksInv, StackShape
  <2>2. CASE Returns(t)
    BY <2>1, <2>2 DEF Returns, ProgramCode
  <2>3. ASSUME NEW f \in Frames, GoesOn(t, f)
        PROVE  Bottom' = f
    BY <1>3, <2>3 DEF GoesOn, IsReplaced, Bottom
  <2>4. ASSUME NEW f \in Frames, ProgramCalls(t, f)
        PROVE  Bottom' = Bottom
    BY <1>3, <2>1, <2>4 DEF ProgramCalls, IsCalled, Bottom
  <2>5. ASSUME NEW next \in Frames, NEW f \in Frames, LibraryCalls(t, next, f)
        PROVE  Top(t).what \in {"init_array", "fini_array"}
    BY <2>1, <2>5 DEF LibraryCalls
  <2> QED
    BY <1>3, <2>1, <2>2, <2>3, <2>4, <2>5 DEF Kind, GoesOn
<1> QED
  BY <1>0, <1>1, <1>2, <1>3, KindFacts

---------------------------------------------------------------------------
(* Appending an element and taking the last one.                           *)
LEMMA AppendElements ==
  ASSUME NEW S, NEW s \in Seq(S), NEW e \in S
  PROVE  /\ Append(s, e) \in Seq(S) /\ Len(Append(s, e)) = Len(s) + 1
         /\ Append(s, e)[Len(s) + 1] = e /\ Append(s, e) # <<>>
         /\ \A i \in 1..Len(s) : Append(s, e)[i] = s[i]
         /\ Elements(Append(s, e)) = Elements(s) \cup {e}
<1>1. /\ Append(s, e) \in Seq(S) /\ Len(Append(s, e)) = Len(s) + 1
      /\ Append(s, e)[Len(s) + 1] = e /\ Append(s, e) # <<>>
      /\ \A i \in 1..Len(s) : Append(s, e)[i] = s[i]
  OBVIOUS
<1>2. DOMAIN s = 1..Len(s) /\ DOMAIN Append(s, e) = 1..Len(s) \cup {Len(s) + 1}
  OBVIOUS
<1> QED
  BY <1>1, <1>2 DEF Elements

LEMMA FrontElements ==
  ASSUME NEW S, NEW s \in Seq(S), s # <<>>
  PROVE  LET b == SubSeq(s, 1, Len(s) - 1) IN
         /\ b \in Seq(S) /\ Len(s) \in Nat \ {0} /\ Len(b) = Len(s) - 1
         /\ s[Len(s)] \in S
         /\ \A i \in 1..Len(b) : b[i] = s[i]
         /\ Elements(s) = Elements(b) \cup {s[Len(s)]}
<1> DEFINE b == SubSeq(s, 1, Len(s) - 1)
<1>1. LastChanged(S, s, s[Len(s)], s[Len(s)])
  BY BelowFacts
<1>2. /\ b \in Seq(S) /\ Len(s) \in Nat \ {0} /\ Len(b) = Len(s) - 1
      /\ s[Len(s)] \in S /\ \A i \in 1..Len(s) - 1 : b[i] = s[i]
  BY <1>1 DEF LastChanged
<1> HIDE DEF b
<1>3. DOMAIN b = 1..Len(s) - 1 /\ DOMAIN s = 1..Len(s)
  BY <1>2
<1>4. 1..Len(s) = 1..(Len(s) - 1) \cup {Len(s)}
  BY <1>2
<1>5. DOMAIN s = DOMAIN b \cup {Len(s)}
  BY <1>3, <1>4
<1>6. \A i \in DOMAIN b : b[i] = s[i]
  BY <1>2, <1>3
<1>7. Elements(s) = Elements(b) \cup {s[Len(s)]}
  BY ONLY <1>5, <1>6 DEF Elements
<1>8. \A i \in 1..Len(b) : b[i] = s[i]
  BY <1>2
<1> QED
  BY <1>2, <1>7, <1>8 DEF b

LEMMA AscendingAppend ==
  ASSUME NEW s \in Seq(Int), NEW e \in Int, Ascending(s), \A x \in Elements(s) : x < e
  PROVE  Ascending(Append(s, e))
<1>1. /\ Len(Append(s, e)) = Len(s) + 1 /\ Append(s, e)[Len(s) + 1] = e
      /\ \A i \in 1..Len(s) : Append(s, e)[i] = s[i]
      /\ Append(s, e) \in Seq(Int)
  BY AppendElements
<1>2. \A i \in 1..Len(s) : s[i] < e
  BY DEF Elements
<1> QED
  BY <1>1, <1>2 DEF Ascending

LEMMA DescendingAppend ==
  ASSUME NEW s \in Seq(Int), NEW e \in Int, Descending(s), \A x \in Elements(s) : x > e
  PROVE  Descending(Append(s, e))
<1>1. /\ Len(Append(s, e)) = Len(s) + 1 /\ Append(s, e)[Len(s) + 1] = e
      /\ \A i \in 1..Len(s) : Append(s, e)[i] = s[i]
      /\ Append(s, e) \in Seq(Int)
  BY AppendElements
<1>2. \A i \in 1..Len(s) : s[i] > e
  BY DEF Elements
<1> QED
  BY <1>1, <1>2 DEF Descending

(* The list of handlers changes in two steps only.                         *)
ListStays == UNCHANGED <<handlers, registered, started>>
Registers ==
  /\ registered < MaxRegistrations /\ Len(handlers) < ATEXIT_MAX_HANDLERS
  /\ registered' = registered + 1
  /\ handlers' = Append(handlers, registered + 1)
  /\ UNCHANGED <<started, returned>>
Starts ==
  /\ handlers # <<>>
  /\ handlers' = SubSeq(handlers, 1, Len(handlers) - 1)
  /\ started' = Append(started, handlers[Len(handlers)])
  /\ UNCHANGED <<registered, returned>>

LEMMA ListSteps ==
  ASSUME StacksInv, NEW t \in Threads, Library(t) \/ Program(t)
  PROVE  /\ ListStays \/ Registers \/ Starts
         /\ \/ returned' = returned
            \/ /\ returned' = returned \cup {Top(t).arg} /\ Top(t).what = "handler" /\ ListStays
               /\ stack[t] # <<>>
<1> USE DEF listVars, ListStays
<1>1. CASE Atexit(t) \/ RunAtexitHandler(t)
  BY <1>1 DEF Atexit, RunAtexitHandler, Registers, Starts
<1>2. CASE ReturnFromCode(t)
  BY <1>2 DEF ReturnFromCode, RunsProgram
<1>3. CASE UNCHANGED listVars
  BY <1>3
<1> QED
  BY <1>1, <1>2, <1>3
  DEF Library, Program, RunInitArray, RunFiniArray, NoHandlerLeft, Terminate, Unblock, FirstRaise,
      Reset, SecondRaise, Exit, QuickExit, Abort, SetDisposition, BlockSigabrt

LEMMA HandlersKept ==
  ASSUME StacksInv, HandlersInv, NEW t \in Threads, Library(t) \/ Program(t), stack[t] # <<>>, Kind(t)
  PROVE  HandlersInv'
<1>1. /\ registered \in Nat /\ registered <= MaxRegistrations /\ MaxRegistrations \in Nat
      /\ handlers \in Seq(1..registered) /\ Len(handlers) \in Nat
      /\ started \in Seq(1..registered) /\ Len(started) \in Nat /\ returned \subseteq 1..registered
      /\ Len(handlers) <= ATEXIT_MAX_HANDLERS /\ ATEXIT_MAX_HANDLERS \in Nat
      /\ Ascending(handlers)
      /\ Len(handlers) + Len(started) = registered
      /\ Elements(handlers) \cup Elements(started) = 1..registered
  <2>1. /\ registered \in Nat /\ registered <= MaxRegistrations /\ handlers \in Seq(1..registered)
        /\ started \in Seq(1..registered) /\ returned \subseteq 1..registered
        /\ Len(handlers) <= ATEXIT_MAX_HANDLERS /\ Ascending(handlers)
    BY DEF HandlersInv
  <2>2. Len(handlers) \in Nat /\ Len(started) \in Nat
    BY <2>1
  <2>3. /\ Len(handlers) + Len(started) = registered
        /\ Elements(handlers) \cup Elements(started) = 1..registered
    BY DEF HandlersInv, HandlersRunOnce, Elements
  <2> QED
    BY <2>1, <2>2, <2>3, ProcessAssumption
<1>2. \A h : /\ IsRunning(h) => IsRunning(h)' \/ h \in returned'
             /\ IsRunning(h)' => IsRunning(h) \/ h \in Elements(started')
  BY RunningFacts
<1>3. /\ \A h \in Elements(started) : h \in returned \/ IsRunning(h)
      /\ \A h \in Nat : IsRunning(h) => h \in 1..registered
  BY DEF HandlersInv
<1>4. returned \subseteq returned'
  BY ListSteps
<1>5. ASSUME registered' \in Nat, registered' <= MaxRegistrations, registered <= registered',
             handlers' \in Seq(1..registered'), Len(handlers') <= ATEXIT_MAX_HANDLERS,
             started' \in Seq(1..registered'), returned' \subseteq 1..registered',
             Ascending(handlers'),
             Len(handlers') + Len(started') = registered',
             Elements(handlers') \cup Elements(started') = 1..registered',
             \A h \in Elements(started') : h \in Elements(started) \/ IsRunning(h)'
      PROVE  HandlersInv'
  <2>1. \A h \in Elements(started') : h \in returned' \/ IsRunning(h)'
    BY <1>2, <1>3, <1>4, <1>5
  <2>2. Elements(started') \subseteq 1..registered'
    BY <1>5
  <2>3. ASSUME NEW h \in Nat, IsRunning(h)'
        PROVE  h \in 1..registered'
    <3>1. IsRunning(h) \/ h \in Elements(started')
      BY <1>2, <2>3
    <3>2. 1..registered \subseteq 1..registered'
      BY <1>1, <1>5
    <3> QED
      BY <1>3, <2>2, <2>3, <3>1, <3>2
  <2>4. HandlersRunOnce'
    BY <1>5 DEF HandlersRunOnce, Elements
  <2>5. Ascending(handlers)'
    BY <1>5 DEF Ascending
  <2>6. \A h \in Elements(started)' : h \in returned' \/ IsRunning(h)'
    BY <2>1 DEF Elements
  <2> QED
    BY <1>5, <2>3, <2>4, <2>5, <2>6 DEF HandlersInv
<1>6. CASE ListStays
  <2>1. returned' \subseteq 1..registered
    <3>1. CASE returned' = returned
      BY <1>1, <3>1
    <3>2. CASE returned' = returned \cup {Top(t).arg} /\ Top(t).what = "handler"
      <4>1. Depth(t) \in DOMAIN stack[t] /\ Top(t) = stack[t][Depth(t)] /\ Top(t) \in Frames
        BY StackFacts, FrameFacts DEF Depth, Top, StacksInv
      <4>2. IsRunning(Top(t).arg) /\ Top(t).arg \in Nat
        BY <3>2, <4>1, ArgFacts DEF IsRunning
      <4> QED
        BY <1>1, <1>3, <3>2, <4>2
    <3> QED
      BY <3>1, <3>2, ListSteps
  <2> QED
    BY <1>1, <1>5, <1>6, <2>1 DEF ListStays
<1>7. CASE Registers
  <2> DEFINE r == registered + 1
  <2>1. r \in Nat /\ r \in 1..r /\ 1..r = 1..registered \cup {r} /\ registered < MaxRegistrations
    BY <1>1, <1>7 DEF Registers
  <2>2. handlers \in Seq(1..r) /\ started \in Seq(1..r)
    <3>1. \A S, T : S \subseteq T => Seq(S) \subseteq Seq(T)
      OBVIOUS
    <3> QED
      BY <1>1, <2>1, <3>1
  <2>3. /\ Append(handlers, r) \in Seq(1..r) /\ Len(Append(handlers, r)) = Len(handlers) + 1
        /\ Elements(Append(handlers, r)) = Elements(handlers) \cup {r}
    BY <2>1, <2>2, AppendElements
  <2>4. Ascending(Append(handlers, r))
    <3>1. handlers \in Seq(Int) /\ r \in Int
      BY <1>1
    <3>2. \A x \in Elements(handlers) : x < r
      BY <1>1
    <3> QED
      BY <1>1, <3>1, <3>2, AscendingAppend
  <2>5. registered' = r /\ handlers' = Append(handlers, r) /\ started' = started /\ returned' = returned
    BY <1>7 DEF Registers
  <2>6. Len(handlers) + 1 <= ATEXIT_MAX_HANDLERS
    BY <1>1, <1>7 DEF Registers
  <2>7. r <= MaxRegistrations /\ registered <= r /\ Len(handlers) + 1 + Len(started) = r
    BY <1>1, <2>1
  <2> HIDE DEF r
  <2> QED
    BY <1>1, <1>5, <2>1, <2>2, <2>3, <2>4, <2>5, <2>6, <2>7
<1>8. CASE Starts
  <2>0. handlers # <<>> /\ handlers[Len(handlers)] \in 1..registered
        /\ SubSeq(handlers, 1, Len(handlers) - 1) \in Seq(1..registered)
    BY <1>1, <1>8, FrontElements DEF Starts
  <2>h. PICK h \in 1..registered : h = handlers[Len(handlers)]
    BY <2>0
  <2>b. PICK b \in Seq(1..registered) : b = SubSeq(handlers, 1, Len(handlers) - 1)
    BY <2>0
  <2>1. /\ Len(handlers) \in Nat \ {0} /\ Len(b) = Len(handlers) - 1
        /\ \A i \in 1..Len(b) : b[i] = handlers[i]
        /\ Elements(handlers) = Elements(b) \cup {h}
    BY <1>1, <2>0, <2>h, <2>b, FrontElements
  <2>d. DOMAIN b = 1..Len(b) /\ DOMAIN handlers = 1..Len(handlers)
    BY <1>1
  <2>2. /\ Append(started, h) \in Seq(1..registered) /\ Len(Append(started, h)) = Len(started) + 1
        /\ Elements(Append(started, h)) = Elements(started) \cup {h}
    <3>1. \A R : started \in Seq(R) /\ h \in R
            => /\ Append(started, h) \in Seq(R) /\ Len(Append(started, h)) = Len(started) + 1
               /\ Elements(Append(started, h)) = Elements(started) \cup {h}
      BY AppendElements
    <3> QED
      BY <1>1, <3>1
  <2>3. handlers' = b /\ started' = Append(started, h) /\ registered' = registered /\ returned' = returned
    BY <1>8, <2>h, <2>b DEF Starts
  <2>4. IsRunning(h)'
    <3>1. Runs(t, "exit") /\ Push(t, Frame("handler", h))
      <4>1. ~ListStays /\ ~Registers
        <5>1. started' # started
          BY <1>1, <2>2, <2>3
        <5> QED
          BY <5>1 DEF ListStays, Registers
      <4>2. RunAtexitHandler(t)
        BY <4>1 DEF Library, Program, RunInitArray, RunFiniArray, NoHandlerLeft, Terminate, Unblock,
                    FirstRaise, Reset, SecondRaise, ReturnFromCode, Atexit, Exit, QuickExit, Abort,
                    SetDisposition, BlockSigabrt, ListStays, Registers, listVars
      <4> QED
        BY <2>h, <4>2 DEF RunAtexitHandler
    <3>2. Frame("handler", h) \in Frames /\ Frame("handler", h).what = "handler" /\ Frame("handler", h).arg = h
      BY <1>1, <2>1, FrameFacts
    <3>3. IsCalled(t, Top(t), Frame("handler", h)) /\ Depth(t) \in Nat
      BY <3>1, <3>2, StackFacts
    <3>4. /\ stack' \in [Threads -> Seq(Frames)] /\ Len(stack'[t]) = Depth(t) + 1
          /\ stack'[t][Depth(t) + 1] = Frame("handler", h)
      BY <3>3 DEF IsCalled, Kept
    <3>5. Depth(t) + 1 \in DOMAIN stack'[t]
      BY <3>3, <3>4
    <3> QED
      BY <3>2, <3>4, <3>5 DEF IsRunning
  <2>5. Ascending(b)
    <3>1. \A i \in DOMAIN b : i \in DOMAIN handlers /\ b[i] = handlers[i]
      <4>1. Len(handlers) \in Nat /\ Len(b) = Len(handlers) - 1 /\ \A i \in 1..Len(b) : b[i] = handlers[i]
        BY <2>1
      <4> QED
        BY ONLY <2>d, <4>1
    <3> QED
      BY <3>1 DEF HandlersInv, Ascending
  <2>6. /\ Len(b) <= ATEXIT_MAX_HANDLERS /\ Len(b) + (Len(started) + 1) = registered
        /\ Elements(b) \cup (Elements(started) \cup {h}) = 1..registered
    <3>1. Len(b) <= ATEXIT_MAX_HANDLERS /\ Len(b) + (Len(started) + 1) = registered
      <4>1. /\ Len(handlers) \in Nat /\ Len(b) = Len(handlers) - 1 /\ Len(started) \in Nat
            /\ ATEXIT_MAX_HANDLERS \in Nat /\ Len(handlers) <= ATEXIT_MAX_HANDLERS
            /\ Len(handlers) + Len(started) = registered
        BY <1>1, <2>1
      <4> QED
        BY ONLY <4>1
    <3>2. Elements(b) \cup (Elements(started) \cup {h}) = Elements(handlers) \cup Elements(started)
      BY ONLY <2>1
    <3> QED
      BY <1>1, <3>1, <3>2
  <2>7. \A x \in Elements(started') : x \in Elements(started) \/ IsRunning(x)'
    BY <2>2, <2>3, <2>4
  <2> QED
    BY <1>1, <1>5, <2>2, <2>3, <2>5, <2>6, <2>7
<1> QED
  BY <1>6, <1>7, <1>8, ListSteps

---------------------------------------------------------------------------
(* The arrays move in three steps, each of the main thread's bottom frame. *)
LEMMA BottomIsTop ==
  ASSUME StacksInv, NEW t \in Threads, stack[t] # <<>>,
         Top(t).what \in {"init_array", "main", "fini_array"}
  PROVE  t = Main /\ Depth(t) = 1 /\ Top(t) = Bottom /\ Bottom \in Frames
<1>1. Depth(t) \in DOMAIN stack[t] /\ Top(t) = stack[t][Depth(t)] /\ Top(t) \in Frames
  BY StackFacts, FrameFacts DEF Depth, Top, StacksInv
<1>2. t = Main /\ Depth(t) = 1
  BY <1>1 DEF StacksInv, StackShape
<1> QED
  BY <1>1, <1>2 DEF Bottom

LEMMA NewBottom ==
  ASSUME StacksInv, stack[Main] # <<>>, Depth(Main) = 1, NEW f \in Frames, NEW g \in Frames,
         Replace(Main, f) \/ CallFrom(Main, f, g)
  PROVE  Bottom' = f
<1>1. Main \in Threads
  BY ProcessAssumption
<1>2. IsReplaced(Main, f) \/ IsCalled(Main, f, g)
  BY <1>1, StackFacts
<1> QED
  BY <1>2 DEF Bottom, IsReplaced, IsCalled

LEMMA ArraysKept ==
  ASSUME StacksInv, ArraysInv, NEW t \in Threads, Library(t) \/ Program(t), stack[t] # <<>>, Kind(t)
  PROVE  ArraysInv'
<1> USE DEF arrayVars
<1>1. /\ InitArray \in Seq(BOOLEAN) /\ FiniArray \in Seq(BOOLEAN)
      /\ DOMAIN InitArray = 1..Len(InitArray) /\ Len(InitArray) \in Nat
      /\ DOMAIN FiniArray = 1..Len(FiniArray) /\ Len(FiniArray) \in Nat
  BY ProcessAssumption
<1>2. /\ constructed \in Seq(DOMAIN InitArray) /\ destructed \in Seq(DOMAIN FiniArray)
      /\ Ascending(constructed) /\ Descending(destructed)
      /\ destructed # <<>> => AllConstructed
  BY DEF ArraysInv
<1>3. Top(t) \in Frames
  BY StackFacts, FrameFacts
<1>4. CASE RunInitArray(t)
  <2>1. /\ t = Main /\ Depth(t) = 1 /\ Bottom \in Frames /\ Bottom.what = "init_array"
        /\ Top(t) = Bottom /\ UNCHANGED destructed
    BY <1>4, BottomIsTop DEF RunInitArray, Runs
  <2>2. PICK slot \in Nat : slot = Bottom.arg
    BY <2>1, ArgFacts
  <2>3. /\ slot >= 1 /\ destructed = <<>>
        /\ Elements(constructed) = {i \in Callable(InitArray) : i < slot}
    BY <2>1, <2>2 DEF ArraysInv
  <2>4. /\ Frame("init_array", slot + 1) \in Frames /\ Frame("constructor", slot) \in Frames
        /\ Frame("main", 0) \in Frames /\ slot + 1 \in Nat
        /\ \A what, arg : Frame(what, arg).what = what /\ Frame(what, arg).arg = arg
    BY FrameFacts
  <2>5. CASE /\ slot <= Len(InitArray) /\ InitArray[slot]
             /\ CallFrom(t, Frame("init_array", slot + 1), Frame("constructor", slot))
             /\ constructed' = Append(constructed, slot)
    <3>1. Bottom' = Frame("init_array", slot + 1)
      BY <2>1, <2>4, <2>5, NewBottom
    <3>2. slot \in DOMAIN InitArray /\ slot \in Callable(InitArray)
      BY <1>1, <2>3, <2>5 DEF Callable
    <3>3. /\ Append(constructed, slot) \in Seq(DOMAIN InitArray)
          /\ Elements(Append(constructed, slot)) = Elements(constructed) \cup {slot}
      BY <1>2, <3>2, AppendElements
    <3>4. Ascending(Append(constructed, slot))
      <4>1. constructed \in Seq(Int) /\ slot \in Int
        BY <1>1, <1>2
      <4> QED
        BY <1>2, <2>3, <4>1, AscendingAppend
    <3>5. Elements(constructed) \cup {slot} = {i \in Callable(InitArray) : i < slot + 1}
      <4>1. \A i \in Callable(InitArray) : i \in Nat /\ (i < slot + 1 <=> i < slot \/ i = slot)
        BY <1>1 DEF Callable
      <4>2. \A i : i \in {j \in Callable(InitArray) : j < slot + 1}
                     <=> i \in {j \in Callable(InitArray) : j < slot} \/ i = slot
        BY ONLY <3>2, <4>1
      <4> QED
        BY ONLY <2>3, <4>2
    <3>6. slot + 1 >= 1
      BY <2>2
    <3>7. Elements(constructed)' = {i \in Callable(InitArray) : i < slot + 1}
      BY <2>5, <3>3, <3>5 DEF Elements
    <3> QED
      BY <1>2, <2>1, <2>3, <2>4, <2>5, <3>1, <3>3, <3>4, <3>6, <3>7 DEF ArraysInv, Ascending, Descending
  <2>6. CASE slot <= Len(InitArray) /\ ~InitArray[slot] /\ Replace(t, Frame("init_array", slot + 1))
             /\ UNCHANGED constructed
    <3>1. Bottom' = Frame("init_array", slot + 1)
      BY <2>1, <2>4, <2>6, NewBottom
    <3>2. {i \in Callable(InitArray) : i < slot} = {i \in Callable(InitArray) : i < slot + 1}
      <4>1. \A i \in Callable(InitArray) : i < slot + 1 <=> i < slot
        BY <1>1, <2>6 DEF Callable
      <4> QED
        BY <4>1
    <3>3. Elements(constructed)' = {i \in Callable(InitArray) : i < slot + 1}
      BY <2>3, <2>6, <3>2 DEF Elements
    <3>4. slot + 1 >= 1
      BY <2>2
    <3> QED
      BY <1>2, <2>1, <2>3, <2>4, <2>6, <3>1, <3>3, <3>4 DEF ArraysInv, Ascending, Descending
  <2>7. CASE slot > Len(InitArray) /\ Replace(t, Frame("main", 0)) /\ UNCHANGED constructed
    <3>1. Bottom' = Frame("main", 0)
      BY <2>1, <2>4, <2>7, NewBottom
    <3>2. {i \in Callable(InitArray) : i < slot} = Callable(InitArray)
      BY <1>1, <2>7 DEF Callable
    <3>3. AllConstructed'
      BY <2>3, <2>7, <3>2 DEF AllConstructed, Elements
    <3> QED
      BY <1>2, <2>1, <2>3, <2>4, <2>7, <3>1, <3>3 DEF ArraysInv, Ascending, Descending
  <2> QED
    BY <1>4, <2>1, <2>2, <2>5, <2>6, <2>7 DEF RunInitArray
<1>5. CASE RunFiniArray(t)
  <2>1. /\ t = Main /\ Depth(t) = 1 /\ Bottom \in Frames /\ Bottom.what = "fini_array"
        /\ Top(t) = Bottom /\ UNCHANGED constructed
    BY <1>5, BottomIsTop DEF RunFiniArray, Runs
  <2>2. PICK slot \in Nat : slot = Bottom.arg
    BY <2>1, ArgFacts
  <2>3. slot <= Len(FiniArray) /\ AllConstructed /\ \A i \in Elements(destructed) : i > slot
    BY <2>1, <2>2 DEF ArraysInv
  <2>4. AllConstructed'
    BY <2>1, <2>3 DEF AllConstructed, Elements
  <2>5. /\ slot >= 1 => /\ slot - 1 \in Nat /\ slot - 1 <= Len(FiniArray)
                        /\ Frame("fini_array", slot - 1) \in Frames
        /\ Frame("destructor", slot) \in Frames /\ Frame("exit", 0) \in Frames
        /\ \A what, arg : Frame(what, arg).what = what /\ Frame(what, arg).arg = arg
    <3>1. slot >= 1 => slot - 1 \in Nat /\ slot - 1 <= Len(FiniArray)
      BY <1>1, <2>2, <2>3
    <3> QED
      BY <3>1, FrameFacts
  <2>6. CASE /\ slot >= 1 /\ FiniArray[slot]
             /\ CallFrom(t, Frame("fini_array", slot - 1), Frame("destructor", slot))
             /\ destructed' = Append(destructed, slot)
    <3>1. Bottom' = Frame("fini_array", slot - 1)
      BY <2>1, <2>5, <2>6, NewBottom
    <3>2. slot \in DOMAIN FiniArray
      BY <1>1, <2>3, <2>6
    <3>3. /\ Append(destructed, slot) \in Seq(DOMAIN FiniArray)
          /\ Elements(Append(destructed, slot)) = Elements(destructed) \cup {slot}
      BY <1>2, <3>2, AppendElements
    <3>4. Descending(Append(destructed, slot))
      <4>1. destructed \in Seq(Int) /\ slot \in Int
        BY <1>1, <1>2
      <4> QED
        BY <1>2, <2>3, <4>1, DescendingAppend
    <3>5. Elements(destructed) \subseteq Nat
      BY <1>1, <1>2 DEF Elements
    <3>6. \A i \in Elements(destructed) \cup {slot} : i > slot - 1
      BY <2>3, <3>5
    <3>7. \A i \in Elements(destructed)' : i > slot - 1
      BY <2>6, <3>3, <3>6 DEF Elements
    <3> QED
      BY <1>2, <2>1, <2>4, <2>5, <2>6, <3>1, <3>3, <3>4, <3>7 DEF ArraysInv, Ascending, Descending
  <2>7. CASE slot >= 1 /\ Replace(t, Frame("fini_array", slot - 1)) /\ UNCHANGED destructed
    <3>1. Bottom' = Frame("fini_array", slot - 1)
      BY <2>1, <2>5, <2>7, NewBottom
    <3>2. Elements(destructed) \subseteq Nat
      BY <1>1, <1>2 DEF Elements
    <3>3. \A i \in Elements(destructed) : i > slot - 1
      BY <2>3, <3>2
    <3>4. \A i \in Elements(destructed)' : i > slot - 1
      BY <2>7, <3>3 DEF Elements
    <3> QED
      BY <1>2, <2>1, <2>4, <2>5, <2>7, <3>1, <3>4 DEF ArraysInv, Ascending, Descending
  <2>8. CASE Replace(t, Frame("exit", 0)) /\ UNCHANGED destructed
    <3>1. Bottom' = Frame("exit", 0)
      BY <2>1, <2>5, <2>8, NewBottom
    <3> QED
      BY <1>2, <2>1, <2>4, <2>5, <2>8, <3>1 DEF ArraysInv, Ascending, Descending
  <2> QED
    BY <1>5, <2>1, <2>2, <2>6, <2>7, <2>8 DEF RunFiniArray
<1>6. CASE ReturnFromCode(t) /\ Top(t).what = "main"
  <2>1. t = Main /\ Depth(t) = 1 /\ Bottom.what = "main" /\ UNCHANGED arrayVars
    BY <1>6, BottomIsTop DEF ReturnFromCode
  <2>2. Frame("fini_array", Len(FiniArray)) \in Frames /\ Frame("fini_array", Len(FiniArray)).what = "fini_array"
        /\ Frame("fini_array", Len(FiniArray)).arg = Len(FiniArray)
    BY <1>1, FrameFacts
  <2>3. Bottom' = Frame("fini_array", Len(FiniArray))
    BY <1>6, <2>1, <2>2, NewBottom DEF ReturnFromCode
  <2>4. AllConstructed' /\ destructed' = <<>>
    BY <2>1 DEF ArraysInv, AllConstructed, Elements
  <2>5. Elements(destructed)' = {}
    BY <2>4 DEF Elements
  <2> QED
    BY <1>1, <1>2, <2>1, <2>2, <2>3, <2>4, <2>5 DEF ArraysInv, Ascending, Descending
<1>7. CASE UNCHANGED arrayVars /\ Top(t).what \notin {"init_array", "main", "fini_array"}
  <2>1. Elements(constructed)' = Elements(constructed) /\ Elements(destructed)' = Elements(destructed)
        /\ AllConstructed' = AllConstructed
    BY <1>7 DEF AllConstructed, Elements
  <2>2. Ascending(constructed)' /\ Descending(destructed)'
    BY <1>2, <1>7 DEF Ascending, Descending
  <2>3. Bottom' = Bottom \/ Bottom'.what \in {"exit", "terminate"}
    BY <1>7, BottomFacts
  <2>4. CASE Bottom' = Bottom
    BY <1>7, <2>1, <2>2, <2>4 DEF ArraysInv
  <2>5. CASE Bottom'.what \in {"exit", "terminate"}
    BY <1>2, <1>7, <2>1, <2>2, <2>5 DEF ArraysInv
  <2> QED
    BY <2>3, <2>4, <2>5
<1>8. CASE UNCHANGED <<arrayVars, stack>>
  <2>1. Elements(constructed)' = Elements(constructed) /\ Elements(destructed)' = Elements(destructed)
        /\ AllConstructed' = AllConstructed /\ Bottom' = Bottom
    BY <1>8 DEF AllConstructed, Elements, Bottom
  <2>2. Ascending(constructed)' /\ Descending(destructed)'
    BY <1>2, <1>8 DEF Ascending, Descending
  <2> QED
    BY <1>8, <2>1, <2>2 DEF ArraysInv
<1>9. CASE Exit(t) \/ QuickExit(t) \/ Abort(t)
  <2>1. UNCHANGED arrayVars /\ \E f \in Frames : Push(t, f)
    BY <1>9, FrameFacts DEF Exit, QuickExit, Abort
  <2>2. PICK f \in Frames : Push(t, f)
    BY <2>1
  <2>3. Bottom' = Bottom
    <3>1. Depth(t) \in Nat \ {0} /\ Depth(Main) \in Nat \ {0} /\ Main \in Threads
      BY StackFacts, FrameFacts, ProcessAssumption DEF StacksInv, StackShape, Depth
    <3>2. IsCalled(t, Top(t), f)
      BY <2>2, StackFacts
    <3> QED
      BY <3>1, <3>2 DEF Bottom, IsCalled, Kept, Top, Depth
  <2>4. Elements(constructed)' = Elements(constructed) /\ Elements(destructed)' = Elements(destructed)
        /\ AllConstructed' = AllConstructed
    BY <2>1 DEF AllConstructed, Elements
  <2>5. Ascending(constructed)' /\ Descending(destructed)'
    BY <1>2, <2>1 DEF Ascending, Descending
  <2> QED
    BY <2>1, <2>3, <2>4, <2>5 DEF ArraysInv
<1> QED
  <2>1. Library(t) =>
          \/ RunInitArray(t) \/ RunFiniArray(t)
          \/ UNCHANGED arrayVars /\ Top(t).what \notin {"init_array", "main", "fini_array"}
    BY DEF Library, RunAtexitHandler, NoHandlerLeft, Terminate, Unblock, FirstRaise, Reset,
           SecondRaise, InAbort, Runs
  <2>2. Program(t) =>
          \/ Exit(t) \/ QuickExit(t) \/ Abort(t)
          \/ UNCHANGED <<arrayVars, stack>>
          \/ ReturnFromCode(t) /\ Top(t).what = "main"
          \/ UNCHANGED arrayVars /\ Top(t).what \notin {"init_array", "main", "fini_array"}
    BY DEF Program, ReturnFromCode, Atexit, SetDisposition, BlockSigabrt, RunsProgram, ProgramCode
  <2> QED
    BY <1>4, <1>5, <1>6, <1>7, <1>8, <1>9, <2>1, <2>2

---------------------------------------------------------------------------
LEMMA ExitStarts == Init => ExitIInv
<1> SUFFICES ASSUME Init PROVE ExitIInv
  OBVIOUS
<1>1. PICK first \in {Frame("init_array", 1), Frame("exit", 0)} :
        stack = [t \in Threads |-> IF t = Main THEN <<first>> ELSE <<Frame("thread", 0)>>]
  BY DEF Init
<1>2. /\ first \in Frames /\ first.what \in {"init_array", "exit"}
      /\ first.what = "init_array" => first.arg = 1
      /\ Frame("thread", 0) \in Frames /\ Frame("thread", 0).what = "thread"
  BY FrameFacts
<1>3. ASSUME NEW t \in Threads
      PROVE  /\ stack[t] \in Seq(Frames) /\ Len(stack[t]) = 1 /\ DOMAIN stack[t] = {1}
             /\ stack[t][1] = IF t = Main THEN first ELSE Frame("thread", 0)
  BY <1>1, <1>2, <1>3
<1>4. StacksInv
  <2>1. stack \in [Threads -> Seq(Frames)]
    BY <1>1, <1>3
  <2>2. \A t \in Threads : StackShape(t) /\ AbortUnblocked(t)
    BY <1>2, <1>3 DEF StackShape, AbortUnblocked
  <2> QED
    BY <2>1, <2>2 DEF StacksInv
<1>5. \A h : ~IsRunning(h)
  BY <1>2, <1>3 DEF IsRunning
<1>6. \A S : <<>> \in Seq(S) /\ Elements(<<>>) = {} /\ Ascending(<<>>) /\ Descending(<<>>) /\ Len(<<>>) = 0
  BY DEF Elements, Ascending, Descending
<1>7. HandlersInv
  <2>1. HandlersRunOnce
    <3>1. {handlers[i] : i \in DOMAIN handlers} = {} /\ {started[i] : i \in DOMAIN started} = {}
      BY DEF Init
    <3> QED
      BY <1>6, <3>1 DEF Init, HandlersRunOnce
  <2> QED
    BY <1>5, <1>6, <2>1, ProcessAssumption DEF Init, HandlersInv
<1>8. ArraysInv
  <2>1. Bottom = first
    BY <1>3, ProcessAssumption DEF Bottom
  <2>2. {i \in Callable(InitArray) : i < 1} = {}
    BY ProcessAssumption DEF Callable
  <2> QED
    BY <1>2, <1>6, <2>1, <2>2 DEF Init, ArraysInv
<1>9. SignalsInv
  BY DEF Init, SignalsInv, Outcomes
<1> QED
  BY <1>4, <1>7, <1>8, <1>9 DEF ExitIInv

LEMMA SignalsKept ==
  ASSUME SignalsInv, NEW t \in Threads, Library(t) \/ Program(t), Top(t) \in Frames, BlockedOf(t)
  PROVE  SignalsInv'
<1>1. disposition' \in {"default", "ignore", "catch"}
  BY DEF SignalsInv, Library, Program, RunInitArray, RunFiniArray, RunAtexitHandler, NoHandlerLeft,
         Terminate, Unblock, FirstRaise, Reset, SecondRaise, ReturnFromCode, Atexit, Exit, QuickExit,
         Abort, SetDisposition, BlockSigabrt, signalVars
<1>2. outcome' \in Outcomes
  <2>1. Top(t).what = "terminate" => Top(t).arg \in Outcomes
    BY ArgFacts DEF Outcomes
  <2> QED
    BY <2>1
    DEF SignalsInv, Outcomes, Library, Program, RunInitArray, RunFiniArray, RunAtexitHandler,
        NoHandlerLeft, Terminate, Unblock, FirstRaise, Reset, SecondRaise, ReturnFromCode, Atexit,
        Exit, QuickExit, Abort, SetDisposition, BlockSigabrt, Runs, Raise
<1> QED
  BY <1>1, <1>2 DEF SignalsInv, BlockedOf

LEMMA ExitStays == ExitIInv /\ UNCHANGED vars => ExitIInv'
<1> SUFFICES ASSUME ExitIInv, UNCHANGED vars PROVE ExitIInv'
  OBVIOUS
<1> USE DEF vars, listVars, arrayVars, signalVars
<1>1. StacksInv'
  BY DEF ExitIInv, StacksInv, StackShape, AbortUnblocked
<1>2. HandlersInv'
  BY DEF ExitIInv, HandlersInv, HandlersRunOnce, IsRunning, Elements, Ascending
<1>3. ArraysInv'
  BY DEF ExitIInv, ArraysInv, Bottom, AllConstructed, Elements, Ascending, Descending
<1>4. SignalsInv'
  BY DEF ExitIInv, SignalsInv
<1> QED
  BY <1>1, <1>2, <1>3, <1>4 DEF ExitIInv

LEMMA ExitSteps == ExitIInv /\ [Next]_vars => ExitIInv'
<1> SUFFICES ASSUME ExitIInv, Next PROVE ExitIInv'
  BY ExitStays
<1>1. CASE Ended
  BY <1>1, ExitStays DEF Ended
<1>2. CASE \E t \in Threads : Library(t) \/ Program(t)
  <2>1. PICK t \in Threads : Library(t) \/ Program(t)
    BY <1>2
  <2>2. stack[t] # <<>> /\ Top(t) \in Frames /\ Kind(t) /\ BlockedOf(t)
    BY <2>1, StepKinds DEF ExitIInv, SignalsInv
  <2>3. StacksInv'
    BY <2>2, KindKeepsStacks DEF ExitIInv, SignalsInv
  <2>4. HandlersInv'
    BY <2>1, <2>2, HandlersKept DEF ExitIInv
  <2>5. ArraysInv'
    BY <2>1, <2>2, ArraysKept DEF ExitIInv
  <2>6. SignalsInv'
    BY <2>1, <2>2, SignalsKept DEF ExitIInv
  <2> QED
    BY <2>3, <2>4, <2>5, <2>6 DEF ExitIInv
<1> QED
  BY <1>1, <1>2 DEF Next

LEMMA ExitInvariant == Spec => []ExitIInv
BY ExitStarts, ExitSteps, PTL DEF Spec

---------------------------------------------------------------------------
(* An ascending sequence has as many elements as places.                   *)
LEMMA AscendingCounts ==
  ASSUME NEW s \in Seq(Int), Ascending(s)
  PROVE  Cardinality(Elements(s)) = Len(s)
<1> DEFINE n == Len(s)
<1>1. n \in Nat /\ DOMAIN s = 1..n /\ s \in [1..n -> Elements(s)]
  BY DEF Elements
<1>2. \A i, j \in 1..n : s[i] = s[j] => i = j
  <2> SUFFICES ASSUME NEW i \in 1..n, NEW j \in 1..n, s[i] = s[j], i # j PROVE FALSE
    OBVIOUS
  <2>1. i < j \/ j < i
    OBVIOUS
  <2>2. s[i] < s[j] \/ s[j] < s[i]
    BY <1>1, <2>1 DEF Ascending
  <2>3. s[i] \in Int /\ s[j] \in Int
    BY <1>1
  <2> QED
    BY <2>2, <2>3
<1>3. \A e \in Elements(s) : \E i \in 1..n : s[i] = e
  BY <1>1 DEF Elements
<1>4. s \in Bijection(1..n, Elements(s))
  BY <1>1, <1>2, <1>3 DEF Bijection, Injection, Surjection, IsInjective
<1>5. ExistsBijection(1..n, Elements(s))
  BY <1>4 DEF ExistsBijection
<1>6. IsFiniteSet(1..n) /\ Cardinality(1..n) = n
  BY <1>1, FS_Interval
<1> QED
  BY <1>5, <1>6, FS_Bijection

(* Every handler is started once and every array slot is called once, in   *)
(* order, whichever threads call exit and atexit, and when.                *)
THEOREM HandlersAccounted == Spec => []HandlersAreAccounted
<1>1. ExitIInv => HandlersAreAccounted
  <2> SUFFICES ASSUME ExitIInv PROVE HandlersAreAccounted
    OBVIOUS
  <2>1. HandlersRunOnce
    BY DEF ExitIInv, HandlersInv
  <2>2. ProcessTypeOK
    <3>1. \A S, T : S \subseteq T => Seq(S) \subseteq Seq(T)
      OBVIOUS
    <3>2. 1..registered \subseteq 1..MaxRegistrations /\ registered \in 0..MaxRegistrations
      BY ProcessAssumption DEF ExitIInv, HandlersInv
    <3>3. handlers \in Seq(1..MaxRegistrations)
      BY <3>1, <3>2 DEF ExitIInv, HandlersInv
    <3>4. \A t \in Threads : \A i \in DOMAIN stack[t] : stack[t][i] \in Frames
      BY DEF ExitIInv, StacksInv
    <3>5. \A t \in Threads : \A i \in DOMAIN stack[t] : stack[t][i].what \in ProgramCode \cup LibraryCode
      BY <3>4, ArgFacts
    <3> QED
      BY <3>2, <3>3, <3>5 DEF ExitIInv, HandlersInv, ArraysInv, SignalsInv, ProcessTypeOK
  <2>3. InitFiniOrder
    <3>1. AllConstructed => Len(constructed) = Cardinality(Callable(InitArray))
      <4>1. constructed \in Seq(Int) /\ Ascending(constructed)
        BY ProcessAssumption DEF ExitIInv, ArraysInv
      <4> QED
        BY <4>1, AscendingCounts DEF AllConstructed
    <3>2. MainRuns => Bottom.what = "main"
      BY ProcessAssumption DEF ExitIInv, StacksInv, StackShape, MainRuns, Bottom
    <3> QED
      BY <3>1, <3>2 DEF ExitIInv, ArraysInv, InitFiniOrder
  <2> QED
    BY <2>1, <2>2, <2>3 DEF HandlersAreAccounted
<1> QED
  BY <1>1, ExitInvariant, PTL

---------------------------------------------------------------------------
(* A later registration is started before an earlier one.                  *)
LEMMA NewestFirst ==
  ASSUME ExitIInv, NEW t \in Threads, Library(t) \/ Program(t), started' # started,
         NEW h \in 1..registered, h > started'[Len(started')]
  PROVE  \E i \in DOMAIN started : started[i] = h
<1>1. Starts
  BY ListSteps DEF ExitIInv, ListStays, Registers
<1>2. /\ handlers \in Seq(1..registered) /\ started \in Seq(1..registered) /\ registered \in Nat
      /\ Ascending(handlers) /\ Elements(handlers) \cup Elements(started) = 1..registered
      /\ handlers # <<>>
  BY <1>1 DEF ExitIInv, HandlersInv, HandlersRunOnce, Elements, Starts
<1>3. PICK last \in 1..registered : last = handlers[Len(handlers)]
  BY <1>2
<1>4. started' = Append(started, last) /\ Append(started, last) \in Seq(1..registered)
      /\ Append(started, last)[Len(started) + 1] = last /\ Len(Append(started, last)) = Len(started) + 1
  BY <1>1, <1>2, <1>3, AppendElements DEF Starts
<1>5. started'[Len(started')] = last
  BY <1>4
<1>6. ASSUME NEW i \in DOMAIN handlers
      PROVE  handlers[i] # h
  <2>1. Len(handlers) \in DOMAIN handlers /\ i <= Len(handlers)
    BY <1>2
  <2>2. handlers[i] = last \/ handlers[i] < last
    BY <1>2, <1>3, <2>1 DEF Ascending
  <2> QED
    BY <1>2, <1>5, <2>2
<1>7. h \in Elements(started)
  BY <1>2, <1>6 DEF Elements
<1> QED
  BY <1>7 DEF Elements

(* exit turns to ending the process only when no handler is left.          *)
LEMMA NoneLeft ==
  ASSUME ExitIInv, NEW t \in Threads, Library(t) \/ Program(t),
         NEW u \in Threads, NEW end, TurnsTo(u, Frame("terminate", end))
  PROVE  Ends(Frame("terminate", end))
<1>1. stack[t] # <<>> /\ Kind(t)
  BY StepKinds DEF ExitIInv, SignalsInv
<1>2. PICK i \in DOMAIN stack'[u] : stack'[u][i] = Frame("terminate", end)
  BY DEF TurnsTo, Has
<1>3. ~(i \in DOMAIN stack[u] /\ stack[u][i] = Frame("terminate", end))
  BY DEF TurnsTo, Has
<1>4. Ends(stack'[u][i])
  BY <1>1, <1>2, <1>3, NewFrames DEF ExitIInv
<1> QED
  BY <1>2, <1>4

LEMMA HandlersCompleted ==
  ASSUME ExitIInv, handlers = <<>>
  PROVE  1..registered = returned \cup UNION {OnStack(u) : u \in Threads}
<1>1. Elements(started) = 1..registered
  BY DEF ExitIInv, HandlersInv, HandlersRunOnce, Elements
<1>2. \A h : IsRunning(h) <=> h \in UNION {OnStack(u) : u \in Threads}
  BY DEF IsRunning, OnStack
<1>3. \A h : IsRunning(h) => h \in Nat
  <2>1. \A u \in Threads : \A i \in DOMAIN stack[u] : stack[u][i] \in Frames
    BY DEF ExitIInv, StacksInv
  <2> QED
    BY <2>1, ArgFacts DEF IsRunning
<1>4. returned \subseteq 1..registered /\ (\A h \in Nat : IsRunning(h) => h \in 1..registered)
      /\ (\A h \in Elements(started) : h \in returned \/ IsRunning(h))
  BY DEF ExitIInv, HandlersInv
<1> QED
  BY <1>1, <1>2, <1>3, <1>4

(* Termination is orderly: exit starts the newest handler first, whoever   *)
(* registers and exits meanwhile; it ends the process only when every      *)
(* handler has returned or is running; and abort ends it by the exit       *)
(* status only after another thread took the signal's default away again.  *)
THEOREM OrderlyTermination == Spec => TerminationIsOrderly
<1> DEFINE
  Lifo == started' # started =>
            \A h \in 1..registered : h > started'[Len(started')] =>
              \E i \in DOMAIN started : started[i] = h
  Completes == \A t \in Threads : TurnsTo(t, Frame("terminate", "exit")) =>
                 1..registered = returned \cup UNION {OnStack(u) : u \in Threads}
  BySignal == \A t \in Threads :
                TurnsTo(t, Frame("terminate", "abort_status")) => disposition # "default"
<1>1. ExitIInv /\ [Next]_vars => Lifo /\ Completes /\ BySignal
  <2> SUFFICES ASSUME ExitIInv, [Next]_vars PROVE Lifo /\ Completes /\ BySignal
    OBVIOUS
  <2>1. CASE UNCHANGED vars
    <3>1. \A t \in Threads : \A f : ~TurnsTo(t, f)
      BY <2>1 DEF vars, TurnsTo, Has
    <3> QED
      BY <2>1, <3>1 DEF vars, listVars
  <2>2. ASSUME NEW t \in Threads, Library(t) \/ Program(t)
        PROVE  Lifo /\ Completes /\ BySignal
    <3>1. Lifo
      BY <2>2, NewestFirst
    <3>2. Completes
      <4>1. \A u \in Threads : TurnsTo(u, Frame("terminate", "exit")) => Ends(Frame("terminate", "exit"))
        BY <2>2, NoneLeft
      <4>2. Ends(Frame("terminate", "exit")) => handlers = <<>>
        BY DEF Ends, Frame
      <4> QED
        BY <4>1, <4>2, HandlersCompleted
    <3>3. BySignal
      <4>1. \A u \in Threads : TurnsTo(u, Frame("terminate", "abort_status")) => Ends(Frame("terminate", "abort_status"))
        BY <2>2, NoneLeft
      <4>2. Ends(Frame("terminate", "abort_status")) => disposition # "default"
        BY DEF Ends, Frame
      <4> QED
        BY <4>1, <4>2
    <3> QED
      BY <3>1, <3>2, <3>3
  <2> QED
    BY <2>1, <2>2 DEF Next, Ended
<1>2. Spec => [][Lifo /\ Completes /\ BySignal]_vars
  BY <1>1, ExitInvariant, PTL DEF Spec
<1>3. [][Lifo /\ Completes /\ BySignal]_vars => TerminationIsOrderly
  BY PTL DEF TerminationIsOrderly, LifoOrder, ExitCompletesHandlers, AbortEndsBySignal
<1> QED
  BY <1>2, <1>3, PTL
=============================================================================
