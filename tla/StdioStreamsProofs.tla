------------------------- MODULE StdioStreamsProofs -------------------------
(* The registry of streams keeps its promises, for any number of threads   *)
(* and addresses, of a host that does not give an address out again before *)
(* the fclose that freed it has returned.                                  *)
EXTENDS StdioStreams, Integers, TLAPS

---------------------------------------------------------------------------
(* The inductive invariant.  First, where a call can be.                   *)
StreamStates ==
  {state \in [mode : Modes, explicit : BOOLEAN, io_active : BOOLEAN, host_backed : BOOLEAN,
              identity : Identities \cup {NoIdentity}, owner : Threads \cup {NoThread},
              depth : Nat] :
     state.owner = NoThread <=> state.depth = 0}

Working ==       \* places of a call that has acquired the StreamFileLockGuard
  {"locked", "choosing", "deciding", "internal", "delegated", "wrote", "failed", "flush_next",
   "flushing", "releasing"}

CallShape(t) ==
  /\ op[t] = "none" <=> pc[t] = "out"
  /\ op[t] = "fflush_all" <=> pc[t] = "marked"
  /\ IF pc[t] \in {"out", "marked"} THEN stream[t] = NoStream ELSE stream[t] \in Streams
  /\ nested[t] => op[t] = "vfprintf" /\ pc[t] \in {"locked", "flushing", "releasing", "blocked", "notifying"}
  /\ op[t] = "flockfile" => pc[t] \in {"blocked", "locked"}
  /\ op[t] = "funlockfile" => pc[t] = "notifying"
  /\ op[t] = "fopen" => pc[t] \in {"opened", "notifying"}
  /\ op[t] = "fclose" => pc[t] \in {"blocked", "locked", "closed", "notifying"}
  /\ op[t] = "fflush" => pc[t] \in {"blocked", "locked", "flushing", "releasing", "notifying"}
  /\ op[t] = "setvbuf" => pc[t] \in {"blocked", "locked", "releasing", "notifying"}
  /\ op[t] = "vfprintf" => pc[t] \in Working \cup {"blocked", "notifying"}
  /\ op[t] = "fputs" => pc[t] = "wrote"

StreamShape ==
  /\ standard \subseteq Streams
  /\ open \in [Streams -> BOOLEAN]
  /\ identity \in [Streams -> Identities \cup {NoIdentity}]
  /\ buffered \in [Streams -> BOOLEAN]
  /\ tracked \in [Streams -> StreamStates \cup {Untracked}]
  /\ sleepers \subseteq Threads
  /\ pc \in [Threads -> Places] /\ op \in [Threads -> Calls]
  /\ stream \in [Threads -> Streams \cup {NoStream}]
  /\ mode_before \in [Threads -> Modes \cup {"unset"}]
  /\ nested \in [Threads -> BOOLEAN]
  /\ published \in [Streams -> BOOLEAN]
  /\ held \in [Threads -> [Streams -> Int]]
  /\ used \in [Streams -> BOOLEAN]
  /\ \A t \in Threads : CallShape(t)

(* How often a call itself has acquired the lock of its stream, and what   *)
(* its client acquired besides.                                            *)
Guards(t) ==
  IF nested[t] THEN 2
  ELSE IF pc[t] \in Working /\ op[t] \notin {"flockfile", "fputs"} THEN 1 ELSE 0

LevelsOf(t) ==
  \A s \in Streams :
    LET guards == IF stream[t] = s THEN Guards(t) ELSE 0
    IN guards <= held[t][s] /\ held[t][s] <= MaxDepth + guards

Lockless(t) == pc[t] \in {"blocked", "notifying"} => held[t][stream[t]] = 0

(* A call uses an open stream until it has closed it or given back its     *)
(* last level.                                                             *)
Using(t) == pc[t] \notin {"out", "marked", "opened", "closed", "notifying"}

UsedArePublished == \A t \in Threads : Using(t) => published[stream[t]]

StreamIsOwn(s) ==
  /\ published[s] =>
       /\ open[s]
       /\ \A t \in Threads : held[t][s] = IF StateOf(s).owner = t THEN StateOf(s).depth ELSE 0
  /\ ~published[s] =>
       /\ \A t \in Threads : held[t][s] = 0
       /\ \/ tracked[s] = Untracked \/ s \in standard
          \/ \E t \in Threads : pc[t] = "closed" /\ stream[t] = s

(* While a thread waits to close a stream only holders of its lock call.   *)
Waits(t) == op[t] = "fclose" /\ pc[t] \in {"blocked", "locked"}

LeavesToCloser(u, t) ==
  Waits(t) /\ stream[u] = stream[t] => held[u][stream[t]] > 0 \/ pc[u] = "notifying"

ClosersAreAlone == \A t \in Threads : \A u \in Threads \ {t} : LeavesToCloser(u, t)

(* An address that the host has just opened is nobody else's.              *)
OpensUnpublished(t) ==
  op[t] = "fopen" => open[stream[t]] /\ ~published[stream[t]] /\ stream[t] \notin standard

LeavesToOpener(u, t) ==
  op[t] = "fopen" /\ stream[u] = stream[t] => op[u] # "fopen" /\ pc[u] # "closed"

OpenersAreAlone ==
  \A t \in Threads : OpensUnpublished(t) /\ \A u \in Threads \ {t} : LeavesToOpener(u, t)

ClosedAreDone == \A t \in Threads : pc[t] = "closed" => ~published[stream[t]]

LocksInv ==
  /\ \A t \in Threads : LevelsOf(t) /\ Lockless(t)
  /\ \A s \in Streams : StreamIsOwn(s)
  /\ UsedArePublished /\ ClosersAreAlone /\ OpenersAreAlone /\ ClosedAreDone

(* What the registry knows of a stream whose file is not renamed.          *)
BufferingOf(s) ==
  LET state == StateOf(s) IN
  /\ state.identity \in {NoIdentity, identity[s]}
  /\ state.host_backed => state.io_active /\ state.identity = identity[s]
  /\ used[s] => state.io_active
  /\ buffered[s] => state.host_backed \/ Unreported(s)

BufferingInv ==
  \A s \in Streams :
    /\ published[s] => BufferingOf(s)
    /\ ~published[s] => ~buffered[s]
    /\ \A t \in Threads : op[t] = "fopen" /\ stream[t] = s => ~used[s]

---------------------------------------------------------------------------
(* The states the registry keeps.                                          *)
LEMMA FreshFacts ==
  /\ FreshState \in StreamStates
  /\ FreshState.owner = NoThread /\ FreshState.depth = 0
  /\ ~FreshState.explicit /\ ~FreshState.io_active /\ ~FreshState.host_backed
  /\ FreshState.identity = NoIdentity
  /\ Untracked.owner = NoThread
BY DEF FreshState, StreamStates, Modes, Untracked

LEMMA TrackedAreNotUntracked == \A state \in StreamStates : state # Untracked
<1> SUFFICES ASSUME NEW state \in StreamStates, state = Untracked
             PROVE  FALSE
  OBVIOUS
<1>1. "mode" \in DOMAIN state
  BY DEF StreamStates
<1>2. "mode" \notin DOMAIN Untracked
  BY DEF Untracked
<1> QED
  BY <1>1, <1>2

LEMMA StateFacts ==
  ASSUME StreamShape, NEW s \in Streams
  PROVE  /\ StateOf(s) \in StreamStates
         /\ tracked[s] # Untracked => tracked[s] = StateOf(s)
         /\ tracked[s].owner = StateOf(s).owner
         /\ identity[s] \in Identities \cup {NoIdentity}
BY FreshFacts DEF StateOf, StreamShape

(* A field is replaced by a value of its type.                             *)
LEMMA FieldFacts ==
  ASSUME NEW state \in StreamStates
  PROVE  /\ state.mode \in Modes /\ state.explicit \in BOOLEAN
         /\ state.io_active \in BOOLEAN /\ state.host_backed \in BOOLEAN
         /\ state.identity \in Identities \cup {NoIdentity}
         /\ state.owner \in Threads \cup {NoThread} /\ state.depth \in Nat
         /\ state.owner = NoThread <=> state.depth = 0
BY DEF StreamStates

(* What a mark of I/O and setvbuf leave of a state: who holds the lock.    *)
LockOf(new, old) == new \in StreamStates /\ new.owner = old.owner /\ new.depth = old.depth

LEMMA MarkFacts ==
  ASSUME StreamShape, NEW s \in Streams
  PROVE  /\ LockOf(WithIo(s), StateOf(s)) /\ WithIo(s).io_active
         /\ LockOf(WithHostIo(s), StateOf(s))
         /\ WithHostIo(s).io_active /\ WithHostIo(s).host_backed
         /\ LockOf(Configurable(s), StateOf(s))
         /\ \A mode \in Modes :
              LockOf([Configurable(s) EXCEPT !.mode = mode, !.explicit = TRUE,
                                             !.host_backed = FALSE, !.identity = NoIdentity],
                     StateOf(s))
<1> DEFINE state == StateOf(s)
<1>1. state \in StreamStates /\ identity[s] \in Identities \cup {NoIdentity}
  BY StateFacts
<1> HIDE DEF state
<1>2. ASSUME NEW st \in StreamStates
      PROVE  /\ LockOf([st EXCEPT !.io_active = TRUE], st)
             /\ LockOf([st EXCEPT !.io_active = TRUE, !.host_backed = TRUE, !.identity = identity[s]], st)
             /\ LockOf([st EXCEPT !.mode = "IONBF", !.explicit = FALSE], st)
             /\ LockOf([st EXCEPT !.io_active = FALSE, !.host_backed = FALSE, !.identity = identity[s]], st)
             /\ \A mode \in Modes :
                  LockOf([st EXCEPT !.mode = mode, !.explicit = TRUE, !.host_backed = FALSE,
                                    !.identity = NoIdentity], st)
             /\ [st EXCEPT !.io_active = TRUE].io_active
             /\ [st EXCEPT !.io_active = TRUE, !.host_backed = TRUE, !.identity = identity[s]].io_active
             /\ [st EXCEPT !.io_active = TRUE, !.host_backed = TRUE, !.identity = identity[s]].host_backed
  BY <1>1 DEF StreamStates, LockOf, Modes
<1>3. LockOf(WithIo(s), state) /\ WithIo(s).io_active
  BY <1>1, <1>2 DEF WithIo, state
<1>4. LockOf(WithHostIo(s), state) /\ WithHostIo(s).io_active /\ WithHostIo(s).host_backed
  <2> DEFINE recycled == /\ state.identity # NoIdentity /\ identity[s] # NoIdentity
                         /\ state.identity # identity[s]
             kept == IF recycled THEN [state EXCEPT !.mode = "IONBF", !.explicit = FALSE] ELSE state
  <2>1. LockOf(kept, state)
    BY <1>1, <1>2 DEF LockOf
  <2>2. WithHostIo(s) = [kept EXCEPT !.io_active = TRUE, !.host_backed = TRUE, !.identity = identity[s]]
    BY DEF WithHostIo, state
  <2> HIDE DEF kept
  <2> QED
    BY <1>2, <2>1, <2>2 DEF LockOf
<1>5. LockOf(Configurable(s), state)
  BY <1>1, <1>2 DEF Configurable, state, LockOf
<1>6. \A mode \in Modes :
        LockOf([Configurable(s) EXCEPT !.mode = mode, !.explicit = TRUE,
                                       !.host_backed = FALSE, !.identity = NoIdentity], state)
  BY <1>2, <1>5 DEF LockOf
<1> QED
  BY <1>3, <1>4, <1>5, <1>6 DEF state

---------------------------------------------------------------------------
(* Types, and where calls go.                                              *)
TrackedOK == tracked \in [Streams -> StreamStates \cup {Untracked}]
HeldOK == held \in [Threads -> [Streams -> Int]]

LEMMA LockPassFacts ==
  ASSUME StreamShape, NEW t \in Threads, NEW s \in Streams
  PROVE  /\ TakeLock(t, s) =>
              /\ TrackedOK' /\ HeldOK'
              /\ StateOf(s).owner \in {NoThread, t}
              /\ tracked' = [tracked EXCEPT ![s] =
                   [StateOf(s) EXCEPT !.owner = t, !.depth = StateOf(s).depth + 1]]
              /\ held' = [held EXCEPT ![t][s] = held[t][s] + 1]
         /\ UnlockPass(t, s) =>
              /\ TrackedOK' /\ HeldOK'
              /\ held' = [held EXCEPT ![t][s] = held[t][s] - 1]
              /\ \E new \in StreamStates \cup {Untracked} : tracked' = [tracked EXCEPT ![s] = new]
         /\ LockPass(t, s) =>
              /\ TrackedOK' /\ HeldOK' /\ sleepers' \subseteq Threads
              /\ pc' = [pc EXCEPT ![t] = "locked"] \/ pc' = [pc EXCEPT ![t] = "blocked"]
<1>1. StateOf(s) \in StreamStates /\ FreshState \in StreamStates
  BY StateFacts, FreshFacts
<1>2. ASSUME NEW st \in StreamStates
      PROVE  /\ [st EXCEPT !.owner = t, !.depth = st.depth + 1] \in StreamStates
             /\ [st EXCEPT !.owner = NoThread, !.depth = 0] \in StreamStates
             /\ st.owner # NoThread /\ st.depth # 1 =>
                  [st EXCEPT !.depth = st.depth - 1] \in StreamStates
  <2>1. \A n \in Nat \ {0} : [st EXCEPT !.owner = t, !.depth = n] \in StreamStates
    BY StdioAssumption DEF StreamStates
  <2>2. [st EXCEPT !.owner = NoThread, !.depth = 0] \in StreamStates
    BY DEF StreamStates
  <2>3. \A n \in Nat \ {0} : st.owner # NoThread => [st EXCEPT !.depth = n] \in StreamStates
    BY DEF StreamStates
  <2>4. st.depth \in Nat /\ st.depth + 1 \in Nat \ {0}
    BY FieldFacts
  <2>5. st.owner # NoThread /\ st.depth # 1 => st.depth - 1 \in Nat \ {0}
    BY FieldFacts
  <2> QED
    BY <2>1, <2>2, <2>3, <2>4, <2>5
<1>4. TakeLock(t, s) =>
        /\ TrackedOK' /\ HeldOK'
        /\ StateOf(s).owner \in {NoThread, t}
        /\ tracked' = [tracked EXCEPT ![s] =
             [StateOf(s) EXCEPT !.owner = t, !.depth = StateOf(s).depth + 1]]
        /\ held' = [held EXCEPT ![t][s] = held[t][s] + 1]
  <2> SUFFICES ASSUME TakeLock(t, s)
               PROVE  /\ TrackedOK' /\ HeldOK'
                      /\ StateOf(s).owner \in {NoThread, t}
                      /\ tracked' = [tracked EXCEPT ![s] =
                           [StateOf(s) EXCEPT !.owner = t, !.depth = StateOf(s).depth + 1]]
                      /\ held' = [held EXCEPT ![t][s] = held[t][s] + 1]
    OBVIOUS
  <2>1. /\ StateOf(s).owner \in {NoThread, t}
        /\ tracked' = [tracked EXCEPT ![s] =
             [StateOf(s) EXCEPT !.owner = t, !.depth = StateOf(s).depth + 1]]
        /\ held' = [held EXCEPT ![t][s] = held[t][s] + 1]
    BY DEF TakeLock, Track
  <2>2. HeldOK'
    BY <2>1 DEF HeldOK, StreamShape
  <2>3. TrackedOK'
    BY <1>1, <1>2, <2>1 DEF TrackedOK, StreamShape
  <2> QED
    BY <2>1, <2>2, <2>3
<1>5. UnlockPass(t, s) =>
        /\ TrackedOK' /\ HeldOK'
        /\ held' = [held EXCEPT ![t][s] = held[t][s] - 1]
        /\ \E new \in StreamStates \cup {Untracked} : tracked' = [tracked EXCEPT ![s] = new]
  <2> SUFFICES ASSUME UnlockPass(t, s)
               PROVE  /\ TrackedOK' /\ HeldOK'
                      /\ held' = [held EXCEPT ![t][s] = held[t][s] - 1]
                      /\ \E new \in StreamStates \cup {Untracked} : tracked' = [tracked EXCEPT ![s] = new]
    OBVIOUS
  <2>1. held' = [held EXCEPT ![t][s] = held[t][s] - 1] /\ HeldOK'
    BY DEF UnlockPass, HeldOK, StreamShape
  <2>2. tracked[s].owner = t => tracked[s] = StateOf(s) /\ t # NoThread
    BY StateFacts, FreshFacts, StdioAssumption DEF StateOf
  <2>3. tracked[s] \in StreamStates \cup {Untracked} /\ TrackedOK
    BY DEF StreamShape, TrackedOK
  <2>4. PICK new \in StreamStates \cup {Untracked} : tracked' = [tracked EXCEPT ![s] = new]
    <3>1. CASE LastLevel(t, s)
      <4> DEFINE freed == [tracked[s] EXCEPT !.owner = NoThread, !.depth = 0]
      <4>1. freed \in StreamStates
        BY <1>1, <1>2, <2>2, <3>1 DEF LastLevel
      <4>2. tracked' = [tracked EXCEPT ![s] = IF freed = FreshState THEN Untracked ELSE freed]
        BY <3>1 DEF UnlockPass, Track
      <4> QED
        BY <4>1, <4>2
    <3>2. CASE ~LastLevel(t, s) /\ tracked[s].owner = t
      <4>1. [tracked[s] EXCEPT !.depth = tracked[s].depth - 1] \in StreamStates
        BY <1>1, <1>2, <2>2, <3>2 DEF LastLevel
      <4>2. tracked' = [tracked EXCEPT ![s] = [tracked[s] EXCEPT !.depth = tracked[s].depth - 1]]
        BY <3>2 DEF UnlockPass, Track
      <4> QED
        BY <4>1, <4>2
    <3>3. CASE ~LastLevel(t, s) /\ tracked[s].owner # t
      <4>1. tracked' = tracked
        BY <3>3 DEF UnlockPass
      <4>2. tracked' = [tracked EXCEPT ![s] = tracked[s]]
        BY <4>1, <2>3 DEF TrackedOK
      <4> QED
        BY <2>3, <4>2
    <3> QED
      BY <3>1, <3>2, <3>3
  <2>5. TrackedOK'
    BY <2>3, <2>4 DEF TrackedOK
  <2> QED
    BY <2>1, <2>4, <2>5
<1>6. LockPass(t, s) =>
        /\ TrackedOK' /\ HeldOK' /\ sleepers' \subseteq Threads
        /\ pc' = [pc EXCEPT ![t] = "locked"] \/ pc' = [pc EXCEPT ![t] = "blocked"]
  BY <1>4 DEF LockPass, WaitForLock, Goto, TrackedOK, HeldOK, StreamShape
<1> QED
  BY <1>4, <1>5, <1>6

(* One thread moves, and its call has the shape of a call afterwards.      *)
OnlyMoves(t) ==
  \A u \in Threads \ {t} :
    pc'[u] = pc[u] /\ op'[u] = op[u] /\ stream'[u] = stream[u] /\ nested'[u] = nested[u]

CallTypes ==
  /\ pc \in [Threads -> Places] /\ op \in [Threads -> Calls]
  /\ stream \in [Threads -> Streams \cup {NoStream}]
  /\ mode_before \in [Threads -> Modes \cup {"unset"}]
  /\ nested \in [Threads -> BOOLEAN]

LEMMA ShapesKept ==
  ASSUME StreamShape, NEW t \in Threads, OnlyMoves(t), CallShape(t)'
  PROVE  \A u \in Threads : CallShape(u)'
<1>1. \A u \in Threads \ {t} : CallShape(u)'
  BY DEF StreamShape, OnlyMoves, CallShape
<1> QED
  BY <1>1

LEMMA ReturnFacts ==
  ASSUME StreamShape, NEW t \in Threads, Return(t), nested[t] \/ pc[t] \notin {"out"}
  PROVE  /\ OnlyMoves(t) /\ CallTypes' /\ CallShape(t)'
         /\ published' \in [Streams -> BOOLEAN]
<1>1. CASE nested[t]
  <2>1. /\ pc' = [pc EXCEPT ![t] = "releasing"] /\ nested' = [nested EXCEPT ![t] = FALSE]
        /\ UNCHANGED <<op, stream, mode_before, published>>
    BY <1>1 DEF Return, Goto
  <2>2. OnlyMoves(t) /\ CallTypes' /\ published' \in [Streams -> BOOLEAN]
    BY <2>1 DEF StreamShape, OnlyMoves, CallTypes, Places
  <2>3. pc'[t] = "releasing" /\ nested'[t] = FALSE
    BY <2>1 DEF StreamShape
  <2>4. CallShape(t)'
    BY <1>1, <2>1, <2>3 DEF StreamShape, CallShape, Working
  <2> QED
    BY <2>2, <2>4
<1>2. CASE ~nested[t]
  <2>1. pc' = [pc EXCEPT ![t] = "out"] /\ op' = [op EXCEPT ![t] = "none"]
        /\ stream' = [stream EXCEPT ![t] = NoStream] /\ nested' = nested
        /\ mode_before' = [mode_before EXCEPT ![t] = "unset"]
    BY <1>2 DEF Return, Goto
  <2>2. published' \in [Streams -> BOOLEAN]
    BY <1>2 DEF Return, StreamShape
  <2> QED
    BY <1>2, <2>1, <2>2 DEF StreamShape, OnlyMoves, CallTypes, CallShape, Places, Calls, Working
<1> QED
  BY <1>1, <1>2

OtherTypes ==
  /\ standard \subseteq Streams
  /\ open \in [Streams -> BOOLEAN]
  /\ identity \in [Streams -> Identities \cup {NoIdentity}]
  /\ buffered \in [Streams -> BOOLEAN]
  /\ published \in [Streams -> BOOLEAN]
  /\ used \in [Streams -> BOOLEAN]

LEMMA ShapeOfStep ==
  ASSUME StreamShape, NEW t \in Threads, OnlyMoves(t), CallShape(t)', CallTypes', OtherTypes',
         TrackedOK', HeldOK', sleepers' \subseteq Threads
  PROVE  StreamShape'
<1>1. \A u \in Threads : CallShape(u)'
  BY ShapesKept
<1> QED
  BY <1>1 DEF StreamShape, CallTypes, OtherTypes, TrackedOK, HeldOK

LEMMA SameTypes ==
  ASSUME StreamShape
  PROVE  OtherTypes /\ TrackedOK /\ HeldOK /\ CallTypes /\ sleepers \subseteq Threads
BY DEF StreamShape, OtherTypes, TrackedOK, HeldOK, CallTypes

(* A thread that waits in none of the calls' places below uses a stream.   *)
LEMMA PlaceFacts ==
  ASSUME StreamShape, NEW t \in Threads
  PROVE  /\ pc[t] \notin {"out", "marked"} => stream[t] \in Streams
         /\ pc[t] \in {"out", "marked", "opened", "closed"} => ~nested[t]
         /\ pc[t] = "out" <=> op[t] = "none"
         /\ pc[t] = "marked" <=> op[t] = "fflush_all"
         /\ pc[t] \in {"choosing", "deciding", "internal", "delegated", "failed", "flush_next"}
              => op[t] = "vfprintf" /\ ~nested[t]
         /\ pc[t] = "flushing" => op[t] \in {"fflush", "vfprintf"} /\ (op[t] = "vfprintf" => nested[t] \in BOOLEAN)
         /\ pc[t] = "closed" => op[t] = "fclose"
         /\ pc[t] = "opened" => op[t] = "fopen"
         /\ pc[t] = "wrote" => op[t] \in {"fputs", "vfprintf"} /\ ~nested[t]
         /\ pc[t] = "releasing" => op[t] \in {"fflush", "setvbuf", "vfprintf"}
         /\ nested[t] => op[t] = "vfprintf"
BY DEF StreamShape, CallShape, Places, Calls, Working

LEMMA CallsKeepShape ==
  ASSUME StreamShape, NEW t \in Threads, NEW s \in Streams, ClientCall(t, s)
  PROVE  StreamShape'
<1> USE SameTypes DEF host, call, clients
<1>0. pc[t] = "out" /\ ~nested[t]
      => CallShape(t) /\ nested[t] = FALSE /\ op[t] = "none" /\ stream[t] = NoStream
  BY DEF StreamShape, CallShape
<1>1. ASSUME NEW name \in {"flockfile", "fclose", "fflush", "setvbuf", "vfprintf"},
             Guarded(t, s, name)
      PROVE  StreamShape'
  <2>1. /\ TrackedOK' /\ HeldOK' /\ sleepers' \subseteq Threads
        /\ pc' = [pc EXCEPT ![t] = "locked"] \/ pc' = [pc EXCEPT ![t] = "blocked"]
    BY <1>1, LockPassFacts DEF Guarded
  <2>2. /\ op' = [op EXCEPT ![t] = name] /\ stream' = [stream EXCEPT ![t] = s]
        /\ UNCHANGED <<mode_before, nested, host, published, used>>
        /\ pc[t] = "out"
    BY <1>1 DEF Guarded, Begin, MayCall
  <2>3. OnlyMoves(t) /\ CallTypes'
    BY <2>1, <2>2 DEF OnlyMoves, CallTypes, Places, Calls
  <2>4. ~nested[t]
    BY <2>2, PlaceFacts
  <2>5. CallShape(t)'
    BY <2>1, <2>2, <2>4 DEF StreamShape, CallShape, Working
  <2>6. OtherTypes'
    BY <2>2 DEF OtherTypes
  <2> QED
    BY <2>1, <2>3, <2>5, <2>6, ShapeOfStep
<1>2. CASE Ftrylockfile(t, s)
  <2>1. TrackedOK' /\ HeldOK' /\ UNCHANGED <<host, sleepers, call, published, used>>
    BY <1>2, LockPassFacts DEF Ftrylockfile
  <2> QED
    BY <2>1 DEF StreamShape, CallShape, TrackedOK, HeldOK
<1>3. CASE Funlockfile(t, s)
  <2>1. /\ TrackedOK' /\ HeldOK' /\ UNCHANGED <<host, sleepers, published, used>>
        /\ pc[t] = "out"
        /\ \/ UNCHANGED call
           \/ Begin(t, s, "funlockfile") /\ Goto(t, "notifying")
    BY <1>3, LockPassFacts DEF Funlockfile, MayCall
  <2>2. CASE UNCHANGED call
    BY <2>1, <2>2 DEF StreamShape, CallShape, TrackedOK, HeldOK
  <2>3. CASE Begin(t, s, "funlockfile") /\ Goto(t, "notifying")
    <3>1. ~nested[t]
      BY <2>1, PlaceFacts
    <3>2. OnlyMoves(t) /\ CallTypes' /\ CallShape(t)'
      BY <2>3, <3>1 DEF StreamShape, OnlyMoves, CallTypes, CallShape, Places, Calls, Begin, Goto
    <3>3. OtherTypes' /\ sleepers' \subseteq Threads
      BY <2>1 DEF OtherTypes
    <3> QED
      BY <2>1, <3>2, <3>3, ShapeOfStep
  <2> QED
    BY <2>1, <2>2, <2>3
<1>4. CASE Fopen(t, s)
  <2>1. ~nested[t]
    BY <1>4, PlaceFacts DEF Fopen
  <2>2. OnlyMoves(t) /\ CallTypes' /\ CallShape(t)'
    BY <1>4, <2>1 DEF Fopen, StreamShape, OnlyMoves, CallTypes, CallShape, Places, Calls, Begin, Goto
  <2>3. OtherTypes' /\ sleepers' \subseteq Threads /\ TrackedOK' /\ HeldOK'
    BY <1>4 DEF Fopen, OtherTypes, TrackedOK, HeldOK
  <2> QED
    BY <2>2, <2>3, ShapeOfStep
<1>5. CASE HostTransfer(t, s)
  <2>1. ~nested[t]
    BY <1>5, PlaceFacts DEF HostTransfer, MayCall
  <2>2. OnlyMoves(t) /\ CallTypes' /\ CallShape(t)'
    BY <1>5, <2>1
    DEF HostTransfer, MayCall, StreamShape, OnlyMoves, CallTypes, CallShape, Places, Calls, Begin, Goto
  <2>3. OtherTypes' /\ sleepers' \subseteq Threads /\ TrackedOK' /\ HeldOK'
    <3>1. buffered' \in [Streams -> BOOLEAN]
      BY <1>5 DEF HostTransfer, StreamShape
    <3> QED
      BY <1>5, <3>1 DEF HostTransfer, OtherTypes, TrackedOK, HeldOK
  <2> QED
    BY <2>2, <2>3, ShapeOfStep
<1> QED
  BY <1>1, <1>2, <1>3, <1>4, <1>5 DEF ClientCall, Flockfile, Fclose

LEMMA LockStepsKeepShape ==
  ASSUME StreamShape, NEW t \in Threads,
         \/ Recontend(t) \/ NestedFlush(t) \/ FlockfileReturn(t) \/ Release(t) \/ Notify(t)
         \/ HostClose(t) \/ ClearTracking(t) \/ HostFlushAll(t) \/ MarkTransfer(t)
  PROVE  StreamShape'
<1> USE SameTypes DEF host, call, clients
<1>1. CASE Recontend(t) \/ NestedFlush(t)
  <2>1. stream[t] \in Streams
    BY <1>1, PlaceFacts DEF Recontend, NestedFlush
  <2>2. /\ TrackedOK' /\ HeldOK' /\ sleepers' \subseteq Threads
        /\ pc' = [pc EXCEPT ![t] = "locked"] \/ pc' = [pc EXCEPT ![t] = "blocked"]
    BY <1>1, <2>1, LockPassFacts DEF Recontend, NestedFlush
  <2>3. /\ UNCHANGED <<host, op, stream, mode_before, published, used>>
        /\ \/ nested' = nested /\ pc[t] = "blocked"
           \/ nested' = [nested EXCEPT ![t] = TRUE] /\ op[t] = "vfprintf"
    BY <1>1, PlaceFacts DEF Recontend, NestedFlush
  <2>4. OnlyMoves(t) /\ CallTypes'
    <3>0. pc \in [Threads -> Places] /\ nested \in [Threads -> BOOLEAN]
      BY DEF StreamShape
    <3>1. OnlyMoves(t)
      <4>1. \A u \in Threads \ {t} : pc'[u] = pc[u]
        BY ONLY <2>2, <3>0
      <4>2. \A u \in Threads \ {t} : nested'[u] = nested[u]
        BY ONLY <2>3, <3>0
      <4> QED
        BY ONLY <2>3, <4>1, <4>2 DEF OnlyMoves
    <3>2. pc' \in [Threads -> Places] /\ nested' \in [Threads -> BOOLEAN]
      <4>1. "locked" \in Places /\ "blocked" \in Places
        BY DEF Places
      <4>2. pc' \in [Threads -> Places]
        BY ONLY <2>2, <3>0, <4>1
      <4>3. nested' \in [Threads -> BOOLEAN]
        BY ONLY <2>3, <3>0
      <4> QED
        BY <4>2, <4>3
    <3> QED
      BY <2>3, <3>1, <3>2 DEF StreamShape, CallTypes
  <2>5. CallShape(t)'
    BY <2>2, <2>3 DEF StreamShape, CallShape, Working
  <2>6. OtherTypes'
    BY <2>3 DEF OtherTypes
  <2> QED
    BY <2>2, <2>4, <2>5, <2>6, ShapeOfStep
<1>2. ASSUME Return(t), pc[t] # "out", UNCHANGED host, sleepers' \subseteq Threads,
             TrackedOK', HeldOK', used' \in [Streams -> BOOLEAN]
      PROVE  StreamShape'
  <2>1. OnlyMoves(t) /\ CallTypes' /\ CallShape(t)' /\ published' \in [Streams -> BOOLEAN]
    BY <1>2, ReturnFacts
  <2>2. OtherTypes'
    BY <1>2, <2>1 DEF OtherTypes
  <2> QED
    BY <1>2, <2>1, <2>2, ShapeOfStep
<1>3. CASE FlockfileReturn(t)
  BY <1>2, <1>3 DEF FlockfileReturn, TrackedOK, HeldOK, StreamShape
<1>4. CASE Notify(t)
  BY <1>2, <1>4 DEF Notify, TrackedOK, HeldOK, StreamShape
<1>5. CASE Release(t)
  <2>1. stream[t] \in Streams /\ pc[t] = "releasing" /\ op[t] \in {"fflush", "setvbuf", "vfprintf"}
    BY <1>5, PlaceFacts DEF Release
  <2>2. TrackedOK' /\ HeldOK' /\ UNCHANGED <<host, sleepers, used>>
    BY <1>5, <2>1, LockPassFacts DEF Release
  <2>3. CASE Return(t)
    BY <1>2, <2>1, <2>2, <2>3 DEF StreamShape
  <2>4. CASE Goto(t, "notifying") /\ UNCHANGED <<op, stream, mode_before, nested, published>>
    <3>1. OnlyMoves(t) /\ CallTypes' /\ CallShape(t)'
      BY <2>1, <2>4 DEF StreamShape, OnlyMoves, CallTypes, CallShape, Places, Goto, Working
    <3>2. OtherTypes' /\ sleepers' \subseteq Threads
      BY <2>2, <2>4 DEF OtherTypes
    <3> QED
      BY <2>2, <3>1, <3>2, ShapeOfStep
  <2> QED
    BY <1>5, <2>3, <2>4 DEF Release
<1>6. CASE HostClose(t)
  <2>1. stream[t] \in Streams /\ pc[t] = "locked" /\ op[t] = "fclose"
    BY <1>6, PlaceFacts DEF HostClose
  <2>2. OnlyMoves(t) /\ CallTypes' /\ CallShape(t)'
    BY <1>6, <2>1 DEF HostClose, StreamShape, OnlyMoves, CallTypes, CallShape, Places, Goto
  <2>3. OtherTypes' /\ TrackedOK' /\ sleepers' \subseteq Threads
    BY <1>6, <2>1 DEF HostClose, OtherTypes, TrackedOK
  <2>4. HeldOK'
    BY <1>6, <2>1 DEF HostClose, HeldOK
  <2> QED
    BY <2>2, <2>3, <2>4, ShapeOfStep
<1>7. CASE ClearTracking(t)
  <2>1. stream[t] \in Streams /\ pc[t] \in {"closed", "opened"} /\ op[t] \in {"fclose", "fopen"}
    BY <1>7, PlaceFacts DEF ClearTracking
  <2>2. TrackedOK' /\ HeldOK' /\ UNCHANGED <<host, sleepers, used>>
    BY <1>7, <2>1 DEF ClearTracking, TrackedOK, HeldOK
  <2>3. CASE Return(t)
    BY <1>2, <2>1, <2>2, <2>3 DEF StreamShape
  <2>4. CASE Goto(t, "notifying") /\ UNCHANGED <<op, stream, mode_before, nested, published>>
    <3>1. OnlyMoves(t) /\ CallTypes' /\ CallShape(t)'
      BY <2>1, <2>4 DEF StreamShape, OnlyMoves, CallTypes, CallShape, Places, Goto
    <3>2. OtherTypes' /\ sleepers' \subseteq Threads
      BY <2>2, <2>4 DEF OtherTypes
    <3> QED
      BY <2>2, <3>1, <3>2, ShapeOfStep
  <2> QED
    BY <1>7, <2>3, <2>4 DEF ClearTracking
<1>8. CASE HostFlushAll(t)
  <2>1. buffered' \in [Streams -> BOOLEAN]
    BY <1>8 DEF HostFlushAll, StreamShape
  <2>2. pc[t] = "marked" /\ Return(t) /\ UNCHANGED <<standard, open, identity, tracked, sleepers, held, used>>
    BY <1>8 DEF HostFlushAll
  <2>3. OnlyMoves(t) /\ CallTypes' /\ CallShape(t)' /\ published' \in [Streams -> BOOLEAN]
    BY <2>2, ReturnFacts
  <2>4. OtherTypes' /\ TrackedOK' /\ HeldOK' /\ sleepers' \subseteq Threads
    BY <2>1, <2>2, <2>3 DEF OtherTypes, TrackedOK, HeldOK
  <2> QED
    BY <2>3, <2>4, ShapeOfStep
<1>9. CASE MarkTransfer(t)
  <2>1. stream[t] \in Streams
    BY <1>9, PlaceFacts DEF MarkTransfer
  <2>2. TrackedOK' /\ used' \in [Streams -> BOOLEAN]
    BY <1>9, <2>1, MarkFacts DEF MarkTransfer, Track, MarkUsed, TrackedOK, StreamShape, LockOf
  <2> QED
    BY <1>2, <1>9, <2>2 DEF MarkTransfer, HeldOK, StreamShape
<1> QED
  BY <1>1, <1>3, <1>4, <1>5, <1>6, <1>7, <1>8, <1>9

(* The steps of a call that holds the lock and goes on working: they touch *)
(* no lock, and of the registry only what is known of the stream.          *)
WorkStep(t) ==
  \/ FlushMark(t) \/ HostFlush(t)
  \/ SetvbufRefused(t) \/ \E mode \in Modes : SetvbufApply(t, mode)
  \/ ReadMode(t) \/ CheckExplicit(t) \/ ChoosePath(t)
  \/ InternalWrite(t) \/ HostWrite(t) \/ MarkAfterWrite(t)

Works(t) ==
  /\ stream[t] \in Streams /\ op[t] \in {"fflush", "setvbuf", "vfprintf"}
  /\ pc[t] \in Working /\ pc' = [pc EXCEPT ![t] = pc'[t]] /\ pc'[t] \in Working
  /\ UNCHANGED <<standard, open, identity, sleepers, op, stream, nested, published, held>>
  /\ \/ tracked' = tracked
     \/ \E new : /\ LockOf(new, StateOf(stream[t]))
                 /\ tracked' = [tracked EXCEPT ![stream[t]] = new]

LEMMA WorkFacts ==
  ASSUME StreamShape, NEW t \in Threads, WorkStep(t)
  PROVE  Works(t) /\ CallShape(t)' /\ CallTypes' /\ OtherTypes' /\ TrackedOK'
<1> USE SameTypes, PlaceFacts DEF host, call, clients, Goto, Track
<1>0. ASSUME pc[t] \in Working, op[t] \in {"fflush", "setvbuf", "vfprintf"},
             NEW p \in Working, pc' = [pc EXCEPT ![t] = p],
             UNCHANGED <<standard, open, identity, sleepers, op, stream, nested, published, held>>,
             mode_before' \in [Threads -> Modes \cup {"unset"}],
             buffered' \in [Streams -> BOOLEAN], used' \in [Streams -> BOOLEAN],
             \/ tracked' = tracked
             \/ \E new : /\ LockOf(new, StateOf(stream[t]))
                         /\ tracked' = [tracked EXCEPT ![stream[t]] = new],
             \/ op[t] = "vfprintf" /\ ~nested[t]
             \/ p = "releasing" \/ (p = "flushing" /\ op[t] # "setvbuf")
      PROVE  Works(t) /\ CallShape(t)' /\ CallTypes' /\ OtherTypes' /\ TrackedOK'
  <2>1. stream[t] \in Streams
    BY <1>0 DEF Working
  <2>2. pc'[t] = p
    BY <1>0 DEF CallTypes
  <2>3. CallShape(t)'
    <3>1. CallShape(t) /\ op'[t] = op[t] /\ stream'[t] = stream[t] /\ nested'[t] = nested[t]
      BY <1>0 DEF StreamShape
    <3>2. p \notin {"out", "marked", "blocked", "notifying"}
      BY <1>0 DEF Working
    <3>3. nested[t] => p \in {"flushing", "releasing"} /\ op[t] = "vfprintf"
      BY <1>0, <3>1 DEF CallShape
    <3>4. op[t] \in {"fflush", "setvbuf"} => p \in {"flushing", "releasing"}
      BY <1>0
    <3>5. op[t] = "setvbuf" => p = "releasing"
      BY <1>0
    <3> QED
      BY <1>0, <2>1, <2>2, <3>1, <3>2, <3>3, <3>4, <3>5 DEF CallShape
  <2>4. CallTypes' /\ OtherTypes'
    BY <1>0 DEF CallTypes, OtherTypes, Working, Places
  <2>5. TrackedOK'
    BY <1>0, <2>1 DEF TrackedOK, LockOf
  <2> QED
    BY <1>0, <2>1, <2>2, <2>3, <2>4, <2>5 DEF Works
<1>1. /\ buffered \in [Streams -> BOOLEAN] /\ used \in [Streams -> BOOLEAN]
      /\ mode_before \in [Threads -> Modes \cup {"unset"}]
  BY DEF StreamShape
<1>2. CASE FlushMark(t)
  <2>1. pc[t] \in Working /\ op[t] \in {"fflush", "vfprintf"} /\ stream[t] \in Streams
    BY <1>2 DEF FlushMark, InFflush, Working
  <2>2. used' \in [Streams -> BOOLEAN] /\ LockOf(WithIo(stream[t]), StateOf(stream[t]))
    BY <1>1, <1>2, <2>1, MarkFacts DEF FlushMark, MarkUsed
  <2>3. PICK p \in {"flushing", "releasing"} : pc' = [pc EXCEPT ![t] = p]
    BY <1>2 DEF FlushMark
  <2>4. p \in Working
    BY DEF Working
  <2> QED
    BY <1>0, <1>1, <1>2, <2>1, <2>2, <2>3, <2>4 DEF FlushMark
<1>3. CASE HostFlush(t)
  <2>1. pc[t] \in Working /\ op[t] \in {"fflush", "vfprintf"} /\ "releasing" \in Working
    BY <1>3 DEF HostFlush, Working
  <2>2. buffered' \in [Streams -> BOOLEAN]
    BY <1>1, <1>3 DEF HostFlush
  <2> QED
    BY <1>0, <1>1, <1>3, <2>1, <2>2 DEF HostFlush
<1>4. CASE SetvbufRefused(t) \/ \E mode \in Modes : SetvbufApply(t, mode)
  <2>1. pc[t] \in Working /\ op[t] = "setvbuf" /\ "releasing" \in Working /\ stream[t] \in Streams
    BY <1>4 DEF SetvbufRefused, SetvbufApply, InSetvbuf, Working
  <2>2. \E new : LockOf(new, StateOf(stream[t])) /\ tracked' = [tracked EXCEPT ![stream[t]] = new]
    BY <1>4, <2>1, MarkFacts DEF SetvbufRefused, SetvbufApply
  <2> QED
    BY <1>0, <1>1, <1>4, <2>1, <2>2 DEF SetvbufRefused, SetvbufApply
<1>5. CASE ReadMode(t)
  <2>1. /\ pc[t] \in Working /\ op[t] = "vfprintf" /\ ~nested[t] /\ "choosing" \in Working
        /\ stream[t] \in Streams
    BY <1>5 DEF ReadMode, Working
  <2>2. ExplicitMode(stream[t]) \in Modes \cup {"unset"}
    BY <2>1, StateFacts, FieldFacts DEF ExplicitMode
  <2>3. mode_before' \in [Threads -> Modes \cup {"unset"}]
    BY <1>1, <1>5, <2>2 DEF ReadMode
  <2> QED
    BY <1>0, <1>1, <1>5, <2>1, <2>3 DEF ReadMode
<1>6. CASE CheckExplicit(t) \/ ChoosePath(t)
  <2>1. pc[t] \in Working /\ op[t] = "vfprintf" /\ ~nested[t]
    BY <1>6 DEF CheckExplicit, ChoosePath, Working
  <2>2. PICK p \in {"delegated", "deciding", "internal"} : pc' = [pc EXCEPT ![t] = p]
    BY <1>6 DEF CheckExplicit, ChoosePath
  <2>3. p \in Working
    BY DEF Working
  <2> QED
    BY <1>0, <1>1, <1>6, <2>1, <2>2, <2>3 DEF CheckExplicit, ChoosePath
<1>7. CASE InternalWrite(t)
  <2>1. /\ pc[t] \in Working /\ op[t] = "vfprintf" /\ ~nested[t] /\ "releasing" \in Working
        /\ stream[t] \in Streams
    BY <1>7 DEF InternalWrite, Working
  <2>2. used' \in [Streams -> BOOLEAN] /\ LockOf(WithIo(stream[t]), StateOf(stream[t]))
    BY <1>1, <1>7, <2>1, MarkFacts DEF InternalWrite, MarkUsed
  <2> QED
    BY <1>0, <1>1, <1>7, <2>1, <2>2 DEF InternalWrite
<1>8. CASE HostWrite(t)
  <2>1. /\ pc[t] \in Working /\ op[t] = "vfprintf" /\ ~nested[t]
    BY <1>8 DEF HostWrite, Working
  <2>2. buffered' \in [Streams -> BOOLEAN]
    BY <1>1, <1>8 DEF HostWrite
  <2>3. PICK p \in {"wrote", "failed"} : pc' = [pc EXCEPT ![t] = p]
    BY <1>8 DEF HostWrite
  <2>4. p \in Working
    BY DEF Working
  <2> QED
    BY <1>0, <1>1, <1>8, <2>1, <2>2, <2>3, <2>4 DEF HostWrite
<1>9. CASE MarkAfterWrite(t)
  <2>1. pc[t] \in Working /\ op[t] = "vfprintf" /\ ~nested[t] /\ stream[t] \in Streams
    BY <1>9 DEF MarkAfterWrite, Working
  <2>2. used' \in [Streams -> BOOLEAN] /\ LockOf(WithHostIo(stream[t]), StateOf(stream[t]))
    BY <1>1, <1>9, <2>1, MarkFacts DEF MarkAfterWrite, MarkUsed
  <2>3. PICK p \in {"flush_next", "releasing"} : pc' = [pc EXCEPT ![t] = p]
    BY <1>9 DEF MarkAfterWrite
  <2>4. p \in Working
    BY DEF Working
  <2> QED
    BY <1>0, <1>1, <1>9, <2>1, <2>2, <2>3, <2>4 DEF MarkAfterWrite
<1> QED
  BY <1>2, <1>3, <1>4, <1>5, <1>6, <1>7, <1>8, <1>9 DEF WorkStep

LEMMA StepShape == StreamShape /\ [Next]_vars => StreamShape'
<1> SUFFICES ASSUME StreamShape, [Next]_vars
             PROVE  StreamShape'
  OBVIOUS
<1> USE SameTypes DEF host, call, clients
<1>1. ASSUME NEW t \in Threads, WorkStep(t)
      PROVE  StreamShape'
  <2>1. Works(t) /\ CallShape(t)' /\ CallTypes' /\ OtherTypes' /\ TrackedOK'
    BY <1>1, WorkFacts
  <2>2. OnlyMoves(t) /\ HeldOK' /\ sleepers' \subseteq Threads
    BY <2>1 DEF Works, OnlyMoves, HeldOK, CallTypes
  <2> QED
    BY <2>1, <2>2, ShapeOfStep
<1>2. ASSUME NEW t \in Threads, MarkAll(t)
      PROVE  StreamShape'
  <2>1. TrackedOK'
    <3>1. \A s \in Streams : WithIo(s) \in StreamStates
      BY MarkFacts DEF LockOf
    <3> QED
      BY <1>2, <3>1 DEF MarkAll, TrackedOK
  <2>2. used' \in [Streams -> BOOLEAN]
    BY <1>2 DEF MarkAll, StreamShape
  <2>3. ~nested[t] /\ pc[t] = "out"
    BY <1>2, PlaceFacts DEF MarkAll
  <2>4. OnlyMoves(t) /\ CallTypes' /\ CallShape(t)'
    BY <1>2, <2>3
    DEF MarkAll, StreamShape, OnlyMoves, CallTypes, CallShape, Places, Calls, Begin, Goto
  <2>5. OtherTypes' /\ HeldOK' /\ sleepers' \subseteq Threads
    BY <1>2, <2>2 DEF MarkAll, OtherTypes, HeldOK
  <2> QED
    BY <2>1, <2>4, <2>5, ShapeOfStep
<1>3. ASSUME NEW t \in Threads, SpuriousWake(t)
      PROVE  StreamShape'
  BY <1>3 DEF SpuriousWake, StreamShape, CallShape
<1>4. ASSUME NEW s \in Streams, Relink(s)
      PROVE  StreamShape'
  BY <1>4 DEF Relink, StreamShape, CallShape
<1>5. CASE UNCHANGED vars
  BY <1>5 DEF vars, StreamShape, CallShape
<1> QED
  BY <1>1, <1>2, <1>3, <1>4, <1>5, CallsKeepShape, LockStepsKeepShape DEF Next, Progress, WorkStep

---------------------------------------------------------------------------
(* The file locks.                                                         *)

(* A step of one thread that closes nothing: what is left to show is about *)
(* that thread, and about the locks.                                       *)
LEMMA LocksStep ==
  ASSUME StreamShape, StreamShape', LocksInv, NEW t \in Threads, OnlyMoves(t),
         \A u \in Threads \ {t} : held'[u] = held[u],
         \A s \in Streams : StreamIsOwn(s)',
         \A s \in Streams : published[s] => published'[s],
         LevelsOf(t)', Lockless(t)', Using(t)' => published'[stream'[t]],
         \A u \in Threads \ {t} : LeavesToCloser(u, t)' /\ LeavesToCloser(t, u)',
         OpensUnpublished(t)',
         \A u \in Threads \ {t} : LeavesToOpener(u, t)' /\ LeavesToOpener(t, u)',
         \A u \in Threads \ {t} : OpensUnpublished(u)',
         \A u \in Threads : pc'[u] = "closed" => ~published'[stream'[u]]
  PROVE  LocksInv'
<1>1. ASSUME NEW u \in Threads \ {t}
      PROVE  LevelsOf(u)' /\ Lockless(u)' /\ (Using(u)' => published'[stream'[u]])
  <2>1. pc'[u] = pc[u] /\ op'[u] = op[u] /\ stream'[u] = stream[u] /\ nested'[u] = nested[u]
        /\ held'[u] = held[u]
    BY DEF OnlyMoves
  <2>2. LevelsOf(u) /\ Lockless(u) /\ (Using(u) => published[stream[u]] /\ stream[u] \in Streams)
    BY PlaceFacts DEF LocksInv, UsedArePublished, Using
  <2> QED
    BY <2>1, <2>2 DEF LevelsOf, Lockless, Using, Guards
<1>2. ASSUME NEW u \in Threads \ {t}, NEW v \in Threads \ {t}, u # v
      PROVE  LeavesToCloser(u, v)' /\ LeavesToOpener(u, v)'
  BY <1>2 DEF LocksInv, ClosersAreAlone, OpenersAreAlone, LeavesToCloser, LeavesToOpener, Waits, OnlyMoves
<1>3. ClosersAreAlone' /\ OpenersAreAlone'
  BY <1>2 DEF ClosersAreAlone, OpenersAreAlone
<1> QED
  BY <1>1, <1>3 DEF LocksInv, UsedArePublished, ClosedAreDone

(* The same where no stream is opened, published or closed.                *)
LEMMA LocksWithin ==
  ASSUME StreamShape, StreamShape', LocksInv, NEW t \in Threads, OnlyMoves(t),
         \A u \in Threads \ {t} : held'[u] = held[u],
         UNCHANGED <<published, open, standard>>,
         \A s \in Streams : StreamIsOwn(s)',
         LevelsOf(t)', Lockless(t)', Using(t)' => published'[stream'[t]],
         \A u \in Threads \ {t} : LeavesToCloser(u, t)' /\ LeavesToCloser(t, u)',
         op'[t] # "fopen" \/ (op'[t] = op[t] /\ stream'[t] = stream[t]),
         pc'[t] # "closed"
  PROVE  LocksInv'
<1>1. OpensUnpublished(t)' /\ \A u \in Threads \ {t} : OpensUnpublished(u)'
  BY DEF OpensUnpublished, LocksInv, OpenersAreAlone, OnlyMoves
<1>2. \A u \in Threads \ {t} : LeavesToOpener(u, t)' /\ LeavesToOpener(t, u)'
  BY DEF LeavesToOpener, LocksInv, OpenersAreAlone, OnlyMoves
<1>3. \A u \in Threads : pc'[u] = "closed" => ~published'[stream'[u]]
  BY DEF LocksInv, ClosedAreDone, OnlyMoves
<1> QED
  BY <1>1, <1>2, <1>3, LocksStep

(* The lock of each stream is left alone.                                  *)
KeepsLock(s) ==
  /\ StateOf(s)'.owner = StateOf(s).owner /\ StateOf(s)'.depth = StateOf(s).depth
  /\ ~published[s] /\ tracked[s] = Untracked => s \in standard \/ tracked'[s] = Untracked

LEMMA OwnKept ==
  ASSUME LocksInv, NEW t \in Threads, OnlyMoves(t), pc[t] # "closed",
         \A s \in Streams : KeepsLock(s), UNCHANGED <<held, published, open, standard>>
  PROVE  \A s \in Streams : StreamIsOwn(s)'
<1> TAKE s \in Streams
<1>1. StreamIsOwn(s) /\ KeepsLock(s)
  BY DEF LocksInv
<1>2. (\E u \in Threads : pc[u] = "closed" /\ stream[u] = s)
        => (\E u \in Threads : pc[u] = "closed" /\ stream[u] = s)'
  BY DEF OnlyMoves
<1> QED
  BY <1>1, <1>2 DEF StreamIsOwn, KeepsLock

LEMMA KeptByMark ==
  ASSUME StreamShape, NEW r \in Streams, published[r], UNCHANGED published,
         \/ tracked' = tracked
         \/ \E new : LockOf(new, StateOf(r)) /\ tracked' = [tracked EXCEPT ![r] = new]
  PROVE  \A s \in Streams : KeepsLock(s)
<1> TAKE s \in Streams
<1>1. CASE tracked' = tracked
  BY <1>1 DEF KeepsLock, StateOf
<1>2. ASSUME NEW new, LockOf(new, StateOf(r)), tracked' = [tracked EXCEPT ![r] = new]
      PROVE  KeepsLock(s)
  <2>1. new # Untracked
    BY <1>2, TrackedAreNotUntracked DEF LockOf
  <2>2. tracked'[s] = IF s = r THEN new ELSE tracked[s]
    BY <1>2 DEF StreamShape
  <2> QED
    BY <1>2, <2>1, <2>2 DEF KeepsLock, StateOf, LockOf
<1> QED
  BY <1>1, <1>2

(* A level more of an open stream.                                         *)
LEMMA TakeOwn ==
  ASSUME StreamShape, LocksInv, NEW t \in Threads, NEW s \in Streams, published[s],
         TakeLock(t, s), OnlyMoves(t), pc[t] # "closed", UNCHANGED <<published, open, standard>>
  PROVE  /\ \A r \in Streams : StreamIsOwn(r)'
         /\ held'[t][s] = held[t][s] + 1
         /\ \A r \in Streams \ {s} : held'[t][r] = held[t][r]
         /\ \A u \in Threads \ {t} : held'[u] = held[u]
<1> DEFINE new == [StateOf(s) EXCEPT !.owner = t, !.depth = StateOf(s).depth + 1]
<1>1. /\ StateOf(s).owner \in {NoThread, t}
      /\ tracked' = [tracked EXCEPT ![s] = new]
      /\ held' = [held EXCEPT ![t][s] = held[t][s] + 1]
  BY DEF TakeLock, Track
<1>2. StateOf(s) \in StreamStates
  BY StateFacts
<1>3. new.owner = t /\ new.depth = StateOf(s).depth + 1
  BY <1>2 DEF StreamStates
<1> HIDE DEF new
<1>4. /\ tracked'[s] = new /\ \A r \in Streams \ {s} : tracked'[r] = tracked[r]
      /\ held'[t][s] = held[t][s] + 1
      /\ \A r \in Streams \ {s} : held'[t][r] = held[t][r]
      /\ \A u \in Threads \ {t} : held'[u] = held[u]
  BY <1>1 DEF StreamShape
<1>5. StateOf(s)' = new
  BY <1>3, <1>4, FreshFacts, StdioAssumption DEF StateOf
<1>6. StreamIsOwn(s)'
  <2>1. StateOf(s).owner = NoThread => StateOf(s).depth = 0
    BY <1>2, FieldFacts
  <2>2. held'[t][s] = new.depth
    <3>1. held[t][s] = StateOf(s).depth
      BY <1>1, <2>1, StdioAssumption DEF LocksInv, StreamIsOwn
    <3> QED
      BY <1>3, <1>4, <3>1
  <2>3. ASSUME NEW u \in Threads \ {t}
        PROVE  held'[u][s] = 0
    <3>1. StateOf(s).owner # u
      BY <1>1, StdioAssumption
    <3> QED
      BY <1>4, <3>1 DEF LocksInv, StreamIsOwn
  <2> QED
    BY <1>3, <1>5, <2>2, <2>3 DEF LocksInv, StreamIsOwn
<1>7. ASSUME NEW r \in Streams \ {s}
      PROVE  StreamIsOwn(r)'
  <2>1. StateOf(r)' = StateOf(r) /\ \A u \in Threads : held'[u][r] = held[u][r]
    BY <1>4 DEF StateOf
  <2>2. (\E u \in Threads : pc[u] = "closed" /\ stream[u] = r)
          => (\E u \in Threads : pc[u] = "closed" /\ stream[u] = r)'
    BY DEF OnlyMoves
  <2>3. StreamIsOwn(r)
    BY DEF LocksInv
  <2> QED
    BY <1>4, <2>1, <2>2, <2>3 DEF StreamIsOwn
<1> QED
  BY <1>4, <1>6, <1>7

(* A level less, of a stream of which the thread has one.                  *)
LEMMA UnlockOwn ==
  ASSUME StreamShape, LocksInv, NEW t \in Threads, NEW s \in Streams, published[s],
         held[t][s] > 0,
         UnlockPass(t, s), OnlyMoves(t), pc[t] # "closed", UNCHANGED <<published, open, standard>>
  PROVE  /\ \A r \in Streams : StreamIsOwn(r)'
         /\ LastLevel(t, s) <=> held[t][s] = 1
         /\ held'[t][s] = held[t][s] - 1
         /\ \A r \in Streams \ {s} : held'[t][r] = held[t][r]
         /\ \A u \in Threads \ {t} : held'[u] = held[u]
<1>1. /\ StateOf(s).owner = t /\ held[t][s] = StateOf(s).depth
      /\ \A u \in Threads \ {t} : held[u][s] = 0
  BY DEF LocksInv, StreamIsOwn
<1>2. /\ tracked[s] = StateOf(s) /\ StateOf(s) \in StreamStates /\ t # NoThread
  BY <1>1, StateFacts, FreshFacts, StdioAssumption DEF StateOf
<1>3. LastLevel(t, s) <=> held[t][s] = 1
  BY <1>1, <1>2 DEF LastLevel
<1>4. /\ held'[t][s] = held[t][s] - 1
      /\ \A r \in Streams \ {s} : held'[t][r] = held[t][r]
      /\ \A u \in Threads \ {t} : held'[u] = held[u]
  BY DEF UnlockPass, StreamShape
<1>6. \A r \in Streams \ {s} : tracked'[r] = tracked[r]
  BY DEF UnlockPass, Track, StreamShape
<1>7. /\ StateOf(s)'.owner = (IF held[t][s] = 1 THEN NoThread ELSE t)
      /\ StateOf(s)'.depth = held[t][s] - 1
  <2>1. CASE LastLevel(t, s)
    <3> DEFINE freed == [tracked[s] EXCEPT !.owner = NoThread, !.depth = 0]
    <3>1. freed.owner = NoThread /\ freed.depth = 0
      BY <1>2 DEF StreamStates
    <3>2. tracked' = [tracked EXCEPT ![s] = IF freed = FreshState THEN Untracked ELSE freed]
      BY <2>1 DEF UnlockPass, Track
    <3>3. tracked'[s] = Untracked \/ tracked'[s] = freed
      BY <3>2 DEF StreamShape
    <3> HIDE DEF freed
    <3>4. StateOf(s)' = FreshState \/ StateOf(s)' = freed
      BY <3>3 DEF StateOf
    <3> QED
      BY <1>3, <2>1, <3>1, <3>4, FreshFacts
  <2>2. CASE ~LastLevel(t, s)
    <3> DEFINE kept == [tracked[s] EXCEPT !.depth = tracked[s].depth - 1]
    <3>1. kept.owner = t /\ kept.depth = held[t][s] - 1
      BY <1>1, <1>2 DEF StreamStates
    <3>2. tracked' = [tracked EXCEPT ![s] = kept]
      BY <1>1, <1>2, <2>2 DEF UnlockPass, Track
    <3>3. tracked'[s] = kept
      BY <3>2 DEF StreamShape
    <3> HIDE DEF kept
    <3>4. StateOf(s)' = kept
      BY <1>2, <3>1, <3>3, FreshFacts DEF StateOf
    <3> QED
      BY <1>3, <2>2, <3>1, <3>4
  <2> QED
    BY <2>1, <2>2
<1>8. StreamIsOwn(s)'
  BY <1>1, <1>2, <1>4, <1>7 DEF LocksInv, StreamIsOwn, StreamShape
<1>9. ASSUME NEW r \in Streams \ {s}
      PROVE  StreamIsOwn(r)'
  <2>1. StateOf(r)' = StateOf(r) /\ \A u \in Threads : held'[u][r] = held[u][r]
    BY <1>4, <1>6 DEF StateOf
  <2>2. (\E u \in Threads : pc[u] = "closed" /\ stream[u] = r)
          => (\E u \in Threads : pc[u] = "closed" /\ stream[u] = r)'
    BY DEF OnlyMoves
  <2>3. StreamIsOwn(r)
    BY DEF LocksInv
  <2> QED
    BY <1>6, <2>1, <2>2, <2>3 DEF StreamIsOwn
<1> QED
  BY <1>3, <1>4, <1>8, <1>9

LEMMA LevelFacts ==
  ASSUME StreamShape, LocksInv, NEW t \in Threads
  PROVE  /\ \A s \in Streams : held[t][s] \in Nat
         /\ \A s \in Streams : stream[t] # s \/ Guards(t) = 0 => held[t][s] <= MaxDepth
         /\ stream[t] \in Streams =>
              Guards(t) <= held[t][stream[t]] /\ held[t][stream[t]] <= MaxDepth + Guards(t)
         /\ pc[t] \in {"blocked", "notifying", "out", "marked", "opened", "closed"} =>
              ~nested[t] /\ Guards(t) = 0
         /\ \A s \in Streams : published[s] => (held[t][s] > 0 <=> StateOf(s).owner = t)
<1>1. LevelsOf(t) /\ Lockless(t) /\ \A s \in Streams : held[t][s] \in Int
  BY DEF LocksInv, StreamShape
<1>2. Guards(t) \in {0, 1, 2} /\ MaxDepth \in Nat
  BY StdioAssumption DEF Guards
<1>3. \A s \in Streams : held[t][s] \in Nat
  BY <1>1, <1>2 DEF LevelsOf
<1>4. \A s \in Streams : stream[t] # s \/ Guards(t) = 0 => held[t][s] <= MaxDepth
  BY <1>1, <1>2 DEF LevelsOf
<1>5. stream[t] \in Streams =>
        Guards(t) <= held[t][stream[t]] /\ held[t][stream[t]] <= MaxDepth + Guards(t)
  BY <1>1, <1>2 DEF LevelsOf
<1>6. pc[t] \in {"blocked", "notifying", "out", "marked", "opened", "closed"} =>
        ~nested[t] /\ Guards(t) = 0
  <2>1. pc[t] \in {"blocked", "notifying"} => ~nested[t]
    <3>1. pc[t] \in {"blocked", "notifying"} => stream[t] \in Streams /\ held[t][stream[t]] = 0
      BY <1>1, PlaceFacts DEF Lockless
    <3>2. nested[t] => Guards(t) = 2
      BY DEF Guards
    <3> QED
      BY <1>5, <3>1, <3>2
  <2>2. pc[t] \in {"out", "marked", "opened", "closed"} => ~nested[t]
    BY PlaceFacts
  <2> QED
    BY <2>1, <2>2 DEF Guards, Working
<1>7. \A s \in Streams : published[s] => (held[t][s] > 0 <=> StateOf(s).owner = t)
  <2> TAKE s \in Streams
  <2>1. StateOf(s).owner = t => StateOf(s).depth \in Nat \ {0}
    BY StateFacts, FieldFacts, StdioAssumption
  <2> QED
    BY <2>1 DEF LocksInv, StreamIsOwn
<1> QED
  BY <1>3, <1>4, <1>5, <1>6, <1>7

LEMMA WorkKeepsLocks ==
  ASSUME StreamShape, StreamShape', LocksInv, NEW t \in Threads, Works(t)
  PROVE  LocksInv'
<1>1. OnlyMoves(t) /\ pc'[t] \in Working /\ pc[t] \in Working
  BY DEF Works, OnlyMoves, StreamShape
<1>2. Using(t) /\ published[stream[t]]
  BY <1>1 DEF LocksInv, UsedArePublished, Using, Working
<1>3. \A s \in Streams : StreamIsOwn(s)'
  <2>1. \A s \in Streams : KeepsLock(s)
    BY <1>2, KeptByMark DEF Works
  <2> QED
    BY <1>1, <2>1, OwnKept DEF Works, Working
<1>4. Guards(t)' = Guards(t) /\ LevelsOf(t) /\ Lockless(t)
  BY <1>1 DEF Guards, Works, LocksInv
<1>5. LevelsOf(t)'
  BY <1>4 DEF LevelsOf, Works
<1>6. Lockless(t)'
  BY <1>1 DEF Lockless, Working
<1>7. \A u \in Threads \ {t} : LeavesToCloser(u, t)' /\ LeavesToCloser(t, u)'
  <2> TAKE u \in Threads \ {t}
  <2>1. LeavesToCloser(t, u) /\ pc[t] # "notifying"
    BY <1>1 DEF LocksInv, ClosersAreAlone, Working
  <2> QED
    BY <1>1, <2>1 DEF LeavesToCloser, Waits, Works, OnlyMoves
<1> QED
  BY <1>1, <1>2, <1>3, <1>5, <1>6, <1>7, LocksWithin DEF Works, Working, Using

(* A pass of the loop of lock_stream_file_internal, by a call that begins, *)
(* one that was woken, or the fflush in vfprintf.                          *)
LEMMA PassKeepsLocks ==
  ASSUME StreamShape, StreamShape', LocksInv, NEW t \in Threads, NEW s \in Streams,
         published[s], LockPass(t, s), OnlyMoves(t), pc[t] # "closed",
         stream'[t] = s, UNCHANGED <<published, open, standard>>,
         op'[t] \in {"flockfile", "fclose", "fflush", "setvbuf", "vfprintf"},
         \A r \in Streams \ {s} : held[t][r] <= MaxDepth,
         pc'[t] = "blocked" => ~nested'[t],
         IF op'[t] = "flockfile" THEN ~nested'[t] /\ held[t][s] < MaxDepth
         ELSE IF nested'[t] THEN held[t][s] >= 1 /\ held[t][s] <= MaxDepth + 1
              ELSE held[t][s] <= MaxDepth,
         \A u \in Threads \ {t} : Waits(u) /\ stream[u] = s => held[t][s] > 0 \/ stream[t] = s,
         pc[t] # "notifying",
         op'[t] = "fclose" => \A u \in Threads \ {t} : stream[u] = s => held[u][s] > 0 \/ pc[u] = "notifying"
  PROVE  LocksInv'
<1>1. held[t][s] \in Nat /\ MaxDepth \in Nat /\ \A r \in Streams : held[t][r] \in Nat
  BY LevelFacts, StdioAssumption
<1>2. CASE TakeLock(t, s) /\ Goto(t, "locked")
  <2>1. pc'[t] = "locked"
    BY <1>2 DEF Goto, StreamShape
  <2>2. /\ \A r \in Streams : StreamIsOwn(r)'
        /\ held'[t][s] = held[t][s] + 1
        /\ \A r \in Streams \ {s} : held'[t][r] = held[t][r]
        /\ \A u \in Threads \ {t} : held'[u] = held[u]
    BY <1>2, TakeOwn
  <2>3. Guards(t)' = IF op'[t] = "flockfile" THEN 0 ELSE IF nested'[t] THEN 2 ELSE 1
    BY <2>1 DEF Guards, Working
  <2>4. Guards(t)' <= held'[t][s] /\ held'[t][s] <= MaxDepth + Guards(t)'
    BY <1>1, <2>2, <2>3
  <2>5. LevelsOf(t)' /\ Lockless(t)'
    BY <1>1, <2>1, <2>2, <2>4 DEF LevelsOf, Lockless
  <2>6. \A u \in Threads \ {t} : LeavesToCloser(u, t)' /\ LeavesToCloser(t, u)'
    BY <1>1, <2>2 DEF LeavesToCloser, Waits, OnlyMoves
  <2> QED
    BY <2>1, <2>2, <2>5, <2>6, LocksWithin
<1>3. CASE WaitForLock(t, s) /\ Goto(t, "blocked")
  <2>1. pc'[t] = "blocked" /\ UNCHANGED <<tracked, held>>
    BY <1>3 DEF Goto, StreamShape, WaitForLock
  <2>2. held[t][s] = 0
    <3>1. StateOf(s).owner # t
      BY <1>3, StateFacts DEF WaitForLock
    <3> QED
      BY <3>1 DEF LocksInv, StreamIsOwn
  <2>3. \A r \in Streams : StreamIsOwn(r)'
    <3>1. \A r \in Streams : KeepsLock(r)
      BY <2>1 DEF KeepsLock, StateOf
    <3> QED
      BY <2>1, <3>1, OwnKept
  <2>4. Guards(t)' = 0
    BY <2>1 DEF Guards, Working
  <2>5. LevelsOf(t)' /\ Lockless(t)'
    BY <1>1, <2>1, <2>2, <2>4 DEF LevelsOf, Lockless
  <2>6. \A u \in Threads \ {t} : LeavesToCloser(u, t)' /\ LeavesToCloser(t, u)'
    <3> TAKE u \in Threads \ {t}
    <3>1. ~(Waits(u) /\ stream[u] = s)
      <4> SUFFICES ASSUME Waits(u), stream[u] = s
                   PROVE  FALSE
        OBVIOUS
      <4>1. LeavesToCloser(t, u) /\ ~(held[t][s] > 0)
        BY <2>2 DEF LocksInv, ClosersAreAlone
      <4>2. stream[t] = s
        BY <2>2
      <4> QED
        BY <4>1, <4>2 DEF LeavesToCloser
    <3> QED
      BY <2>1, <3>1 DEF LeavesToCloser, Waits, OnlyMoves
  <2> QED
    BY <2>1, <2>3, <2>5, <2>6, LocksWithin
<1> QED
  BY <1>2, <1>3 DEF LockPass

LEMMA LockCallsKeepLocks ==
  ASSUME StreamShape, StreamShape', LocksInv, NEW t \in Threads,
         \/ \E s \in Streams : \/ Flockfile(t, s) \/ Ftrylockfile(t, s) \/ Funlockfile(t, s) \/ Fclose(t, s)
                              \/ \E name \in {"fflush", "setvbuf", "vfprintf"} : Guarded(t, s, name)
         \/ Recontend(t) \/ NestedFlush(t)
  PROVE  LocksInv'
<1> USE DEF host, call, clients
<1>0. MaxDepth \in Nat \ {0}
  BY StdioAssumption
<1>1. ASSUME NEW s \in Streams, NEW name \in {"flockfile", "fclose", "fflush", "setvbuf", "vfprintf"},
             Guarded(t, s, name), name = "flockfile" => held[t][s] < MaxDepth,
             name = "fclose" => \A u \in Threads : ~InCallOn(u, s)
      PROVE  LocksInv'
  <2>1. /\ published[s] /\ pc[t] = "out" /\ LockPass(t, s)
        /\ op' = [op EXCEPT ![t] = name] /\ stream' = [stream EXCEPT ![t] = s]
        /\ UNCHANGED <<nested, published, open, standard>>
        /\ Closing(s) => held[t][s] > 0
    BY <1>1 DEF Guarded, MayCall, Begin
  <2>2. op'[t] = name /\ stream'[t] = s /\ nested'[t] = nested[t]
    BY <2>1 DEF StreamShape
  <2>3. OnlyMoves(t)
    BY <2>1 DEF OnlyMoves, StreamShape, LockPass, Goto
  <2>4. ~nested[t] /\ \A r \in Streams : held[t][r] <= MaxDepth
    BY <2>1, LevelFacts
  <2>5. \A u \in Threads : Waits(u) /\ stream[u] = s => held[t][s] > 0
    BY <2>1 DEF Closing, Waits
  <2>6. name = "fclose" => \A u \in Threads : stream[u] # s
    <3>1. \A u \in Threads : pc[u] = "out" => stream[u] = NoStream
      BY DEF StreamShape, CallShape
    <3> QED
      BY <1>1, <3>1, StdioAssumption DEF InCallOn
  <2> QED
    BY <1>1, <2>1, <2>2, <2>3, <2>4, <2>5, <2>6, PassKeepsLocks
<1>2. CASE Recontend(t)
  <2> DEFINE s == stream[t]
  <2>1. /\ s \in Streams /\ published[s] /\ pc[t] = "blocked" /\ LockPass(t, s)
        /\ UNCHANGED <<op, stream, nested, published, open, standard>>
        /\ held[t][s] = 0
    BY <1>2, PlaceFacts DEF Recontend, LocksInv, UsedArePublished, Using, Lockless
  <2>2. OnlyMoves(t)
    BY <2>1 DEF OnlyMoves, StreamShape, LockPass, Goto
  <2>3. ~nested[t] /\ \A r \in Streams : held[t][r] <= MaxDepth
    BY <2>1, LevelFacts
  <2>4. op[t] \in {"flockfile", "fclose", "fflush", "setvbuf", "vfprintf"}
    BY <2>1 DEF StreamShape, CallShape, Calls, Working
  <2>5. op[t] = "fclose" => \A u \in Threads \ {t} : stream[u] = s => held[u][s] > 0 \/ pc[u] = "notifying"
    BY <2>1 DEF LocksInv, ClosersAreAlone, LeavesToCloser, Waits
  <2> HIDE DEF s
  <2>6. stream'[t] = s /\ stream[t] = s
    BY <2>1 DEF s
  <2> QED
    BY <1>0, <2>1, <2>2, <2>3, <2>4, <2>5, <2>6, PassKeepsLocks
<1>3. CASE NestedFlush(t)
  <2> DEFINE s == stream[t]
  <2>1. /\ s \in Streams /\ published[s] /\ pc[t] = "flush_next" /\ LockPass(t, s)
        /\ UNCHANGED <<op, stream, published, open, standard>>
        /\ nested' = [nested EXCEPT ![t] = TRUE] /\ op[t] = "vfprintf" /\ ~nested[t]
    BY <1>3, PlaceFacts DEF NestedFlush, LocksInv, UsedArePublished, Using
  <2>2. OnlyMoves(t) /\ nested'[t]
    BY <2>1 DEF OnlyMoves, StreamShape, LockPass, Goto
  <2>3. Guards(t) = 1
    BY <2>1 DEF Guards, Working
  <2>4. held[t][s] >= 1 /\ held[t][s] <= MaxDepth + 1 /\ \A r \in Streams \ {s} : held[t][r] <= MaxDepth
    BY <2>1, <2>3, LevelFacts
  <2>5. StateOf(s).owner = t
    BY <2>1, <2>4, LevelFacts
  <2>6. TakeLock(t, s) /\ Goto(t, "locked")
    BY <2>1, <2>5, StateFacts DEF LockPass, WaitForLock
  <2>7. pc'[t] = "locked"
    BY <2>6 DEF Goto, StreamShape
  <2> HIDE DEF s
  <2>8. stream'[t] = s /\ stream[t] = s
    BY <2>1 DEF s
  <2> QED
    BY <2>1, <2>2, <2>4, <2>7, <2>8, PassKeepsLocks
<1>4. ASSUME NEW s \in Streams, Ftrylockfile(t, s)
      PROVE  LocksInv'
  <2>1. /\ published[s] /\ pc[t] = "out" /\ TakeLock(t, s) /\ held[t][s] < MaxDepth
        /\ UNCHANGED <<pc, op, stream, nested, published, open, standard>>
    BY <1>4 DEF Ftrylockfile, MayCall
  <2>2. OnlyMoves(t)
    BY <2>1 DEF OnlyMoves
  <2>3. /\ \A r \in Streams : StreamIsOwn(r)'
        /\ held'[t][s] = held[t][s] + 1
        /\ \A r \in Streams \ {s} : held'[t][r] = held[t][r]
        /\ \A u \in Threads \ {t} : held'[u] = held[u]
    BY <2>1, <2>2, TakeOwn
  <2>4. stream[t] = NoStream /\ op[t] = "none"
    BY <2>1 DEF StreamShape, CallShape
  <2>5. Guards(t)' = 0 /\ \A r \in Streams : held[t][r] \in Nat /\ held[t][r] <= MaxDepth
    BY <2>1, LevelFacts DEF Guards
  <2>6. LevelsOf(t)' /\ Lockless(t)'
    BY <1>0, <2>1, <2>3, <2>5 DEF LevelsOf, Lockless
  <2>7. \A u \in Threads \ {t} : LeavesToCloser(u, t)' /\ LeavesToCloser(t, u)'
    <3>1. \A u \in Threads : Waits(u) => stream[u] # NoStream
      BY PlaceFacts, StdioAssumption DEF Waits
    <3> QED
      BY <2>1, <2>4, <3>1 DEF LeavesToCloser, Waits
  <2> QED
    BY <2>1, <2>2, <2>3, <2>4, <2>6, <2>7, LocksWithin DEF Using
<1>5. ASSUME NEW s \in Streams, Funlockfile(t, s)
      PROVE  LocksInv'
  <2>1. /\ published[s] /\ pc[t] = "out" /\ UnlockPass(t, s) /\ held[t][s] > 0
        /\ UNCHANGED <<published, open, standard>>
        /\ IF LastLevel(t, s) THEN Begin(t, s, "funlockfile") /\ Goto(t, "notifying")
                              ELSE UNCHANGED call
    BY <1>5 DEF Funlockfile, MayCall
  <2>2. OnlyMoves(t)
    BY <2>1 DEF OnlyMoves, Begin, Goto, StreamShape
  <2>3. /\ \A r \in Streams : StreamIsOwn(r)'
        /\ LastLevel(t, s) <=> held[t][s] = 1
        /\ held'[t][s] = held[t][s] - 1
        /\ \A r \in Streams \ {s} : held'[t][r] = held[t][r]
        /\ \A u \in Threads \ {t} : held'[u] = held[u]
    BY <2>1, <2>2, UnlockOwn
  <2>4. stream[t] = NoStream /\ op[t] = "none"
    BY <2>1 DEF StreamShape, CallShape
  <2>5. ~nested[t] /\ \A r \in Streams : held[t][r] \in Nat /\ held[t][r] <= MaxDepth
    BY <2>1, LevelFacts
  <2>6. CASE LastLevel(t, s)
    <3>1. pc'[t] = "notifying" /\ op'[t] = "funlockfile" /\ stream'[t] = s /\ ~nested'[t]
      BY <2>1, <2>5, <2>6 DEF Begin, Goto, StreamShape
    <3>2. Guards(t)' = 0
      BY <3>1 DEF Guards, Working
    <3>3. LevelsOf(t)' /\ Lockless(t)'
      BY <1>0, <2>3, <2>5, <2>6, <3>1, <3>2 DEF LevelsOf, Lockless
    <3>4. \A u \in Threads \ {t} : LeavesToCloser(u, t)' /\ LeavesToCloser(t, u)'
      BY <3>1 DEF LeavesToCloser, Waits
    <3> QED
      BY <2>1, <2>2, <2>3, <3>1, <3>3, <3>4, LocksWithin DEF Using
  <2>7. CASE ~LastLevel(t, s)
    <3>1. UNCHANGED <<pc, op, stream, nested>>
      BY <2>1, <2>7
    <3>2. Guards(t)' = 0
      BY <2>1, <2>5, <3>1 DEF Guards, Working
    <3>3. LevelsOf(t)' /\ Lockless(t)'
      BY <1>0, <2>1, <2>3, <2>5, <3>1, <3>2 DEF LevelsOf, Lockless
    <3>4. \A u \in Threads \ {t} : LeavesToCloser(u, t)' /\ LeavesToCloser(t, u)'
      <4>1. \A u \in Threads : Waits(u) => stream[u] # NoStream
        BY PlaceFacts, StdioAssumption DEF Waits
      <4> QED
        BY <2>1, <2>4, <3>1, <4>1 DEF LeavesToCloser, Waits
    <3> QED
      BY <2>1, <2>2, <2>3, <2>4, <3>1, <3>3, <3>4, LocksWithin DEF Using
  <2> QED
    BY <2>6, <2>7
<1> QED
  BY <1>1, <1>2, <1>3, <1>4, <1>5 DEF Flockfile, Fclose

(* A call ends, and hands out no address.                                  *)
LEMMA QuietReturn ==
  ASSUME StreamShape, StreamShape', LocksInv, NEW t \in Threads, Return(t), ~nested[t],
         op[t] # "fopen", UNCHANGED <<open, standard>>,
         \A u \in Threads \ {t} : held'[u] = held[u],
         \A s \in Streams : StreamIsOwn(s)',
         \A s \in Streams : 0 <= held'[t][s] /\ held'[t][s] <= MaxDepth
  PROVE  LocksInv'
<1>1. /\ OnlyMoves(t) /\ published' = published
      /\ pc'[t] = "out" /\ op'[t] = "none" /\ stream'[t] = NoStream /\ ~nested'[t]
  BY DEF Return, Goto, OnlyMoves, StreamShape
<1>2. Guards(t)' = 0
  BY <1>1 DEF Guards, Working
<1>3. LevelsOf(t)' /\ Lockless(t)'
  BY <1>1, <1>2, StdioAssumption DEF LevelsOf, Lockless
<1>4. \A u \in Threads \ {t} : LeavesToCloser(u, t)' /\ LeavesToCloser(t, u)'
  <2>1. ASSUME NEW u \in Threads, Waits(u)'
        PROVE  stream'[u] # NoStream
    <3>1. pc'[u] \notin {"out", "marked"}
      BY <2>1 DEF Waits
    <3>2. CallShape(u)'
      BY DEF StreamShape
    <3> QED
      BY <3>1, <3>2, StdioAssumption DEF CallShape
  <2> QED
    BY <1>1, <2>1 DEF LeavesToCloser, Waits
<1> QED
  BY <1>1, <1>3, <1>4, LocksWithin DEF Using

LEMMA ReleaseKeepsLocks ==
  ASSUME StreamShape, StreamShape', LocksInv, NEW t \in Threads, Release(t)
  PROVE  LocksInv'
<1> DEFINE s == stream[t]
<1>1. /\ s \in Streams /\ published[s] /\ pc[t] = "releasing" /\ UnlockPass(t, s)
      /\ op[t] \in {"fflush", "setvbuf", "vfprintf"} /\ (nested[t] => op[t] = "vfprintf")
      /\ UNCHANGED <<open, standard>>
  BY PlaceFacts DEF Release, LocksInv, UsedArePublished, Using, host
<1>2. Guards(t) = (IF nested[t] THEN 2 ELSE 1) /\ nested[t] \in BOOLEAN /\ MaxDepth \in Nat
  BY <1>1, StdioAssumption DEF Guards, Working, StreamShape
<1>3. /\ Guards(t) <= held[t][s] /\ held[t][s] <= MaxDepth + Guards(t)
      /\ \A r \in Streams : held[t][r] \in Nat /\ (r # s => held[t][r] <= MaxDepth)
  BY <1>1, LevelFacts
<1>4. /\ published' = published
      /\ \/ LastLevel(t, s) /\ Goto(t, "notifying") /\ UNCHANGED <<op, stream, nested>>
         \/ ~LastLevel(t, s) /\ Return(t)
  BY <1>1 DEF Release, Return
<1>5. OnlyMoves(t)
  BY <1>4 DEF OnlyMoves, Return, Goto, StreamShape
<1>6. /\ \A r \in Streams : StreamIsOwn(r)'
      /\ LastLevel(t, s) <=> held[t][s] = 1
      /\ held'[t][s] = held[t][s] - 1
      /\ \A r \in Streams \ {s} : held'[t][r] = held[t][r]
      /\ \A u \in Threads \ {t} : held'[u] = held[u]
  <2>1. held[t][s] > 0 /\ pc[t] # "closed"
    BY <1>1, <1>2, <1>3
  <2> QED
    BY <1>1, <1>4, <1>5, <2>1, UnlockOwn
<1>7. CASE LastLevel(t, s)
  <2>1. /\ pc'[t] = "notifying" /\ op'[t] = op[t] /\ stream'[t] = s /\ nested'[t] = nested[t]
        /\ ~nested[t]
    BY <1>2, <1>3, <1>4, <1>6, <1>7 DEF Goto, StreamShape
  <2>2. Guards(t)' = 0
    BY <2>1 DEF Guards, Working
  <2>3. LevelsOf(t)' /\ Lockless(t)'
    BY <1>2, <1>3, <1>6, <1>7, <2>1, <2>2 DEF LevelsOf, Lockless
  <2>4. \A u \in Threads \ {t} : LeavesToCloser(u, t)' /\ LeavesToCloser(t, u)'
    BY <2>1 DEF LeavesToCloser, Waits
  <2> QED
    BY <1>1, <1>4, <1>5, <1>6, <2>1, <2>3, <2>4, LocksWithin DEF Using
<1>8. CASE ~LastLevel(t, s) /\ nested[t]
  <2>1. pc'[t] = "releasing" /\ op'[t] = op[t] /\ stream'[t] = s /\ ~nested'[t]
    BY <1>4, <1>8 DEF Return, Goto, StreamShape
  <2>2. Guards(t)' = 1
    BY <1>1, <2>1 DEF Guards, Working
  <2>3. held'[t][s] >= 1 /\ held'[t][s] <= MaxDepth + 1 /\ held'[t][s] > 0
    <3>1. \A n \in Nat : 2 <= n /\ n <= MaxDepth + 2 => n - 1 >= 1 /\ n - 1 <= MaxDepth + 1 /\ n - 1 > 0
      BY <1>2
    <3>2. 2 <= held[t][s] /\ held[t][s] <= MaxDepth + 2 /\ held[t][s] \in Nat
      BY <1>1, <1>2, <1>3, <1>8
    <3> QED
      BY <1>6, <3>1, <3>2
  <2>4. LevelsOf(t)' /\ Lockless(t)'
    BY <1>2, <1>3, <1>6, <2>1, <2>2, <2>3 DEF LevelsOf, Lockless
  <2>5. \A u \in Threads \ {t} : LeavesToCloser(u, t)' /\ LeavesToCloser(t, u)'
    BY <1>1, <2>1, <2>3 DEF LeavesToCloser, Waits
  <2> QED
    BY <1>1, <1>4, <1>5, <1>6, <2>1, <2>4, <2>5, LocksWithin
<1>9. CASE ~LastLevel(t, s) /\ ~nested[t]
  <2>1. Return(t) /\ op[t] # "fopen"
    BY <1>1, <1>4, <1>9
  <2>2. \A r \in Streams : 0 <= held'[t][r] /\ held'[t][r] <= MaxDepth
    BY <1>2, <1>3, <1>6, <1>9
  <2> QED
    BY <1>1, <1>6, <1>9, <2>1, <2>2, QuietReturn
<1> QED
  BY <1>7, <1>8, <1>9

(* The steps that touch no file lock.                                      *)
LEMMA QuietKeepsLocks ==
  ASSUME StreamShape, StreamShape', LocksInv, NEW t \in Threads,
         \/ FlockfileReturn(t) \/ (Notify(t) /\ op[t] # "fopen") \/ MarkTransfer(t)
         \/ HostFlushAll(t) \/ MarkAll(t) \/ \E s \in Streams : HostTransfer(t, s)
  PROVE  LocksInv'
<1> USE DEF host, call, clients
<1>0. MaxDepth \in Nat
  BY StdioAssumption
<1>1. ASSUME Return(t), op[t] # "fopen", UNCHANGED <<open, standard, held>>,
             pc[t] \notin {"out", "closed"}, ~nested[t], Guards(t) = 0,
             \A s \in Streams : KeepsLock(s)
      PROVE  LocksInv'
  <2>1. OnlyMoves(t) /\ published' = published
    BY <1>1 DEF OnlyMoves, Return, Goto, StreamShape
  <2>2. \A s \in Streams : StreamIsOwn(s)'
    BY <1>1, <2>1, OwnKept
  <2>3. \A s \in Streams : 0 <= held'[t][s] /\ held'[t][s] <= MaxDepth
    BY <1>1, <1>0, LevelFacts
  <2> QED
    BY <1>1, <2>2, <2>3, QuietReturn
<1>2. tracked' = tracked /\ published' = published => \A s \in Streams : KeepsLock(s)
  BY DEF KeepsLock, StateOf
<1>3. Return(t) /\ op[t] # "fopen" => published' = published
  BY DEF Return
<1>4. CASE FlockfileReturn(t) \/ (Notify(t) /\ op[t] # "fopen") \/ HostFlushAll(t)
  <2>1. /\ Return(t) /\ op[t] # "fopen" /\ UNCHANGED <<open, standard, held, tracked>>
        /\ pc[t] \in {"locked", "notifying", "marked"} /\ (pc[t] = "locked" => op[t] = "flockfile")
    BY <1>4, PlaceFacts DEF FlockfileReturn, Notify, HostFlushAll
  <2>2. ~nested[t] /\ Guards(t) = 0
    BY <2>1, PlaceFacts, LevelFacts DEF Guards
  <2> QED
    BY <1>1, <1>2, <1>3, <2>1, <2>2
<1>5. CASE MarkTransfer(t)
  <2>1. /\ Return(t) /\ op[t] = "fputs" /\ pc[t] = "wrote" /\ UNCHANGED <<open, standard, held>>
        /\ stream[t] \in Streams /\ ~nested[t] /\ published[stream[t]]
        /\ tracked' = [tracked EXCEPT ![stream[t]] = WithHostIo(stream[t])]
    BY <1>5, PlaceFacts DEF MarkTransfer, Track, LocksInv, UsedArePublished, Using
  <2>2. \A s \in Streams : KeepsLock(s)
    BY <1>3, <2>1, MarkFacts, KeptByMark
  <2>3. Guards(t) = 0
    BY <2>1 DEF Guards
  <2> QED
    BY <1>1, <2>1, <2>2, <2>3
<1>6. CASE MarkAll(t)
  <2>1. /\ pc[t] = "out" /\ UNCHANGED <<open, standard, held, published, nested>>
        /\ op' = [op EXCEPT ![t] = "fflush_all"] /\ stream' = [stream EXCEPT ![t] = NoStream]
        /\ pc' = [pc EXCEPT ![t] = "marked"]
    BY <1>6 DEF MarkAll, Begin, Goto
  <2>2. OnlyMoves(t) /\ pc'[t] = "marked" /\ op'[t] = "fflush_all" /\ stream'[t] = NoStream
    BY <2>1 DEF OnlyMoves, StreamShape
  <2>3. \A s \in Streams : KeepsLock(s)
    <3> TAKE s \in Streams
    <3>1. tracked'[s] = IF s \in standard \/ tracked[s] # Untracked THEN WithIo(s) ELSE Untracked
      BY <1>6 DEF MarkAll
    <3>2. LockOf(WithIo(s), StateOf(s)) /\ WithIo(s) # Untracked
      BY MarkFacts, TrackedAreNotUntracked DEF LockOf
    <3>3. CASE s \in standard \/ tracked[s] # Untracked
      <4>1. StateOf(s)' = WithIo(s)
        BY <3>1, <3>2, <3>3 DEF StateOf
      <4> QED
        BY <3>2, <3>3, <4>1 DEF KeepsLock, LockOf
    <3>4. CASE ~(s \in standard \/ tracked[s] # Untracked)
      BY <3>1, <3>4 DEF KeepsLock, StateOf
    <3> QED
      BY <3>3, <3>4
  <2>4. \A s \in Streams : StreamIsOwn(s)'
    BY <2>1, <2>2, <2>3, OwnKept
  <2>5. ~nested[t] /\ ~nested'[t] /\ Guards(t)' = 0
    BY <2>1, <2>2, PlaceFacts DEF Guards, Working
  <2>6. LevelsOf(t)' /\ Lockless(t)'
    BY <1>0, <2>1, <2>2, <2>5, LevelFacts DEF LevelsOf, Lockless
  <2>7. \A u \in Threads \ {t} : LeavesToCloser(u, t)' /\ LeavesToCloser(t, u)'
    <3>1. \A u \in Threads : Waits(u)' => stream'[u] # NoStream
      BY StdioAssumption DEF Waits, StreamShape, CallShape
    <3> QED
      BY <2>2, <3>1 DEF LeavesToCloser, Waits
  <2> QED
    BY <2>1, <2>2, <2>4, <2>6, <2>7, LocksWithin DEF Using
<1>7. ASSUME NEW s \in Streams, HostTransfer(t, s)
      PROVE  LocksInv'
  <2>1. /\ pc[t] = "out" /\ published[s] /\ (Closing(s) => held[t][s] > 0)
        /\ UNCHANGED <<open, standard, held, published, nested, tracked>>
        /\ op' = [op EXCEPT ![t] = "fputs"] /\ stream' = [stream EXCEPT ![t] = s]
        /\ pc' = [pc EXCEPT ![t] = "wrote"]
    BY <1>7 DEF HostTransfer, MayCall, Begin, Goto
  <2>2. OnlyMoves(t) /\ pc'[t] = "wrote" /\ op'[t] = "fputs" /\ stream'[t] = s
    BY <2>1 DEF OnlyMoves, StreamShape
  <2>3. \A r \in Streams : StreamIsOwn(r)'
    BY <1>2, <2>1, <2>2, OwnKept
  <2>4. ~nested[t] /\ ~nested'[t] /\ Guards(t)' = 0
    BY <2>1, <2>2, PlaceFacts DEF Guards, Working
  <2>5. LevelsOf(t)' /\ Lockless(t)'
    BY <1>0, <2>1, <2>2, <2>4, LevelFacts DEF LevelsOf, Lockless
  <2>6. \A u \in Threads \ {t} : LeavesToCloser(u, t)' /\ LeavesToCloser(t, u)'
    BY <2>1, <2>2 DEF LeavesToCloser, Waits, Closing, OnlyMoves
  <2> QED
    BY <2>1, <2>2, <2>3, <2>5, <2>6, LocksWithin
<1> QED
  BY <1>4, <1>5, <1>6, <1>7

(* The host opens a stream.                                                *)
LEMMA FopenKeepsLocks ==
  ASSUME ~ReusedEarly, StreamShape, StreamShape', LocksInv, NEW t \in Threads, NEW s \in Streams,
         Fopen(t, s)
  PROVE  LocksInv'
<1>1. /\ pc[t] = "out" /\ s \notin standard /\ ~open[s]
      /\ \A u \in Threads : ~(op[u] = "fclose" /\ pc[u] # "out" /\ stream[u] = s)
      /\ open' = [open EXCEPT ![s] = TRUE]
      /\ op' = [op EXCEPT ![t] = "fopen"] /\ stream' = [stream EXCEPT ![t] = s]
      /\ pc' = [pc EXCEPT ![t] = "opened"]
      /\ UNCHANGED <<standard, tracked, published, held, nested>>
  BY DEF Fopen, Begin, Goto, InCallOn
<1>2. OnlyMoves(t) /\ pc'[t] = "opened" /\ op'[t] = "fopen" /\ stream'[t] = s /\ open'[s]
  BY <1>1 DEF OnlyMoves, StreamShape
<1>3. ~published[s] /\ \A u \in Threads : ~(pc[u] = "closed" /\ stream[u] = s)
  BY <1>1, PlaceFacts DEF LocksInv, StreamIsOwn
<1>4. \A r \in Streams : StreamIsOwn(r)'
  <2> TAKE r \in Streams
  <2>1. StreamIsOwn(r) /\ StateOf(r)' = StateOf(r) /\ (open[r] => open'[r])
    BY <1>1 DEF LocksInv, StateOf, StreamShape
  <2>2. (\E u \in Threads : pc[u] = "closed" /\ stream[u] = r)
          => (\E u \in Threads : pc[u] = "closed" /\ stream[u] = r)'
    BY <1>1, <1>2 DEF OnlyMoves
  <2> QED
    BY <1>1, <2>1, <2>2 DEF StreamIsOwn
<1>5. ~nested[t] /\ ~nested'[t] /\ Guards(t)' = 0
  BY <1>1, <1>2, PlaceFacts DEF Guards, Working
<1>6. LevelsOf(t)' /\ Lockless(t)'
  BY <1>1, <1>2, <1>5, LevelFacts, StdioAssumption DEF LevelsOf, Lockless
<1>7. \A u \in Threads \ {t} : LeavesToCloser(u, t)' /\ LeavesToCloser(t, u)'
  <2>1. \A u \in Threads : Waits(u) => stream[u] # s
    BY <1>3 DEF LocksInv, UsedArePublished, Using, Waits
  <2> QED
    BY <1>2, <2>1 DEF LeavesToCloser, Waits, OnlyMoves
<1>8. \A u \in Threads : op[u] = "fopen" => open[stream[u]] /\ stream[u] \in Streams /\ stream[u] # s
  BY <1>1, PlaceFacts DEF LocksInv, OpenersAreAlone, OpensUnpublished
<1>9. OpensUnpublished(t)' /\ \A u \in Threads \ {t} : OpensUnpublished(u)'
  <2>1. OpensUnpublished(t)'
    BY <1>1, <1>2, <1>3 DEF OpensUnpublished
  <2>2. ASSUME NEW u \in Threads \ {t}
        PROVE  OpensUnpublished(u)'
    <3>1. OpensUnpublished(u)
      BY DEF LocksInv, OpenersAreAlone
    <3>2. op'[u] = op[u] /\ stream'[u] = stream[u]
      BY <1>2 DEF OnlyMoves
    <3>3. op[u] = "fopen" => open'[stream[u]]
      BY <1>1, <1>8 DEF StreamShape
    <3> QED
      BY <1>1, <3>1, <3>2, <3>3 DEF OpensUnpublished
  <2> QED
    BY <2>1, <2>2
<1>10. \A u \in Threads \ {t} : LeavesToOpener(u, t)' /\ LeavesToOpener(t, u)'
  BY <1>2, <1>3, <1>8 DEF LeavesToOpener, OnlyMoves
<1>11. \A u \in Threads : pc'[u] = "closed" => ~published'[stream'[u]]
  BY <1>1, <1>2 DEF LocksInv, ClosedAreDone, OnlyMoves
<1> QED
  BY <1>1, <1>2, <1>4, <1>6, <1>7, <1>9, <1>10, <1>11, LocksStep DEF Using

(* The host closes a stream: nobody else is at work on it.                 *)
LEMMA CloserFacts ==
  ASSUME StreamShape, LocksInv, NEW t \in Threads, HostClose(t)
  PROVE  /\ stream[t] \in Streams /\ published[stream[t]] /\ StateOf(stream[t]).owner = t
         /\ \A u \in Threads \ {t} : stream[u] = stream[t] => pc[u] = "notifying"
<1>1. /\ pc[t] = "locked" /\ op[t] = "fclose" /\ stream[t] \in Streams /\ published[stream[t]]
  BY PlaceFacts DEF HostClose, LocksInv, UsedArePublished, Using
<1>2. Guards(t) = 1
  BY <1>1, PlaceFacts DEF Guards, Working
<1>3. held[t][stream[t]] > 0
  <2>1. held[t][stream[t]] \in Nat /\ Guards(t) <= held[t][stream[t]]
    BY <1>1, LevelFacts
  <2> QED
    BY <1>2, <2>1
<1>4. StateOf(stream[t]).owner = t
  BY <1>1, <1>3, LevelFacts
<1>5. ASSUME NEW u \in Threads \ {t}, stream[u] = stream[t]
      PROVE  pc[u] = "notifying"
  <2>1. ~(held[u][stream[t]] > 0)
    BY <1>1, <1>4, LevelFacts
  <2> QED
    BY <1>1, <1>5, <2>1 DEF LocksInv, ClosersAreAlone, LeavesToCloser, Waits
<1> QED
  BY <1>1, <1>4, <1>5

LEMMA HostCloseKeepsLocks ==
  ASSUME StreamShape, StreamShape', LocksInv, NEW t \in Threads, HostClose(t)
  PROVE  LocksInv'
<1> DEFINE s == stream[t]
<1>1. /\ s \in Streams /\ published[s] /\ StateOf(s).owner = t
      /\ \A u \in Threads \ {t} : stream[u] = s => pc[u] = "notifying"
  BY CloserFacts
<1>2. /\ pc[t] = "locked" /\ op[t] = "fclose"
      /\ open' = [open EXCEPT ![s] = FALSE] /\ published' = [published EXCEPT ![s] = FALSE]
      /\ held' = [u \in Threads |-> [held[u] EXCEPT ![s] = 0]]
      /\ pc' = [pc EXCEPT ![t] = "closed"]
      /\ UNCHANGED <<standard, tracked, op, stream, nested>>
  BY DEF HostClose, Goto
<1>3. /\ OnlyMoves(t) /\ pc'[t] = "closed"
      /\ ~published'[s]
      /\ \A r \in Streams \ {s} : published'[r] = published[r] /\ open'[r] = open[r]
      /\ \A u \in Threads : held'[u][s] = 0 /\ \A r \in Streams \ {s} : held'[u][r] = held[u][r]
  BY <1>1, <1>2 DEF OnlyMoves, StreamShape
<1>4. ASSUME NEW u \in Threads
      PROVE  LevelsOf(u)' /\ Lockless(u)'
  <2>1. LevelsOf(u) /\ Lockless(u) /\ MaxDepth \in Nat
    BY StdioAssumption DEF LocksInv
  <2>2. stream[u] = s => Guards(u)' = 0
    <3>1. u = t => Guards(u)' = 0
      BY <1>2, <1>3, PlaceFacts DEF Guards, Working
    <3>2. u # t /\ stream[u] = s => ~nested[u] /\ pc[u] = "notifying"
      BY <1>1, LevelFacts
    <3>3. u # t /\ stream[u] = s => Guards(u)' = 0
      BY <1>2, <1>3, <3>2 DEF Guards, Working, OnlyMoves
    <3> QED
      BY <3>1, <3>3
  <2>3. stream[u] # s => Guards(u)' = Guards(u)
    BY <1>2, <1>3 DEF Guards, OnlyMoves
  <2>4. LevelsOf(u)'
    BY <1>2, <1>3, <2>1, <2>2, <2>3 DEF LevelsOf
  <2>5. Lockless(u)'
    <3>1. u # t => pc'[u] = pc[u]
      BY <1>3 DEF OnlyMoves
    <3>2. pc[u] \in {"blocked", "notifying"} => stream[u] \in Streams
      BY PlaceFacts
    <3> QED
      BY <1>2, <1>3, <2>1, <3>1, <3>2 DEF Lockless
  <2> QED
    BY <2>4, <2>5
<1>5. \A r \in Streams : StreamIsOwn(r)'
  <2> TAKE r \in Streams
  <2>1. StreamIsOwn(r) /\ StateOf(r)' = StateOf(r)
    BY <1>2 DEF LocksInv, StateOf
  <2>2. (\E u \in Threads : pc[u] = "closed" /\ stream[u] = r)
          => (\E u \in Threads : pc[u] = "closed" /\ stream[u] = r)'
    BY <1>2, <1>3 DEF OnlyMoves
  <2>3. CASE r = s
    BY <1>2, <1>3, <2>3 DEF StreamIsOwn
  <2>4. CASE r # s
    BY <1>2, <1>3, <2>1, <2>2, <2>4 DEF StreamIsOwn
  <2> QED
    BY <2>3, <2>4
<1>6. \A u \in Threads : Using(u)' => u # t /\ stream[u] # s /\ stream[u] \in Streams /\ Using(u)
  BY <1>1, <1>2, <1>3, PlaceFacts DEF Using, OnlyMoves
<1>7. UsedArePublished'
  BY <1>2, <1>3, <1>6 DEF LocksInv, UsedArePublished
<1>8. ClosersAreAlone'
  <2> SUFFICES ASSUME NEW v \in Threads, NEW u \in Threads \ {v}, Waits(v)', stream'[u] = stream'[v]
               PROVE  held'[u][stream'[v]] > 0 \/ pc'[u] = "notifying"
    BY DEF ClosersAreAlone, LeavesToCloser
  <2>1. v # t /\ stream[v] # s /\ stream[v] \in Streams /\ Waits(v)
    BY <1>2, <1>3, <1>6 DEF Waits, Using, OnlyMoves
  <2>2. held[u][stream[v]] > 0 \/ pc[u] = "notifying"
    BY <1>2, <2>1 DEF LocksInv, ClosersAreAlone, LeavesToCloser
  <2> QED
    BY <1>2, <1>3, <2>1, <2>2 DEF OnlyMoves
<1>9. OpenersAreAlone'
  <2>1. ASSUME NEW v \in Threads, op'[v] = "fopen"
        PROVE  /\ v # t /\ op[v] = "fopen" /\ OpensUnpublished(v) /\ stream'[v] = stream[v]
               /\ stream[v] # s /\ stream[v] \in Streams
    <3>1. op[v] = "fopen" /\ OpensUnpublished(v) /\ stream[v] \in Streams
      BY <1>2, <2>1, PlaceFacts DEF LocksInv, OpenersAreAlone
    <3> QED
      BY <1>1, <1>2, <3>1 DEF OpensUnpublished
  <2>2. ASSUME NEW v \in Threads
        PROVE  OpensUnpublished(v)'
    BY <1>2, <1>3, <2>1 DEF OpensUnpublished
  <2>3. ASSUME NEW v \in Threads, NEW u \in Threads \ {v}
        PROVE  LeavesToOpener(u, v)'
    <3>1. LeavesToOpener(u, v)
      BY DEF LocksInv, OpenersAreAlone
    <3>2. op'[v] = "fopen" => v # t /\ stream[v] # s
      BY <2>1
    <3> QED
      BY <1>2, <1>3, <3>1, <3>2 DEF LeavesToOpener, OnlyMoves
  <2> QED
    BY <2>2, <2>3 DEF OpenersAreAlone
<1>10. OpenersAreAlone' /\ ClosedAreDone'
  <2>1. ASSUME NEW u \in Threads, pc'[u] = "closed"
        PROVE  ~published'[stream'[u]]
    <3>1. CASE u = t
      BY <1>2, <1>3, <3>1
    <3>2. CASE u # t
      <4>1. pc[u] = "closed" /\ ~published[stream[u]] /\ stream[u] \in Streams
        BY <1>3, <2>1, <3>2, PlaceFacts DEF OnlyMoves, LocksInv, ClosedAreDone
      <4> QED
        BY <1>1, <1>2, <1>3, <4>1
    <3> QED
      BY <3>1, <3>2
  <2> QED
    BY <1>9, <2>1 DEF ClosedAreDone
<1> QED
  BY <1>4, <1>5, <1>7, <1>8, <1>10 DEF LocksInv

(* An address that was opened has left no trace in the registry when it is *)
(* handed out.                                                             *)
LEMMA OpenedIsUntracked ==
  ASSUME StreamShape, LocksInv, NEW t \in Threads, op[t] = "fopen"
  PROVE  /\ stream[t] \in Streams /\ tracked[stream[t]] = Untracked
         /\ pc[t] \in {"opened", "notifying"} /\ ~nested[t]
         /\ open[stream[t]] /\ ~published[stream[t]] /\ stream[t] \notin standard
         /\ \A u \in Threads \ {t} : stream[u] = stream[t] => op[u] # "fopen" /\ pc[u] # "closed"
<1>1. stream[t] \in Streams /\ pc[t] \in {"opened", "notifying"} /\ ~nested[t]
  BY DEF StreamShape, CallShape
<1>2. /\ open[stream[t]] /\ ~published[stream[t]] /\ stream[t] \notin standard
      /\ \A u \in Threads \ {t} : stream[u] = stream[t] => op[u] # "fopen" /\ pc[u] # "closed"
  BY DEF LocksInv, OpenersAreAlone, OpensUnpublished, LeavesToOpener
<1>3. tracked[stream[t]] = Untracked
  BY <1>1, <1>2 DEF LocksInv, StreamIsOwn
<1> QED
  BY <1>1, <1>2, <1>3

LEMMA PublishKeepsLocks ==
  ASSUME StreamShape, StreamShape', LocksInv, NEW t \in Threads, op[t] = "fopen", Return(t),
         UNCHANGED <<tracked, held, open, standard>>
  PROVE  LocksInv'
<1> DEFINE s == stream[t]
<1>1. /\ s \in Streams /\ tracked[s] = Untracked /\ pc[t] \in {"opened", "notifying"} /\ ~nested[t]
      /\ open[s] /\ ~published[s]
      /\ \A u \in Threads \ {t} : stream[u] = s => op[u] # "fopen" /\ pc[u] # "closed"
  BY OpenedIsUntracked
<1>2. /\ pc' = [pc EXCEPT ![t] = "out"] /\ op' = [op EXCEPT ![t] = "none"]
      /\ stream' = [stream EXCEPT ![t] = NoStream] /\ nested' = nested
      /\ published' = [published EXCEPT ![s] = TRUE]
  BY <1>1 DEF Return, Goto
<1>3. /\ OnlyMoves(t) /\ pc'[t] = "out" /\ op'[t] = "none" /\ stream'[t] = NoStream /\ ~nested'[t]
      /\ published'[s] /\ \A r \in Streams \ {s} : published'[r] = published[r]
  BY <1>1, <1>2 DEF OnlyMoves, StreamShape
<1>4. \A r \in Streams : StreamIsOwn(r)'
  <2> TAKE r \in Streams
  <2>1. StreamIsOwn(r) /\ StateOf(r)' = StateOf(r)
    BY DEF LocksInv, StateOf
  <2>2. (\E u \in Threads : pc[u] = "closed" /\ stream[u] = r)
          => (\E u \in Threads : pc[u] = "closed" /\ stream[u] = r)'
    BY <1>1, <1>3 DEF OnlyMoves
  <2>3. CASE r = s
    <3>1. StateOf(r)'.owner = NoThread
      <4>1. StateOf(r) = FreshState
        BY <1>1, <2>3 DEF StateOf
      <4> QED
        BY <2>1, <4>1, FreshFacts
    <3> QED
      BY <1>1, <1>3, <2>1, <2>3, <3>1, StdioAssumption DEF StreamIsOwn
  <2>4. CASE r # s
    BY <1>3, <2>1, <2>2, <2>4 DEF StreamIsOwn
  <2> QED
    BY <2>3, <2>4
<1>5. Guards(t)' = 0 /\ Guards(t) = 0
  BY <1>1, <1>3 DEF Guards, Working
<1>6. LevelsOf(t)' /\ Lockless(t)'
  BY <1>3, <1>5, LevelFacts, StdioAssumption DEF LevelsOf, Lockless
<1>7. \A u \in Threads \ {t} : LeavesToCloser(u, t)' /\ LeavesToCloser(t, u)'
  <2>1. \A u \in Threads : Waits(u)' => stream'[u] # NoStream
    BY StdioAssumption DEF Waits, StreamShape, CallShape
  <2> QED
    BY <1>3, <2>1 DEF LeavesToCloser, Waits
<1>8. OpensUnpublished(t)'
  BY <1>3 DEF OpensUnpublished
<1>9. \A u \in Threads \ {t} : OpensUnpublished(u)'
  <2> TAKE u \in Threads \ {t}
  <2>1. OpensUnpublished(u) /\ (op[u] = "fopen" => stream[u] # s /\ stream[u] \in Streams)
    BY <1>1, PlaceFacts DEF LocksInv, OpenersAreAlone
  <2> QED
    BY <1>3, <2>1 DEF OpensUnpublished, OnlyMoves
<1>10. \A u \in Threads \ {t} : LeavesToOpener(u, t)' /\ LeavesToOpener(t, u)'
  BY <1>3 DEF LeavesToOpener
<1>11. \A u \in Threads : pc'[u] = "closed" => ~published'[stream'[u]]
  <2> SUFFICES ASSUME NEW u \in Threads, pc'[u] = "closed"
               PROVE  ~published'[stream'[u]]
    OBVIOUS
  <2>1. u # t /\ pc[u] = "closed" /\ stream'[u] = stream[u]
    BY <1>3 DEF OnlyMoves
  <2>2. stream[u] \in Streams /\ stream[u] # s /\ ~published[stream[u]]
    BY <1>1, <2>1, PlaceFacts DEF LocksInv, ClosedAreDone
  <2> QED
    BY <1>3, <2>1, <2>2
<1> QED
  BY <1>2, <1>3, <1>4, <1>6, <1>7, <1>8, <1>9, <1>10, <1>11, LocksStep DEF Using, StreamShape

LEMMA ClearKeepsLocks ==
  ASSUME StreamShape, StreamShape', LocksInv, NEW t \in Threads, ClearTracking(t)
  PROVE  LocksInv'
<1> DEFINE s == stream[t]
<1>1. /\ s \in Streams /\ pc[t] \in {"closed", "opened"} /\ op[t] \in {"fclose", "fopen"}
      /\ ~nested[t] /\ Guards(t) = 0 /\ UNCHANGED <<open, standard, held>>
      /\ (pc[t] = "closed" <=> op[t] = "fclose")
  BY PlaceFacts, LevelFacts DEF ClearTracking, host
<1>2. CASE tracked[s] # Untracked
  <2>1. op[t] = "fclose" /\ pc[t] = "closed" /\ ~published[s]
    BY <1>1, <1>2, OpenedIsUntracked DEF LocksInv, ClosedAreDone
  <2>2. /\ tracked' = [tracked EXCEPT ![s] = Untracked] /\ pc' = [pc EXCEPT ![t] = "notifying"]
        /\ UNCHANGED <<op, stream, nested, published>>
    BY <1>2 DEF ClearTracking, Goto
  <2>3. OnlyMoves(t) /\ pc'[t] = "notifying"
    BY <2>2 DEF OnlyMoves, StreamShape
  <2>4. \A r \in Streams : StreamIsOwn(r)'
    <3> TAKE r \in Streams
    <3>1. StreamIsOwn(r)
      BY DEF LocksInv
    <3>2. CASE r = s
      BY <1>1, <2>1, <2>2, <3>1, <3>2 DEF StreamIsOwn, StreamShape
    <3>3. CASE r # s
      <4>1. tracked'[r] = tracked[r] /\ StateOf(r)' = StateOf(r)
        BY <2>2, <3>3 DEF StateOf, StreamShape
      <4>2. (\E u \in Threads : pc[u] = "closed" /\ stream[u] = r)
              => (\E u \in Threads : pc[u] = "closed" /\ stream[u] = r)'
        BY <2>3, <3>3 DEF OnlyMoves
      <4> QED
        BY <1>1, <2>2, <3>1, <4>1, <4>2 DEF StreamIsOwn
    <3> QED
      BY <3>2, <3>3
  <2>5. Guards(t)' = 0 /\ held[t][s] = 0
    BY <1>1, <2>1, <2>2, <2>3 DEF Guards, Working, LocksInv, StreamIsOwn
  <2>6. LevelsOf(t)' /\ Lockless(t)'
    BY <1>1, <2>2, <2>3, <2>5, LevelFacts, StdioAssumption DEF LevelsOf, Lockless
  <2>7. \A u \in Threads \ {t} : LeavesToCloser(u, t)' /\ LeavesToCloser(t, u)'
    BY <2>3 DEF LeavesToCloser, Waits
  <2> QED
    BY <1>1, <2>1, <2>2, <2>3, <2>4, <2>6, <2>7, LocksWithin DEF Using
<1>3. CASE tracked[s] = Untracked /\ op[t] = "fclose"
  <2>1. Return(t) /\ tracked' = tracked /\ ~published[s] /\ pc[t] = "closed"
    BY <1>1, <1>3 DEF ClearTracking, LocksInv, ClosedAreDone
  <2>2. OnlyMoves(t) /\ published' = published
    BY <1>3, <2>1 DEF OnlyMoves, Return, Goto, StreamShape
  <2>3. \A r \in Streams : StreamIsOwn(r)'
    <3> TAKE r \in Streams
    <3>1. StreamIsOwn(r) /\ StateOf(r)' = StateOf(r)
      BY <2>1 DEF LocksInv, StateOf
    <3>2. CASE r = s
      BY <1>1, <1>3, <2>1, <2>2, <3>1, <3>2 DEF StreamIsOwn
    <3>3. CASE r # s
      <4>1. (\E u \in Threads : pc[u] = "closed" /\ stream[u] = r)
              => (\E u \in Threads : pc[u] = "closed" /\ stream[u] = r)'
        BY <2>2, <3>3 DEF OnlyMoves
      <4> QED
        BY <1>1, <2>1, <2>2, <3>1, <4>1 DEF StreamIsOwn
    <3> QED
      BY <3>2, <3>3
  <2>4. \A r \in Streams : 0 <= held'[t][r] /\ held'[t][r] <= MaxDepth
    BY <1>1, LevelFacts, StdioAssumption
  <2> QED
    BY <1>1, <1>3, <2>1, <2>3, <2>4, QuietReturn
<1>4. CASE tracked[s] = Untracked /\ op[t] = "fopen"
  BY <1>1, <1>4, PublishKeepsLocks DEF ClearTracking
<1> QED
  BY <1>1, <1>2, <1>3, <1>4

LEMMA StepLocks ==
  ASSUME ~ReusedEarly, StreamShape, StreamShape', LocksInv, [Next]_vars
  PROVE  LocksInv'
<1>1. ASSUME NEW t \in Threads, NEW s \in Streams, ClientCall(t, s)
      PROVE  LocksInv'
  BY <1>1, LockCallsKeepLocks, QuietKeepsLocks, FopenKeepsLocks DEF ClientCall
<1>2. ASSUME NEW t \in Threads, Progress(t)
      PROVE  LocksInv'
  <2>1. Notify(t) /\ op[t] = "fopen" => LocksInv'
    BY PublishKeepsLocks DEF Notify, host
  <2>2. WorkStep(t) => LocksInv'
    BY WorkFacts, WorkKeepsLocks
  <2> QED
    BY <1>2, <2>1, <2>2, LockCallsKeepLocks, QuietKeepsLocks, ReleaseKeepsLocks, HostCloseKeepsLocks,
       ClearKeepsLocks
    DEF Progress, WorkStep
<1>3. ASSUME NEW t \in Threads, MarkAll(t)
      PROVE  LocksInv'
  BY <1>3, QuietKeepsLocks
<1>4. ASSUME UNCHANGED <<standard, open, tracked, call, clients>>
      PROVE  LocksInv'
  <2>1. /\ \A t \in Threads : LevelsOf(t)' /\ Lockless(t)'
        /\ \A s \in Streams : StreamIsOwn(s)'
    BY <1>4 DEF call, clients, LocksInv, LevelsOf, Guards, Lockless, StreamIsOwn, StateOf
  <2>2. UsedArePublished' /\ ClosersAreAlone' /\ OpenersAreAlone' /\ ClosedAreDone'
    BY <1>4
    DEF call, clients, LocksInv, UsedArePublished, Using, ClosersAreAlone, LeavesToCloser, Waits,
        OpenersAreAlone, OpensUnpublished, LeavesToOpener, ClosedAreDone
  <2> QED
    BY <2>1, <2>2 DEF LocksInv
<1>5. ASSUME NEW t \in Threads, SpuriousWake(t)
      PROVE  LocksInv'
  BY <1>4, <1>5 DEF SpuriousWake, host
<1>6. ASSUME NEW s \in Streams, Relink(s)
      PROVE  LocksInv'
  BY <1>4, <1>6 DEF Relink
<1>7. CASE UNCHANGED vars
  BY <1>4, <1>7 DEF vars, host
<1> QED
  BY <1>1, <1>2, <1>3, <1>5, <1>6, <1>7 DEF Next

LEMMA InitLocks == Init => StreamShape /\ LocksInv
<1> SUFFICES ASSUME Init
             PROVE  StreamShape /\ LocksInv
  OBVIOUS
<1>1. StreamShape
  <2>1. \A t \in Threads : CallShape(t)
    BY DEF Init, CallShape, Working
  <2> QED
    BY <2>1 DEF Init, StreamShape, Places, Calls
<1>2. \A t \in Threads : LevelsOf(t) /\ Lockless(t)
  BY StdioAssumption DEF Init, LevelsOf, Lockless, Guards, Working
<1>3. \A s \in Streams : StreamIsOwn(s)
  <2>1. \A s \in Streams : StateOf(s).owner = NoThread
    BY FreshFacts DEF Init, StateOf
  <2> QED
    BY <2>1, StdioAssumption DEF Init, StreamIsOwn
<1>4. UsedArePublished /\ ClosersAreAlone /\ OpenersAreAlone /\ ClosedAreDone
  BY DEF Init, UsedArePublished, Using, ClosersAreAlone, LeavesToCloser, Waits, OpenersAreAlone,
         OpensUnpublished, LeavesToOpener, ClosedAreDone
<1> QED
  BY <1>1, <1>2, <1>3, <1>4 DEF LocksInv

(* Whether or not a program has the stream, its lock is at most as deep as *)
(* clients and the calls' own guards can make it.                          *)
DepthsAreBounded ==
  \A s \in Streams : tracked[s] # Untracked => tracked[s].depth <= MaxDepth + 2

DepthOfPublished ==
  \A s \in Streams : published[s] /\ tracked[s] # Untracked => tracked[s].depth <= MaxDepth + 2

LEMMA PublishedDepth == StreamShape /\ LocksInv => DepthOfPublished
<1> SUFFICES ASSUME StreamShape, LocksInv, NEW s \in Streams, published[s], tracked[s] # Untracked
             PROVE  tracked[s].depth <= MaxDepth + 2
  BY DEF DepthOfPublished
<1>1. /\ tracked[s] = StateOf(s) /\ StateOf(s).depth \in Nat /\ MaxDepth \in Nat
      /\ StateOf(s).owner = NoThread <=> StateOf(s).depth = 0
      /\ StateOf(s).owner \in Threads \cup {NoThread}
  BY StateFacts, FieldFacts, StdioAssumption
<1>2. CASE StateOf(s).owner = NoThread
  BY <1>1, <1>2
<1>3. CASE StateOf(s).owner # NoThread
  <2>1. PICK t \in Threads : StateOf(s).owner = t
    BY <1>1, <1>3
  <2>2. held[t][s] = StateOf(s).depth
    BY <2>1 DEF LocksInv, StreamIsOwn
  <2>3. LevelsOf(t)
    BY DEF LocksInv
  <2>4. Guards(t) \in {0, 1, 2}
    BY DEF Guards
  <2> QED
    BY <1>1, <2>2, <2>3, <2>4 DEF LevelsOf
<1> QED
  BY <1>2, <1>3

(* What a step can do to a stream that no program has afterwards.          *)
LEMMA UnpublishedLocks ==
  ASSUME StreamShape, LocksInv, [Next]_vars, NEW s \in Streams, ~published'[s]
  PROVE  tracked'[s] = Untracked \/ tracked'[s].depth = StateOf(s).depth
<1> USE DEF host, call, clients
<1>1. ASSUME tracked' = tracked
      PROVE  tracked'[s] = Untracked \/ tracked'[s].depth = StateOf(s).depth
  BY <1>1, StateFacts
<1>2. ASSUME NEW r \in Streams, NEW new, published'[r], tracked' = [tracked EXCEPT ![r] = new]
      PROVE  tracked'[s] = Untracked \/ tracked'[s].depth = StateOf(s).depth
  BY <1>2, StateFacts DEF StreamShape
<1>3. ASSUME NEW r \in Streams, published[r], published' = published,
             \E t \in Threads : LockPass(t, r) \/ TakeLock(t, r) \/ UnlockPass(t, r)
      PROVE  tracked'[s] = Untracked \/ tracked'[s].depth = StateOf(s).depth
  BY <1>1, <1>2, <1>3 DEF LockPass, WaitForLock, TakeLock, UnlockPass, Track
<1>4. ASSUME NEW t \in Threads, NEW r \in Streams, ClientCall(t, r)
      PROVE  tracked'[s] = Untracked \/ tracked'[s].depth = StateOf(s).depth
  <2>1. CASE Fopen(t, r) \/ HostTransfer(t, r)
    BY <1>1, <2>1 DEF Fopen, HostTransfer
  <2>2. CASE ~(Fopen(t, r) \/ HostTransfer(t, r))
    <3>1. /\ published[r] /\ published' = published
          /\ LockPass(t, r) \/ TakeLock(t, r) \/ UnlockPass(t, r)
      BY <1>4, <2>2
      DEF ClientCall, Flockfile, Ftrylockfile, Funlockfile, Fclose, Guarded, MayCall
    <3> QED
      BY <1>3, <3>1
  <2> QED
    BY <2>1, <2>2
<1>5. ASSUME NEW t \in Threads, Recontend(t) \/ NestedFlush(t) \/ Release(t)
      PROVE  tracked'[s] = Untracked \/ tracked'[s].depth = StateOf(s).depth
  <2>1. pc[t] \in {"blocked", "flush_next", "releasing"} /\ (pc[t] = "releasing" => op[t] # "fopen")
    BY <1>5, PlaceFacts DEF Recontend, NestedFlush, Release
  <2>2. stream[t] \in Streams /\ published[stream[t]]
    BY <2>1, PlaceFacts DEF LocksInv, UsedArePublished, Using
  <2>3. published' = published
    BY <1>5, <2>1 DEF Recontend, NestedFlush, Release, Return
  <2> QED
    BY <1>3, <1>5, <2>2, <2>3 DEF Recontend, NestedFlush, Release
<1>6. ASSUME NEW t \in Threads, WorkStep(t)
      PROVE  tracked'[s] = Untracked \/ tracked'[s].depth = StateOf(s).depth
  <2>1. Works(t)
    BY <1>6, WorkFacts
  <2>2. stream[t] \in Streams /\ published'[stream[t]]
    BY <2>1 DEF Works, Working, LocksInv, UsedArePublished, Using
  <2> QED
    BY <1>1, <1>2, <2>1, <2>2 DEF Works
<1>7. ASSUME NEW t \in Threads, MarkTransfer(t)
      PROVE  tracked'[s] = Untracked \/ tracked'[s].depth = StateOf(s).depth
  <2>1. stream[t] \in Streams /\ published[stream[t]] /\ published' = published
    BY <1>7, PlaceFacts DEF MarkTransfer, Return, LocksInv, UsedArePublished, Using
  <2> QED
    BY <1>2, <1>7, <2>1 DEF MarkTransfer, Track
<1>8. ASSUME NEW t \in Threads, ClearTracking(t)
      PROVE  tracked'[s] = Untracked \/ tracked'[s].depth = StateOf(s).depth
  <2>1. \/ tracked' = tracked
        \/ stream[t] \in Streams /\ tracked' = [tracked EXCEPT ![stream[t]] = Untracked]
    BY <1>8, PlaceFacts DEF ClearTracking
  <2>2. CASE tracked' = tracked
    BY <1>1, <2>2
  <2>3. CASE tracked' # tracked
    BY <2>1, <2>3, StateFacts DEF StreamShape
  <2> QED
    BY <2>2, <2>3
<1>9. ASSUME NEW t \in Threads, MarkAll(t)
      PROVE  tracked'[s] = Untracked \/ tracked'[s].depth = StateOf(s).depth
  BY <1>9, MarkFacts DEF MarkAll, LockOf
<1>10. ASSUME NEW t \in Threads,
              \/ FlockfileReturn(t) \/ Notify(t) \/ HostClose(t) \/ HostFlushAll(t) \/ SpuriousWake(t)
       PROVE  tracked'[s] = Untracked \/ tracked'[s].depth = StateOf(s).depth
  BY <1>1, <1>10 DEF FlockfileReturn, Notify, HostClose, HostFlushAll, SpuriousWake
<1>11. CASE UNCHANGED vars \/ \E r \in Streams : Relink(r)
  BY <1>1, <1>11 DEF vars, Relink
<1> QED
  BY <1>4, <1>5, <1>6, <1>7, <1>8, <1>9, <1>10, <1>11 DEF Next, Progress, WorkStep

LEMMA StepDepths ==
  ASSUME StreamShape, StreamShape', LocksInv, LocksInv', DepthsAreBounded, [Next]_vars
  PROVE  DepthsAreBounded'
<1> SUFFICES ASSUME NEW s \in Streams, tracked'[s] # Untracked
             PROVE  tracked'[s].depth <= MaxDepth + 2
  BY DEF DepthsAreBounded
<1>1. CASE published'[s]
  <2>1. DepthOfPublished'
    BY PublishedDepth, PTL
  <2> QED
    BY <1>1, <2>1 DEF DepthOfPublished
<1>2. CASE ~published'[s]
  <2>1. tracked'[s].depth = StateOf(s).depth
    BY <1>2, UnpublishedLocks
  <2>2. StateOf(s) = FreshState => StateOf(s).depth <= MaxDepth + 2
    BY FreshFacts, StdioAssumption
  <2> QED
    BY <2>1, <2>2, StateFacts DEF DepthsAreBounded, StateOf
<1> QED
  BY <1>1, <1>2

(* FileLocksAreSound: every state of the registry is well-formed, and the  *)
(* owner and the depth it keeps of an open stream are those that the       *)
(* program's own calls and the guards of calls in progress make.           *)
LEMMA LocksAreSound == StreamShape /\ LocksInv /\ DepthsAreBounded => FileLocksAreSound
<1> SUFFICES ASSUME StreamShape, LocksInv, DepthsAreBounded
             PROVE  FileLocksAreSound
  OBVIOUS
<1>1. FileLockMatchesClients
  BY DEF FileLockMatchesClients, LocksInv, StreamIsOwn
<1>2. MaxDepth \in Nat
  BY StdioAssumption
<1>3. tracked \in [Streams -> StreamState \cup {Untracked}]
  <2>1. ASSUME NEW s \in Streams, tracked[s] # Untracked
        PROVE  tracked[s] \in StreamState
    <3>1. tracked[s] \in StreamStates /\ tracked[s].depth \in 0..MaxDepth + 2
      BY <1>2, <2>1, FieldFacts DEF StreamShape, DepthsAreBounded
    <3> QED
      BY <3>1 DEF StreamStates, StreamState
  <2> QED
    BY <2>1 DEF StreamShape
<1>4. \A s \in Streams : tracked[s] # Untracked => (tracked[s].owner = NoThread) = (tracked[s].depth = 0)
  BY FieldFacts DEF StreamShape
<1>5. held \in [Threads -> [Streams -> 0..MaxDepth + 2]]
  <2>1. ASSUME NEW t \in Threads, NEW s \in Streams
        PROVE  held[t][s] \in 0..MaxDepth + 2
    <3>1. LevelsOf(t) /\ held[t][s] \in Int /\ Guards(t) \in {0, 1, 2}
      BY DEF LocksInv, Guards, StreamShape
    <3> QED
      BY <1>2, <3>1 DEF LevelsOf
  <2>2. held \in [Threads -> [Streams -> Int]]
    BY DEF StreamShape
  <2> QED
    BY <2>1, <2>2
<1>6. StreamTypeOK
  BY <1>3, <1>4, <1>5 DEF StreamTypeOK, StreamShape
<1> QED
  BY <1>1, <1>6 DEF FileLocksAreSound

RegistryIInv == StreamShape /\ LocksInv /\ DepthsAreBounded

LEMMA InvariantLocks == ASSUME ~ReusedEarly PROVE Spec => []RegistryIInv
<1>1. Init => RegistryIInv
  BY InitLocks DEF RegistryIInv, Init, DepthsAreBounded
<1>2. RegistryIInv /\ [Next]_vars => RegistryIInv'
  BY StepShape, StepLocks, StepDepths DEF RegistryIInv
<1> QED
  BY <1>1, <1>2, PTL DEF Spec

(* FileLocksAreSound: the registry is well-formed, and the owner and depth *)
(* it keeps of an open stream are what flockfile, ftrylockfile and         *)
(* funlockfile granted, with the levels calls under way took themselves.   *)
THEOREM FileLocksSound == ASSUME ~ReusedEarly PROVE Spec => []FileLocksAreSound
<1>1. RegistryIInv => FileLocksAreSound
  BY LocksAreSound DEF RegistryIInv
<1> QED
  BY <1>1, InvariantLocks, PTL

(* An address becomes a program's only when fopen returns it.              *)
LEMMA OnlyFopenPublishes ==
  ASSUME StreamShape, LocksInv, [Next]_vars, NEW s \in Streams, ~published[s], published'[s]
  PROVE  \E t \in Threads : op[t] = "fopen" /\ stream[t] = s /\ Return(t) /\ tracked' = tracked
<1> USE DEF host, call, clients
<1>1. \A t \in Threads : Return(t) /\ op[t] # "fopen" => published' = published
  BY DEF Return
<1>2. ASSUME NEW t \in Threads, Return(t), tracked' = tracked
      PROVE  \E u \in Threads : op[u] = "fopen" /\ stream[u] = s /\ Return(u) /\ tracked' = tracked
  <2>1. op[t] = "fopen" /\ ~nested[t]
    BY <1>1, <1>2, PlaceFacts DEF Return
  <2>2. published' = [published EXCEPT ![stream[t]] = TRUE]
    BY <1>2, <2>1 DEF Return
  <2>3. stream[t] = s
    BY <2>2 DEF StreamShape
  <2> QED
    BY <1>2, <2>1, <2>3
<1>3. ASSUME NEW t \in Threads, \/ Notify(t) \/ FlockfileReturn(t) \/ HostFlushAll(t) \/ ClearTracking(t)
      PROVE  \E u \in Threads : op[u] = "fopen" /\ stream[u] = s /\ Return(u) /\ tracked' = tracked
  BY <1>2, <1>3 DEF Notify, FlockfileReturn, HostFlushAll, ClearTracking
<1>4. ASSUME NEW t \in Threads, \/ Release(t) \/ MarkTransfer(t) \/ WorkStep(t) \/ HostClose(t)
                                \/ Recontend(t) \/ NestedFlush(t) \/ MarkAll(t) \/ SpuriousWake(t)
      PROVE  FALSE
  <2>1. CASE Release(t) \/ MarkTransfer(t)
    <3>1. op[t] # "fopen"
      BY <2>1, PlaceFacts DEF Release, MarkTransfer
    <3> QED
      BY <1>1, <2>1, <3>1 DEF Release, MarkTransfer
  <2>2. CASE WorkStep(t)
    BY <2>2, WorkFacts DEF Works
  <2>3. CASE HostClose(t)
    BY <2>3 DEF HostClose, StreamShape
  <2> QED
    BY <1>4, <2>1, <2>2, <2>3 DEF Recontend, NestedFlush, MarkAll, SpuriousWake
<1>5. ASSUME NEW t \in Threads, NEW r \in Streams, ClientCall(t, r)
      PROVE  FALSE
  BY <1>5 DEF ClientCall, Flockfile, Ftrylockfile, Funlockfile, Fopen, Fclose, Guarded, HostTransfer
<1>6. UNCHANGED vars \/ (\E r \in Streams : Relink(r)) => FALSE
  BY DEF vars, Relink
<1> QED
  BY <1>3, <1>4, <1>5, <1>6 DEF Next, Progress, WorkStep

(* OpenedIsFresh: what fopen returns is an address of which the registry   *)
(* knows nothing, whatever the address was used for before.                *)
THEOREM OpenedStreamsAreFresh == ASSUME ~ReusedEarly PROVE Spec => OpenedIsFresh
<1>1. RegistryIInv /\ [Next]_vars
        => [\A s \in Streams : ~published[s] /\ published'[s] => tracked'[s] = Untracked]_vars
  <2> SUFFICES ASSUME StreamShape, LocksInv, [Next]_vars, NEW s \in Streams, ~published[s], published'[s]
               PROVE  tracked'[s] = Untracked
    BY DEF RegistryIInv
  <2> QED
    BY OnlyFopenPublishes, OpenedIsUntracked
<1> QED
  BY <1>1, InvariantLocks, PTL DEF Spec, OpenedIsFresh

---------------------------------------------------------------------------
(* Buffering.  What a state says of the I/O on its stream.                 *)
SameKnowledge(new, old) ==
  /\ new.io_active = old.io_active /\ new.host_backed = old.host_backed
  /\ new.identity = old.identity /\ new.explicit = old.explicit

BufferOK(s) ==
  /\ published[s] => BufferingOf(s)
  /\ ~published[s] => ~buffered[s]

KeepsExplicit(s) ==
  published[s] /\ published'[s] /\ StateOf(s).explicit => StateOf(s)'.explicit

KeepsBuffering(s) ==
  /\ published'[s] = published[s] /\ identity'[s] = identity[s]
  /\ SameKnowledge(StateOf(s)', StateOf(s))
  /\ used'[s] => used[s]
  /\ buffered'[s] => buffered[s]
  /\ Unreported(s) => Unreported(s)'

BufferingKept == BufferingInv' /\ \A s \in Streams : KeepsExplicit(s)

(* A step of one thread: what is left to show is about the streams of      *)
(* which it changes what is known.                                         *)
LEMMA BufferingStep ==
  ASSUME StreamShape, LocksInv, BufferingInv, NEW t \in Threads, OnlyMoves(t),
         \A s \in Streams : KeepsBuffering(s) \/ (BufferOK(s)' /\ KeepsExplicit(s)),
         \A s \in Streams :
           used'[s] => used[s] \/ published[s] \/ s \in standard \/ tracked[s] # Untracked,
         op'[t] = "fopen" => ~used'[stream'[t]]
  PROVE  BufferingKept
<1>1. ASSUME NEW s \in Streams
      PROVE  BufferOK(s)' /\ KeepsExplicit(s)
  <2>1. CASE KeepsBuffering(s)
    BY <2>1 DEF KeepsBuffering, SameKnowledge, BufferOK, KeepsExplicit, BufferingInv, BufferingOf
  <2> QED
    BY <2>1
<1>2. ASSUME NEW s \in Streams, NEW u \in Threads, op'[u] = "fopen", stream'[u] = s
      PROVE  ~used'[s]
  <2>1. CASE u = t
    BY <1>2, <2>1
  <2>2. CASE u # t
    <3>1. op[u] = "fopen" /\ stream[u] = s
      BY <1>2, <2>2 DEF OnlyMoves
    <3>2. ~used[s] /\ ~published[s] /\ s \notin standard /\ tracked[s] = Untracked
      BY <3>1, OpenedIsUntracked DEF BufferingInv
    <3> QED
      BY <3>2
  <2> QED
    BY <2>1, <2>2
<1> QED
  BY <1>1, <1>2 DEF BufferingKept, BufferingInv, BufferOK

(* One stream is concerned.                                                *)
Elsewhere(s) ==
  /\ published'[s] = published[s] /\ identity'[s] = identity[s] /\ tracked'[s] = tracked[s]
  /\ used'[s] = used[s] /\ buffered'[s] = buffered[s]

LEMMA BufferingAt ==
  ASSUME StreamShape, LocksInv, BufferingInv, NEW t \in Threads, NEW r \in Streams, OnlyMoves(t),
         pc[t] = "wrote" => stream[t] = r \/ (pc'[t] = "wrote" /\ stream'[t] = stream[t]),
         \A s \in Streams \ {r} : Elsewhere(s),
         KeepsBuffering(r) \/ (BufferOK(r)' /\ KeepsExplicit(r)),
         used'[r] => used[r] \/ published[r],
         op'[t] = "fopen" => ~used'[stream'[t]]
  PROVE  BufferingKept
<1>1. ASSUME NEW s \in Streams \ {r}
      PROVE  KeepsBuffering(s) /\ (used'[s] => used[s])
  <2>1. Unreported(s) => Unreported(s)'
    BY DEF Unreported, OnlyMoves
  <2>2. Elsewhere(s) /\ StateOf(s)' = StateOf(s)
    BY DEF Elsewhere, StateOf
  <2> QED
    BY <2>1, <2>2 DEF KeepsBuffering, Elsewhere, SameKnowledge
<1> QED
  BY <1>1, BufferingStep

(* Locks are taken and given back, and what is known of the I/O stays.     *)
LEMMA LockKeepsKnowledge ==
  ASSUME StreamShape, NEW t \in Threads, NEW s \in Streams,
         LockPass(t, s) \/ TakeLock(t, s) \/ UnlockPass(t, s)
  PROVE  /\ SameKnowledge(StateOf(s)', StateOf(s))
         /\ \A r \in Streams \ {s} : tracked'[r] = tracked[r]
<1>1. StateOf(s) \in StreamStates /\ FreshState \in StreamStates
  BY StateFacts, FreshFacts
<1>2. CASE tracked' = tracked
  BY <1>2 DEF SameKnowledge, StateOf
<1>3. CASE TakeLock(t, s)
  <2> DEFINE new == [StateOf(s) EXCEPT !.owner = t, !.depth = StateOf(s).depth + 1]
  <2>1. tracked' = [tracked EXCEPT ![s] = new]
    BY <1>3 DEF TakeLock, Track
  <2>2. SameKnowledge(new, StateOf(s)) /\ new.owner = t
    BY <1>1 DEF SameKnowledge, StreamStates
  <2> HIDE DEF new
  <2>3. tracked'[s] = new /\ \A r \in Streams \ {s} : tracked'[r] = tracked[r]
    BY <2>1 DEF StreamShape
  <2>4. StateOf(s)' = new
    BY <2>2, <2>3, FreshFacts, StdioAssumption DEF StateOf
  <2> QED
    BY <2>2, <2>3, <2>4
<1>4. CASE UnlockPass(t, s) /\ tracked[s].owner = t
  <2>1. tracked[s] = StateOf(s)
    BY <1>4, StateFacts, FreshFacts, StdioAssumption DEF StateOf
  <2> DEFINE freed == [tracked[s] EXCEPT !.owner = NoThread, !.depth = 0]
             kept == [tracked[s] EXCEPT !.depth = tracked[s].depth - 1]
  <2>2. SameKnowledge(freed, StateOf(s)) /\ SameKnowledge(kept, StateOf(s)) /\ kept.owner = t
    BY <1>1, <1>4, <2>1 DEF SameKnowledge, StreamStates
  <2>3. \E new \in {freed, kept, Untracked} :
          tracked' = [tracked EXCEPT ![s] = new] /\ (new = Untracked => freed = FreshState)
    <3>1. CASE LastLevel(t, s)
      <4>1. tracked' = [tracked EXCEPT ![s] = IF freed = FreshState THEN Untracked ELSE freed]
        BY <1>4, <3>1 DEF UnlockPass, Track
      <4>2. freed \in StreamStates
        BY <1>1, <2>1 DEF StreamStates
      <4>3. freed # Untracked
        BY <4>2, TrackedAreNotUntracked
      <4> HIDE DEF freed
      <4> QED
        BY <4>1, <4>3
    <3>2. CASE ~LastLevel(t, s)
      <4>1. tracked' = [tracked EXCEPT ![s] = kept]
        BY <1>4, <3>2 DEF UnlockPass, Track
      <4>2. kept # Untracked
        BY <2>2, FreshFacts, StdioAssumption
      <4> HIDE DEF kept
      <4> QED
        BY <4>1, <4>2
    <3> QED
      BY <3>1, <3>2
  <2> HIDE DEF freed, kept
  <2>4. PICK new \in {freed, kept, Untracked} :
          tracked' = [tracked EXCEPT ![s] = new] /\ (new = Untracked => freed = FreshState)
    BY <2>3
  <2>5. tracked'[s] = new /\ \A r \in Streams \ {s} : tracked'[r] = tracked[r]
    BY <2>4 DEF StreamShape
  <2>6. StateOf(s)' \in {freed, kept}
    BY <2>4, <2>5 DEF StateOf
  <2> QED
    BY <2>2, <2>5, <2>6
<1>5. CASE UnlockPass(t, s) /\ tracked[s].owner # t
  BY <1>2, <1>5 DEF UnlockPass, LastLevel
<1> QED
  BY <1>2, <1>3, <1>4, <1>5 DEF LockPass, WaitForLock

(* The marks: a file that was not renamed is never taken for another.      *)
LEMMA MarkKnowledge ==
  ASSUME StreamShape, NEW s \in Streams
  PROVE  /\ WithIo(s).explicit = StateOf(s).explicit /\ WithIo(s).io_active
         /\ StateOf(s).host_backed => WithIo(s).host_backed
         /\ BufferingOf(s) =>
              /\ WithIo(s).identity \in {NoIdentity, identity[s]}
              /\ WithIo(s).host_backed => WithIo(s).identity = identity[s]
              /\ WithHostIo(s).explicit = StateOf(s).explicit
              /\ Configurable(s) = StateOf(s)
         /\ WithHostIo(s).identity = identity[s]
         /\ WithHostIo(s).io_active /\ WithHostIo(s).host_backed
<1> DEFINE state == StateOf(s)
<1>1. state \in StreamStates
  BY StateFacts
<1> HIDE DEF state
<1>2. ASSUME NEW st \in StreamStates
      PROVE  /\ [st EXCEPT !.io_active = TRUE].explicit = st.explicit
             /\ [st EXCEPT !.io_active = TRUE].host_backed = st.host_backed
             /\ [st EXCEPT !.io_active = TRUE].identity = st.identity
             /\ [st EXCEPT !.io_active = TRUE].io_active
             /\ [st EXCEPT !.io_active = TRUE, !.host_backed = TRUE, !.identity = identity[s]].explicit = st.explicit
             /\ [st EXCEPT !.io_active = TRUE, !.host_backed = TRUE, !.identity = identity[s]].identity = identity[s]
             /\ [st EXCEPT !.io_active = TRUE, !.host_backed = TRUE, !.identity = identity[s]].host_backed
             /\ [st EXCEPT !.io_active = TRUE, !.host_backed = TRUE, !.identity = identity[s]].io_active
  BY DEF StreamStates
<1>3. /\ WithIo(s).explicit = state.explicit /\ WithIo(s).io_active
      /\ state.host_backed => WithIo(s).host_backed
  BY <1>1, <1>2 DEF WithIo, state
<1>4. BufferingOf(s) =>
        /\ WithIo(s).identity \in {NoIdentity, identity[s]}
        /\ WithIo(s).host_backed => WithIo(s).identity = identity[s]
  BY <1>1, <1>2 DEF WithIo, state, BufferingOf
<1>5. BufferingOf(s) => Configurable(s) = state
  BY DEF BufferingOf, Configurable, state
<1>6. BufferingOf(s) => WithHostIo(s).explicit = state.explicit
  <2>1. BufferingOf(s) =>
          WithHostIo(s) = [state EXCEPT !.io_active = TRUE, !.host_backed = TRUE, !.identity = identity[s]]
    BY DEF BufferingOf, WithHostIo, state
  <2> QED
    BY <1>1, <1>2, <2>1
<1>7. WithHostIo(s).identity = identity[s]
  <2> DEFINE recycled == /\ state.identity # NoIdentity /\ identity[s] # NoIdentity
                         /\ state.identity # identity[s]
             kept == IF recycled THEN [state EXCEPT !.mode = "IONBF", !.explicit = FALSE] ELSE state
  <2>1. kept \in StreamStates
    BY <1>1 DEF StreamStates, Modes
  <2>2. WithHostIo(s) = [kept EXCEPT !.io_active = TRUE, !.host_backed = TRUE, !.identity = identity[s]]
    BY DEF WithHostIo, state
  <2> HIDE DEF kept
  <2> QED
    BY <1>2, <2>1, <2>2
<1> QED
  BY <1>3, <1>4, <1>5, <1>6, <1>7, MarkFacts DEF state

LEMMA MarkedBuffering ==
  ASSUME StreamShape, StreamShape', BufferingInv, NEW s \in Streams, published[s],
         UNCHANGED <<published, identity, buffered>>,
         \/ tracked'[s] = WithHostIo(s)
         \/ tracked'[s] = WithIo(s) /\ (Unreported(s) => Unreported(s)')
  PROVE  BufferOK(s)' /\ KeepsExplicit(s)
<1>1. BufferingOf(s)
  BY DEF BufferingInv
<1>2. StateOf(s)' = tracked'[s]
  <2>1. WithHostIo(s) # Untracked /\ WithIo(s) # Untracked
    BY MarkFacts, TrackedAreNotUntracked DEF LockOf
  <2> QED
    BY <2>1 DEF StateOf
<1>3. BufferingOf(s)'
  BY <1>1, <1>2, MarkKnowledge DEF BufferingOf
<1> QED
  BY <1>1, <1>2, <1>3, MarkKnowledge DEF BufferOK, KeepsExplicit

(* A call that holds the lock and works.                                   *)
LEMMA WorkKeepsBuffering ==
  ASSUME StreamShape, StreamShape', LocksInv, BufferingInv, NEW t \in Threads, WorkStep(t)
  PROVE  BufferingKept
<1>0. Works(t)
  BY WorkFacts
<1> PICK s \in Streams : s = stream[t]
  BY <1>0 DEF Works
<1>1. /\ s \in Streams /\ s = stream[t] /\ OnlyMoves(t) /\ op[t] # "fopen" /\ published[s]
      /\ UNCHANGED <<standard, identity, published, op, stream>>
  <2>1. OnlyMoves(t) /\ op[t] # "fopen" /\ UNCHANGED <<standard, identity, published, op, stream>>
    BY <1>0 DEF Works, OnlyMoves, StreamShape
  <2>2. published[stream[t]]
    BY <1>0 DEF Works, LocksInv, UsedArePublished, Using, Working
  <2> QED
    BY <2>1, <2>2
<1>2. /\ BufferingOf(s) /\ pc \in [Threads -> Places]
      /\ buffered \in [Streams -> BOOLEAN] /\ used \in [Streams -> BOOLEAN]
  BY <1>1 DEF BufferingInv, StreamShape
<1> USE DEF call, clients, host
<1>3. ASSUME \A r \in Streams \ {s} : Elsewhere(r), BufferOK(s)' /\ KeepsExplicit(s)
      PROVE  BufferingKept
  <2>1. op'[t] # "fopen" /\ (used'[s] => used[s] \/ published[s])
    BY <1>1
  <2> QED
    BY <1>1, <1>3, <2>1, BufferingAt
<1>4. pc[t] # "wrote" => (Unreported(s) => Unreported(s)')
  <2>1. \A u \in Threads : pc[t] # "wrote" /\ stream[u] = s /\ pc[u] = "wrote" => stream'[u] = s /\ pc'[u] = "wrote"
    BY <1>1 DEF OnlyMoves
  <2> SUFFICES ASSUME pc[t] # "wrote", Unreported(s)
               PROVE  Unreported(s)'
    OBVIOUS
  <2>2. PICK u \in Threads : stream[u] = s /\ pc[u] = "wrote"
    BY DEF Unreported
  <2>3. stream'[u] = s /\ pc'[u] = "wrote"
    BY <2>1, <2>2
  <2> QED
    BY <1>1, <2>3 DEF Unreported
<1>5. CASE FlushMark(t) \/ InternalWrite(t) \/ MarkAfterWrite(t)
  <2>1. UNCHANGED <<buffered, identity, published>>
    BY <1>5 DEF FlushMark, InternalWrite, MarkAfterWrite
  <2>2. \A r \in Streams \ {s} : Elsewhere(r)
    BY <1>1, <1>5 DEF FlushMark, InternalWrite, MarkAfterWrite, Track, MarkUsed, Elsewhere, StreamShape
  <2>3. CASE tracked' = tracked /\ used' = used /\ pc[t] # "wrote"
    <3>1. BufferOK(s)' /\ KeepsExplicit(s)
      BY <1>1, <1>2, <1>4, <2>1, <2>3 DEF BufferOK, BufferingOf, KeepsExplicit, StateOf
    <3> QED
      BY <1>3, <2>2, <3>1
  <2>4. CASE tracked'[s] = WithHostIo(s) \/ (tracked'[s] = WithIo(s) /\ pc[t] # "wrote")
    BY <1>1, <1>3, <1>4, <2>1, <2>2, <2>4, MarkedBuffering
  <2> QED
    BY <1>1, <1>5, <2>3, <2>4
    DEF FlushMark, InFflush, InternalWrite, MarkAfterWrite, Track, StreamShape
<1>6. CASE HostFlush(t) \/ ReadMode(t) \/ CheckExplicit(t) \/ ChoosePath(t) \/ SetvbufRefused(t)
  <2>1. /\ pc[t] # "wrote" /\ used' = used
        /\ tracked' = tracked \/ tracked' = [tracked EXCEPT ![s] = Configurable(s)]
        /\ buffered' = buffered \/ buffered' = [buffered EXCEPT ![s] = FALSE]
    BY <1>6
    DEF HostFlush, ReadMode, CheckExplicit, ChoosePath, SetvbufRefused, InSetvbuf, Track
  <2>2. StateOf(s)' = StateOf(s) /\ (buffered'[s] => buffered[s])
    <3>1. Configurable(s) = StateOf(s) /\ StateOf(s) # Untracked
      BY <1>1, <1>2, MarkKnowledge, StateFacts, TrackedAreNotUntracked
    <3>2. tracked'[s] = tracked[s] \/ tracked'[s] = StateOf(s)
      BY <1>1, <2>1, <3>1 DEF StreamShape
    <3> QED
      BY <1>1, <1>2, <2>1, <3>1, <3>2 DEF StateOf
  <2>3. \A r \in Streams \ {s} : Elsewhere(r)
    BY <1>1, <2>1 DEF Elsewhere, StreamShape
  <2>4. BufferOK(s)' /\ KeepsExplicit(s)
    BY <1>1, <1>2, <1>4, <2>1, <2>2 DEF BufferOK, BufferingOf, KeepsExplicit
  <2> QED
    BY <1>3, <2>3, <2>4
<1>7. ASSUME NEW mode \in Modes, SetvbufApply(t, mode)
      PROVE  BufferingKept
  <2> DEFINE new == [Configurable(s) EXCEPT
                       !.mode = mode, !.explicit = TRUE, !.host_backed = FALSE, !.identity = NoIdentity]
  <2>1. /\ pc[t] # "wrote" /\ UNCHANGED <<used, buffered>> /\ ~StateOf(s).io_active
        /\ tracked' = [tracked EXCEPT ![s] = new]
    BY <1>1, <1>2, <1>7, MarkKnowledge DEF SetvbufApply, InSetvbuf, Track
  <2>2. /\ new.explicit /\ ~new.host_backed /\ new.identity = NoIdentity
        /\ new.io_active = StateOf(s).io_active /\ new # Untracked
    <3>1. Configurable(s) = StateOf(s) /\ StateOf(s) \in StreamStates
      BY <1>1, <1>2, MarkKnowledge, StateFacts
    <3>2. new \in StreamStates
      BY <1>1, MarkFacts DEF LockOf
    <3> QED
      BY <3>1, <3>2, TrackedAreNotUntracked DEF StreamStates
  <2> HIDE DEF new
  <2>3. \A r \in Streams \ {s} : Elsewhere(r)
    BY <1>1, <2>1 DEF Elsewhere, StreamShape
  <2>4. StateOf(s)' = new
    BY <1>1, <2>1, <2>2 DEF StateOf, StreamShape
  <2>5. BufferingOf(s)'
    BY <1>1, <1>2, <1>4, <2>1, <2>2, <2>4 DEF BufferingOf
  <2> QED
    BY <1>1, <1>3, <2>2, <2>3, <2>4, <2>5 DEF BufferOK, KeepsExplicit
<1>8. CASE HostWrite(t)
  <2>1. /\ pc[t] = "delegated" /\ UNCHANGED <<tracked, used>>
        /\ \/ pc' = [pc EXCEPT ![t] = "wrote"] /\ \E left \in BOOLEAN : buffered' = [buffered EXCEPT ![s] = left]
           \/ buffered' = buffered
    BY <1>8 DEF HostWrite, Goto
  <2>2. \A r \in Streams \ {s} : Elsewhere(r)
    BY <1>1, <1>2, <2>1 DEF Elsewhere
  <2>3. buffered'[s] => buffered[s] \/ Unreported(s)'
    BY <1>1, <1>2, <2>1 DEF Unreported
  <2>4. BufferOK(s)' /\ KeepsExplicit(s)
    BY <1>1, <1>2, <1>4, <2>1, <2>3 DEF BufferOK, BufferingOf, KeepsExplicit, StateOf
  <2> QED
    BY <1>3, <2>2, <2>4
<1> QED
  BY <1>5, <1>6, <1>7, <1>8 DEF WorkStep

(* A pass of the file lock, and its release.                               *)
LEMMA LocksKeepBuffering ==
  ASSUME StreamShape, LocksInv, BufferingInv, NEW t \in Threads,
         \/ \E s \in Streams : \/ Flockfile(t, s) \/ Ftrylockfile(t, s) \/ Funlockfile(t, s) \/ Fclose(t, s)
                              \/ \E name \in {"fflush", "setvbuf", "vfprintf"} : Guarded(t, s, name)
         \/ Recontend(t) \/ NestedFlush(t) \/ Release(t)
  PROVE  BufferingKept
<1> USE DEF host, call, clients
<1>1. ASSUME NEW s \in Streams, LockPass(t, s) \/ TakeLock(t, s) \/ UnlockPass(t, s),
             OnlyMoves(t), pc[t] # "wrote", op'[t] # "fopen",
             UNCHANGED <<published, identity, used, buffered>>
      PROVE  BufferingKept
  <2>1. SameKnowledge(StateOf(s)', StateOf(s)) /\ \A r \in Streams \ {s} : Elsewhere(r)
    BY <1>1, LockKeepsKnowledge DEF Elsewhere
  <2>2. Unreported(s) => Unreported(s)'
    BY <1>1 DEF Unreported, OnlyMoves
  <2>3. KeepsBuffering(s)
    BY <1>1, <2>1, <2>2 DEF KeepsBuffering
  <2> QED
    BY <1>1, <2>1, <2>3, BufferingAt
<1>2. ASSUME NEW s \in Streams, NEW name \in {"flockfile", "fclose", "fflush", "setvbuf", "vfprintf"},
             Guarded(t, s, name)
      PROVE  BufferingKept
  <2>1. /\ pc[t] = "out" /\ LockPass(t, s) /\ UNCHANGED <<published, identity, used, buffered, nested>>
        /\ op' = [op EXCEPT ![t] = name] /\ stream' = [stream EXCEPT ![t] = s]
    BY <1>2 DEF Guarded, MayCall, Begin
  <2>2. OnlyMoves(t) /\ op'[t] = name
    BY <2>1 DEF OnlyMoves, StreamShape, LockPass, Goto
  <2> QED
    BY <1>1, <2>1, <2>2
<1>3. ASSUME NEW s \in Streams, Ftrylockfile(t, s) \/ Funlockfile(t, s)
      PROVE  BufferingKept
  <2>1. /\ pc[t] = "out" /\ op[t] = "none"
        /\ TakeLock(t, s) \/ UnlockPass(t, s)
        /\ UNCHANGED <<published, identity, used, buffered>>
        /\ UNCHANGED call \/ (Begin(t, s, "funlockfile") /\ Goto(t, "notifying"))
    BY <1>3, PlaceFacts DEF Ftrylockfile, Funlockfile, MayCall
  <2>2. OnlyMoves(t) /\ op'[t] # "fopen"
    <3>1. CASE UNCHANGED call
      BY <2>1, <3>1 DEF OnlyMoves
    <3>2. CASE Begin(t, s, "funlockfile") /\ Goto(t, "notifying")
      BY <3>2 DEF OnlyMoves, StreamShape, Begin, Goto
    <3> QED
      BY <2>1, <3>1, <3>2
  <2> QED
    BY <1>1, <2>1, <2>2
<1>4. CASE Recontend(t) \/ NestedFlush(t) \/ Release(t)
  <2>1. /\ pc[t] \in {"blocked", "flush_next", "releasing"} /\ stream[t] \in Streams /\ op[t] # "fopen"
        /\ LockPass(t, stream[t]) \/ UnlockPass(t, stream[t])
        /\ UNCHANGED <<identity, used, buffered>>
    BY <1>4, PlaceFacts DEF Recontend, NestedFlush, Release, StreamShape, CallShape
  <2>2. OnlyMoves(t) /\ op'[t] # "fopen" /\ published' = published
    BY <1>4, <2>1 DEF Recontend, NestedFlush, Release, OnlyMoves, StreamShape, LockPass, Goto, Return
  <2> QED
    BY <1>1, <2>1, <2>2
<1> QED
  BY <1>2, <1>3, <1>4 DEF Flockfile, Fclose

(* The other steps.                                                        *)
LEMMA OthersKeepBuffering ==
  ASSUME ~ReusedEarly, StreamShape, StreamShape', LocksInv, BufferingInv, NEW t \in Threads,
         \/ FlockfileReturn(t) \/ Notify(t) \/ HostFlushAll(t) \/ MarkTransfer(t) \/ MarkAll(t)
         \/ HostClose(t) \/ ClearTracking(t)
         \/ \E s \in Streams : HostTransfer(t, s) \/ Fopen(t, s)
  PROVE  BufferingKept
<1> USE DEF host, call, clients
<1>0. /\ published \in [Streams -> BOOLEAN] /\ open \in [Streams -> BOOLEAN]
      /\ buffered \in [Streams -> BOOLEAN] /\ used \in [Streams -> BOOLEAN]
      /\ tracked \in [Streams -> StreamStates \cup {Untracked}]
  BY DEF StreamShape
<1>1. ASSUME Return(t), op[t] = "fopen", UNCHANGED <<tracked, identity, used, buffered>>
      PROVE  BufferingKept
  <2> PICK s \in Streams : s = stream[t]
    BY <1>1, OpenedIsUntracked
  <2>1. /\ tracked[s] = Untracked /\ ~nested[t] /\ pc[t] # "wrote" /\ ~published[s] /\ ~used[s] /\ ~buffered[s]
    BY <1>1, OpenedIsUntracked DEF BufferingInv
  <2>2. /\ OnlyMoves(t) /\ op'[t] # "fopen" /\ published' = [published EXCEPT ![s] = TRUE]
    BY <1>1, <2>1 DEF Return, Goto, OnlyMoves, StreamShape
  <2>3. \A r \in Streams \ {s} : Elsewhere(r)
    BY <1>0, <1>1, <2>2 DEF Elsewhere
  <2>4. StateOf(s)' = FreshState
    BY <1>1, <2>1 DEF StateOf
  <2>5. BufferOK(s)' /\ KeepsExplicit(s)
    BY <1>0, <1>1, <2>1, <2>2, <2>4, FreshFacts DEF BufferOK, BufferingOf, KeepsExplicit
  <2> QED
    BY <1>1, <2>1, <2>2, <2>3, <2>5, BufferingAt
<1>2. ASSUME OnlyMoves(t), pc[t] # "wrote", op'[t] # "fopen",
             UNCHANGED <<published, tracked, identity, used>>,
             \A s \in Streams : buffered'[s] => buffered[s]
      PROVE  BufferingKept
  <2>1. \A s \in Streams : KeepsBuffering(s)
    <3> TAKE s \in Streams
    <3>1. Unreported(s) => Unreported(s)'
      BY <1>2 DEF Unreported, OnlyMoves
    <3> QED
      BY <1>2, <3>1 DEF KeepsBuffering, SameKnowledge, StateOf
  <2> QED
    BY <1>2, <2>1, BufferingStep
<1>3. Return(t) /\ op[t] # "fopen" => OnlyMoves(t) /\ op'[t] # "fopen" /\ published' = published
  BY DEF Return, Goto, OnlyMoves, StreamShape
<1>4. CASE FlockfileReturn(t) \/ Notify(t) \/ HostFlushAll(t)
  <2>1. /\ Return(t) /\ pc[t] # "wrote" /\ UNCHANGED <<tracked, identity, used>>
        /\ op[t] = "fopen" => buffered' = buffered
        /\ \A s \in Streams : buffered'[s] => buffered[s]
    BY <1>4, PlaceFacts DEF FlockfileReturn, Notify, HostFlushAll
  <2> QED
    BY <1>1, <1>2, <1>3, <2>1
<1>5. CASE MarkTransfer(t)
  <2> PICK s \in Streams : s = stream[t]
    BY <1>5, PlaceFacts DEF MarkTransfer
  <2>1. /\ Return(t) /\ pc[t] = "wrote" /\ op[t] = "fputs" /\ published[s]
        /\ UNCHANGED <<identity, buffered>>
        /\ tracked' = [tracked EXCEPT ![s] = WithHostIo(s)] /\ used' = [used EXCEPT ![s] = TRUE]
    BY <1>5 DEF MarkTransfer, Track, MarkUsed, LocksInv, UsedArePublished, Using
  <2>2. OnlyMoves(t) /\ op'[t] # "fopen" /\ published' = published
    BY <1>3, <2>1
  <2>3. \A r \in Streams \ {s} : Elsewhere(r)
    BY <1>0, <2>1, <2>2 DEF Elsewhere
  <2>4. BufferOK(s)' /\ KeepsExplicit(s)
    BY <1>0, <2>1, <2>2, MarkedBuffering
  <2> QED
    BY <2>1, <2>2, <2>3, <2>4, BufferingAt
<1>6. CASE MarkAll(t)
  <2>1. /\ pc[t] = "out" /\ UNCHANGED <<identity, buffered, published, nested>>
        /\ op' = [op EXCEPT ![t] = "fflush_all"] /\ stream' = [stream EXCEPT ![t] = NoStream]
        /\ pc' = [pc EXCEPT ![t] = "marked"]
        /\ \A s \in Streams :
             /\ tracked'[s] = IF s \in standard \/ tracked[s] # Untracked THEN WithIo(s) ELSE Untracked
             /\ used'[s] = (used[s] \/ s \in standard \/ tracked[s] # Untracked)
    BY <1>6 DEF MarkAll, Begin, Goto
  <2>2. OnlyMoves(t) /\ op'[t] = "fflush_all"
    BY <2>1 DEF OnlyMoves, StreamShape
  <2>3. ASSUME NEW s \in Streams
        PROVE  KeepsBuffering(s) \/ (BufferOK(s)' /\ KeepsExplicit(s))
    <3>1. Unreported(s) => Unreported(s)'
      BY <2>1, <2>2 DEF Unreported, OnlyMoves
    <3>2. CASE ~published[s]
      BY <2>1, <3>2 DEF BufferOK, KeepsExplicit, BufferingInv
    <3>3. CASE published[s] /\ (s \in standard \/ tracked[s] # Untracked)
      BY <2>1, <3>1, <3>3, MarkedBuffering
    <3>4. CASE ~(s \in standard \/ tracked[s] # Untracked)
      <4>1. StateOf(s)' = StateOf(s)
        BY <2>1, <3>4 DEF StateOf
      <4> QED
        BY <2>1, <3>1, <3>4, <4>1 DEF KeepsBuffering, SameKnowledge
    <3> QED
      BY <3>2, <3>3, <3>4
  <2> QED
    BY <2>1, <2>2, <2>3, BufferingStep
<1>7. ASSUME NEW s \in Streams, HostTransfer(t, s)
      PROVE  BufferingKept
  <2>1. /\ pc[t] = "out" /\ published[s] /\ UNCHANGED <<identity, tracked, published, used, nested>>
        /\ op' = [op EXCEPT ![t] = "fputs"] /\ stream' = [stream EXCEPT ![t] = s]
        /\ pc' = [pc EXCEPT ![t] = "wrote"]
        /\ \E left \in {TRUE, buffered[s]} : buffered' = [buffered EXCEPT ![s] = left]
    BY <1>7 DEF HostTransfer, MayCall, Begin, Goto
  <2>2. OnlyMoves(t) /\ op'[t] = "fputs" /\ pc'[t] = "wrote" /\ stream'[t] = s
    BY <2>1 DEF OnlyMoves, StreamShape
  <2>3. \A r \in Streams \ {s} : Elsewhere(r)
    BY <1>0, <2>1 DEF Elsewhere
  <2>4. Unreported(s)'
    BY <2>2 DEF Unreported
  <2>5. BufferOK(s)' /\ KeepsExplicit(s)
    BY <2>1, <2>4 DEF BufferOK, KeepsExplicit, BufferingInv, BufferingOf, StateOf
  <2> QED
    BY <2>1, <2>2, <2>3, <2>5, BufferingAt
<1>8. ASSUME NEW s \in Streams, Fopen(t, s)
      PROVE  BufferingKept
  <2>1. /\ pc[t] = "out" /\ ~open[s] /\ UNCHANGED <<tracked, published, buffered, nested>>
        /\ op' = [op EXCEPT ![t] = "fopen"] /\ stream' = [stream EXCEPT ![t] = s]
        /\ pc' = [pc EXCEPT ![t] = "opened"] /\ used' = [used EXCEPT ![s] = FALSE]
        /\ \E id \in Identities \cup {NoIdentity} : identity' = [identity EXCEPT ![s] = id]
    BY <1>8 DEF Fopen, Begin, Goto
  <2>2. OnlyMoves(t) /\ op'[t] = "fopen" /\ stream'[t] = s /\ ~used'[s]
    BY <1>0, <2>1 DEF OnlyMoves, StreamShape
  <2>3. \A r \in Streams \ {s} : Elsewhere(r)
    BY <1>0, <2>1 DEF Elsewhere, StreamShape
  <2>4. ~published[s]
    BY <2>1 DEF LocksInv, StreamIsOwn
  <2>5. BufferOK(s)' /\ KeepsExplicit(s)
    BY <2>1, <2>4 DEF BufferOK, KeepsExplicit, BufferingInv
  <2> QED
    BY <2>1, <2>2, <2>3, <2>5, BufferingAt
<1>9. CASE HostClose(t)
  <2> PICK s \in Streams : s = stream[t]
    BY <1>9, CloserFacts
  <2>1. /\ pc[t] = "locked" /\ op[t] = "fclose" /\ UNCHANGED <<tracked, identity, used, op, stream, nested>>
        /\ buffered' = [buffered EXCEPT ![s] = FALSE] /\ published' = [published EXCEPT ![s] = FALSE]
        /\ pc' = [pc EXCEPT ![t] = "closed"]
    BY <1>9 DEF HostClose, Goto
  <2>2. OnlyMoves(t)
    BY <2>1 DEF OnlyMoves, StreamShape
  <2>3. \A r \in Streams \ {s} : Elsewhere(r)
    BY <1>0, <2>1 DEF Elsewhere
  <2>4. BufferOK(s)' /\ KeepsExplicit(s)
    BY <1>0, <2>1 DEF BufferOK, KeepsExplicit
  <2> QED
    BY <2>1, <2>2, <2>3, <2>4, BufferingAt
<1>10. CASE ClearTracking(t)
  <2> PICK s \in Streams : s = stream[t]
    BY <1>10, PlaceFacts DEF ClearTracking
  <2>1. /\ pc[t] \in {"closed", "opened"} /\ UNCHANGED <<identity, used, buffered>>
        /\ op[t] \in {"fopen", "fclose"} /\ (op[t] = "fclose" => pc[t] = "closed")
        /\ \/ /\ tracked[s] # Untracked /\ tracked' = [tracked EXCEPT ![s] = Untracked]
              /\ Goto(t, "notifying") /\ UNCHANGED <<op, stream, nested, published>>
           \/ Return(t) /\ tracked' = tracked
    BY <1>10, PlaceFacts DEF ClearTracking
  <2>2. CASE op[t] = "fopen"
    BY <1>1, <2>1, <2>2, OpenedIsUntracked
  <2>3. CASE op[t] = "fclose"
    <3>1. ~published[s]
      BY <2>1, <2>3 DEF LocksInv, ClosedAreDone
    <3>2. OnlyMoves(t) /\ op'[t] # "fopen" /\ published' = published
      BY <1>3, <2>1, <2>3 DEF OnlyMoves, Goto, StreamShape
    <3>3. \A r \in Streams \ {s} : Elsewhere(r)
      BY <1>0, <2>1, <3>2 DEF Elsewhere
    <3>4. BufferOK(s)' /\ KeepsExplicit(s)
      BY <2>1, <3>1, <3>2 DEF BufferOK, KeepsExplicit, BufferingInv
    <3> QED
      BY <2>1, <3>2, <3>3, <3>4, BufferingAt
  <2> QED
    BY <2>1, <2>2, <2>3
<1> QED
  BY <1>4, <1>5, <1>6, <1>7, <1>8, <1>9, <1>10

LEMMA StepBuffering ==
  ASSUME ~ReusedEarly, ~Renames, StreamShape, StreamShape', LocksInv, BufferingInv, [Next]_vars
  PROVE  BufferingKept
<1>1. ASSUME UNCHANGED <<identity, buffered, tracked, call, clients>>
      PROVE  BufferingKept
  BY <1>1 DEF call, clients, BufferingKept, BufferingInv, BufferingOf, KeepsExplicit, StateOf, Unreported
<1>2. UNCHANGED vars => UNCHANGED <<identity, buffered, tracked, call, clients>>
  BY DEF vars, host
<1>3. \A t \in Threads : SpuriousWake(t) => UNCHANGED <<identity, buffered, tracked, call, clients>>
  BY DEF SpuriousWake, host
<1>4. \A s \in Streams : ~Relink(s)
  BY DEF Relink
<1> QED
  BY <1>1, <1>2, <1>3, <1>4, WorkKeepsBuffering, LocksKeepBuffering, OthersKeepBuffering
  DEF Next, ClientCall, Progress, WorkStep

KnowledgeIInv == RegistryIInv /\ BufferingInv

LEMMA InvariantKnowledge ==
  ASSUME ~ReusedEarly, ~Renames
  PROVE  Spec => []KnowledgeIInv /\ [][Next /\ BufferingKept]_vars
<1>1. Init => KnowledgeIInv
  <2>1. Init => BufferingInv
    BY FreshFacts DEF Init, BufferingInv, BufferingOf, StateOf
  <2> QED
    BY <2>1, InitLocks DEF KnowledgeIInv, RegistryIInv, Init, DepthsAreBounded
<1>2. KnowledgeIInv /\ [Next]_vars => KnowledgeIInv' /\ [Next /\ BufferingKept]_vars
  BY StepShape, StepLocks, StepDepths, StepBuffering DEF KnowledgeIInv, RegistryIInv, BufferingKept
<1> QED
  BY <1>1, <1>2, PTL DEF Spec

(* HostBytesAreTracked: bytes that a completed write left in the host's    *)
(* buffer belong to a stream that is tracked as backed by the host, so     *)
(* that fflush passes them on.                                             *)
THEOREM BytesAreTracked == ASSUME ~ReusedEarly, ~Renames PROVE Spec => []HostBytesAreTracked
<1>1. KnowledgeIInv => HostBytesAreTracked
  <2> SUFFICES ASSUME BufferingInv, NEW s \in Streams, published[s], buffered[s], ~Unreported(s)
               PROVE  tracked[s] # Untracked /\ tracked[s].host_backed
    BY DEF KnowledgeIInv, HostBytesAreTracked
  <2>1. StateOf(s).host_backed
    BY DEF BufferingInv, BufferingOf
  <2> QED
    BY <2>1, FreshFacts DEF StateOf
<1> QED
  BY <1>1, InvariantKnowledge, PTL

(* SetvbufIsFinal: setvbuf is refused after a transfer, and what it        *)
(* accepted stays in force until the stream is closed.                     *)
THEOREM SetvbufDecidesOnce == ASSUME ~ReusedEarly, ~Renames PROVE Spec => SetvbufIsFinal
<1>1. KnowledgeIInv /\ [Next]_vars
        => [\A t \in Threads : (\E mode \in Modes : SetvbufApply(t, mode)) => ~used[stream[t]]]_vars
  <2> SUFFICES ASSUME StreamShape, LocksInv, BufferingInv, NEW t \in Threads, NEW mode \in Modes,
                      SetvbufApply(t, mode)
               PROVE  ~used[stream[t]]
    BY DEF KnowledgeIInv, RegistryIInv
  <2>1. stream[t] \in Streams /\ published[stream[t]] /\ ~Configurable(stream[t]).io_active
    BY PlaceFacts DEF SetvbufApply, InSetvbuf, LocksInv, UsedArePublished, Using
  <2>2. BufferingOf(stream[t])
    BY <2>1 DEF BufferingInv
  <2> QED
    BY <2>1, <2>2, MarkKnowledge DEF BufferingOf
<1>2. KnowledgeIInv /\ [Next /\ BufferingKept]_vars
        => [\A s \in Streams :
              published[s] /\ published'[s] /\ tracked[s] # Untracked /\ tracked[s].explicit
                => tracked'[s] # Untracked /\ tracked'[s].explicit]_vars
  <2> SUFFICES ASSUME BufferingKept, NEW s \in Streams, published[s], published'[s],
                      tracked[s] # Untracked, tracked[s].explicit
               PROVE  tracked'[s] # Untracked /\ tracked'[s].explicit
    OBVIOUS
  <2>1. StateOf(s)'.explicit
    BY DEF BufferingKept, KeepsExplicit, StateOf
  <2> QED
    BY <2>1, FreshFacts DEF StateOf
<1>3. Spec => SetvbufPrecedesIo
  BY <1>1, InvariantKnowledge, PTL DEF Spec, SetvbufPrecedesIo
<1>4. Spec => ConfigurationIsKept
  BY <1>2, InvariantKnowledge, PTL DEF Spec, ConfigurationIsKept
<1> QED
  BY <1>3, <1>4, PTL DEF SetvbufIsFinal
=============================================================================
