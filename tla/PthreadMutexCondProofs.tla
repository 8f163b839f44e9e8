------------------------ MODULE PthreadMutexCondProofs ------------------------
(* Theorems about PthreadMutex, and about PthreadCond, whose threads call  *)
(* the mutex at any time, for every set of threads and every depth.        *)
(*                                                                         *)
(* The mutex's inductive invariant IInv adds to the invariants the runs    *)
(* check only that a thread with a notify_one aimed at a freed state is    *)
(* indeed inside mutex_unlock_internal: without it a new unlock could be   *)
(* mistaken for a dangling one and NoLostWakeup would not be inductive.    *)
(*                                                                         *)
(* The condition variable's inductive invariant CondIInv adds to IInv and  *)
(* the invariants the runs check what each thread in a wait has            *)
(* (WaitShape), who holds lock_cond_lazy_init, and that no destroy of the  *)
(* mutex is past its checks while a wait refers to it.                     *)
EXTENDS PthreadCond, FiniteSetTheorems, TLAPS

---------------------------------------------------------------------------
(* The mutex                                                               *)


DanglingAreNotifying == \A t \in dangling : pc[t] = "notify"

IInv ==
  /\ MutexTypeOK
  /\ OwnerMatchesClients
  /\ WaiterCountExact
  /\ FreedIsUnused
  /\ DanglingAreNotifying
  /\ NoLostWakeup

---------------------------------------------------------------------------
(* What the count of blocked threads says, in the three ways a step        *)
(* changes that set.                                                       *)
LEMMA BlockedFinite == IsFiniteSet(Blocked) /\ Cardinality(Blocked) \in Nat
<1>1. Blocked \subseteq Threads
  BY DEF Blocked
<1>2. IsFiniteSet(Blocked)
  BY <1>1, ThreadsAssumption, FS_Subset
<1> QED
  BY <1>2, FS_CardinalityType

LEMMA BlockedGrows ==
  ASSUME NEW t \in Threads \ Blocked
  PROVE  Cardinality(Blocked \cup {t}) = Cardinality(Blocked) + 1
BY BlockedFinite, FS_AddElement

LEMMA BlockedShrinks ==
  ASSUME NEW t \in Blocked
  PROVE  /\ Cardinality(Blocked) > 0
         /\ Cardinality(Blocked \ {t}) = Cardinality(Blocked) - 1
<1>1. Cardinality(Blocked \ {t}) = Cardinality(Blocked) - 1
  BY BlockedFinite, FS_RemoveElement
<1>2. Cardinality(Blocked) # 0
  BY BlockedFinite, FS_EmptySet
<1> QED
  BY <1>1, <1>2, BlockedFinite

LEMMA NobodyBlocked ==
  ASSUME Cardinality(Blocked) = 0
  PROVE  Blocked = {}
BY BlockedFinite, FS_EmptySet

---------------------------------------------------------------------------
(* Steps that leave Blocked as it is.                                      *)
LEMMA FailPreserves ==
  ASSUME IInv, NEW code \in Codes, Fail(code)
  PROVE  IInv'
BY DEF IInv, Fail, MutexTypeOK, OwnerMatchesClients, WaiterCountExact,
       FreedIsUnused, DanglingAreNotifying, NoLostWakeup, Blocked, Woken

LEMMA UnlockPassPreserves ==
  ASSUME IInv, NEW t \in Threads, NEW for_cond_wait \in BOOLEAN,
         live, pc[t] = "out", UnlockPass(t, for_cond_wait)
  PROVE  IInv'
<1>1. CASE UnlockNotOwner(t)
  BY <1>1, FailPreserves DEF UnlockNotOwner, Codes
<1>2. CASE UnlockLevel(t, for_cond_wait)
  <2> USE <1>2 DEF UnlockLevel, IInv
  <2>1. held[t] = recursion_depth /\ recursion_depth \in 2..MaxDepth
    BY MaxDepthAssumption DEF MutexTypeOK, OwnerMatchesClients
  <2>2. /\ recursion_depth' \in 0..MaxDepth
        /\ held' \in [Threads -> Nat]
    BY <2>1, MaxDepthAssumption DEF MutexTypeOK
  <2>3. MutexTypeOK'
    BY <2>2 DEF MutexTypeOK, Codes
  <2>4. OwnerMatchesClients'
    BY <2>1, MaxDepthAssumption DEF OwnerMatchesClients, MutexTypeOK
  <2>5. Blocked' = Blocked
    BY DEF Blocked
  <2> QED
    BY <2>3, <2>4, <2>5 DEF WaiterCountExact, FreedIsUnused,
         DanglingAreNotifying, NoLostWakeup, Woken
<1>3. CASE UnlockFully(t, for_cond_wait)
  <2> USE <1>3 DEF UnlockFully, IInv
  <2>0. held[t] \in Nat /\ held[t] > 0 /\ held' \in [Threads -> Nat]
    BY ThreadsAssumption, MaxDepthAssumption
    DEF MutexTypeOK, OwnerMatchesClients
  <2>1. MutexTypeOK'
    BY <2>0, MaxDepthAssumption DEF MutexTypeOK, Places
  <2>2. OwnerMatchesClients'
    BY ThreadsAssumption DEF MutexTypeOK, OwnerMatchesClients
  <2>3. Blocked' = Blocked
    BY DEF MutexTypeOK, Blocked
  <2>4. WaiterCountExact'
    BY <2>3 DEF WaiterCountExact
  <2>5. FreedIsUnused'
    BY <2>3, ThreadsAssumption DEF FreedIsUnused, MutexTypeOK
  <2>6. DanglingAreNotifying'
    BY DEF DanglingAreNotifying, MutexTypeOK
  <2>7. t \notin dangling
    BY DEF DanglingAreNotifying
  <2>8. NoLostWakeup'
    BY <2>7 DEF NoLostWakeup, MutexTypeOK
  <2> QED
    BY <2>1, <2>2, <2>4, <2>5, <2>6, <2>8
<1> QED
  BY <1>1, <1>2, <1>3 DEF UnlockPass

LEMMA UnlockNotifyPreserves ==
  ASSUME IInv, NEW t \in Threads, UnlockNotify(t)
  PROVE  IInv'
<1> USE DEF UnlockNotify, IInv
<1>1. MutexTypeOK'
  BY DEF MutexTypeOK, Places, Codes
<1>2. OwnerMatchesClients'
  BY DEF OwnerMatchesClients
<1>3. Blocked' = Blocked
  BY DEF MutexTypeOK, Blocked
<1>4. WaiterCountExact'
  BY <1>3 DEF WaiterCountExact
<1>5. FreedIsUnused'
  BY <1>3 DEF FreedIsUnused, MutexTypeOK
<1>6. DanglingAreNotifying'
  BY DEF DanglingAreNotifying, MutexTypeOK
<1>7. NoLostWakeup'
  <2> SUFFICES ASSUME live, owner = NoThread, sleepers' # {}
               PROVE  \/ Woken' # {}
                      \/ \E u \in Threads : pc'[u] = "notify" /\ u \notin dangling'
    BY DEF NoLostWakeup
  <2>1. CASE \E s \in sleepers : sleepers' = sleepers \ {s}
    BY <2>1, <1>3 DEF WaiterCountExact, Woken
  <2>2. CASE UNCHANGED sleepers
    <3>1. t \in dangling
      BY <2>2
    <3>2. \/ Woken # {}
          \/ \E u \in Threads : pc[u] = "notify" /\ u \notin dangling
      BY <2>2 DEF NoLostWakeup
    <3> QED
      BY <3>1, <3>2, <2>2, <1>3 DEF Woken, MutexTypeOK
  <2> QED
    BY <2>1, <2>2
<1> QED
  BY <1>1, <1>2, <1>4, <1>5, <1>6, <1>7

LEMMA SpuriousWakePreserves ==
  ASSUME IInv, NEW t \in Threads, SpuriousWake(t)
  PROVE  IInv'
<1>1. Blocked' = Blocked
  BY DEF SpuriousWake, Blocked
<1> QED
  BY <1>1 DEF SpuriousWake, IInv, MutexTypeOK, OwnerMatchesClients,
       WaiterCountExact, FreedIsUnused, DanglingAreNotifying, NoLostWakeup,
       Woken

LEMMA InitMutexPreserves ==
  ASSUME IInv, NEW t \in Threads, NEW type \in Types, InitMutex(t, type)
  PROVE  IInv'
<1> USE DEF InitMutex, IInv
<1>1. Blocked = {} /\ owner = NoThread /\ Blocked' = Blocked
  BY DEF FreedIsUnused, Blocked
<1>2. MutexTypeOK'
  BY MaxDepthAssumption DEF MutexTypeOK, Codes
<1>3. OwnerMatchesClients'
  BY <1>1, ThreadsAssumption DEF OwnerMatchesClients
<1>4. WaiterCountExact'
  BY <1>1, BlockedFinite, FS_EmptySet DEF WaiterCountExact
<1>5. FreedIsUnused' /\ NoLostWakeup'
  BY <1>1 DEF FreedIsUnused, NoLostWakeup
<1>6. DanglingAreNotifying'
  BY DEF DanglingAreNotifying
<1> QED
  BY <1>2, <1>3, <1>4, <1>5, <1>6

LEMMA DestroyCheckPreserves ==
  ASSUME IInv, NEW t \in Threads, DestroyCheck(t)
  PROVE  IInv'
<1> USE DEF DestroyCheck, IInv
<1>1. Blocked' = Blocked
  BY DEF Blocked, MutexTypeOK, MayCall
<1>2. Blocked = {} /\ owner = NoThread
  BY NobodyBlocked DEF InUse, WaiterCountExact
<1>3. MutexTypeOK'
  BY DEF MutexTypeOK, Places
<1>4. OwnerMatchesClients'
  BY DEF OwnerMatchesClients
<1>5. WaiterCountExact'
  BY <1>1 DEF WaiterCountExact
<1>6. FreedIsUnused'
  BY <1>1, <1>2 DEF FreedIsUnused
<1>7. DanglingAreNotifying'
  BY DEF DanglingAreNotifying, MutexTypeOK, MayCall
<1>8. NoLostWakeup'
  BY <1>2 DEF NoLostWakeup, WaiterCountExact
<1> QED
  BY <1>3, <1>4, <1>5, <1>6, <1>7, <1>8

LEMMA DestroyFreePreserves ==
  ASSUME IInv, NEW t \in Threads, DestroyFree(t)
  PROVE  IInv'
<1> USE DEF DestroyFree, IInv
<1>1. Blocked = {} /\ owner = NoThread
  BY DEF FreedIsUnused
<1>2. Blocked' = {}
  BY <1>1 DEF Blocked, MutexTypeOK
<1>3. MutexTypeOK'
  BY DEF MutexTypeOK, Places, Codes
<1>4. OwnerMatchesClients'
  BY <1>1, ThreadsAssumption DEF OwnerMatchesClients
<1>5. WaiterCountExact'
  BY <1>1, <1>2 DEF WaiterCountExact
<1>6. FreedIsUnused'
  BY <1>1, <1>2 DEF FreedIsUnused
<1>7. DanglingAreNotifying'
  BY DEF DanglingAreNotifying, MutexTypeOK
<1>8. NoLostWakeup'
  BY DEF NoLostWakeup
<1> QED
  BY <1>3, <1>4, <1>5, <1>6, <1>7, <1>8

---------------------------------------------------------------------------
(* One pass of the loop of mutex_lock_internal, first or later: the pass   *)
(* begins with the count of the other blocked threads.                     *)
LEMMA LockPassPreserves ==
  ASSUME IInv, NEW t \in Threads, NEW try_only \in BOOLEAN, NEW waiting \in Nat,
         live, pc[t] \in {"out", "blocked"}, t \notin sleepers,
         waiting = Cardinality(Blocked \ {t}),
         ~ \E u \in Threads : pc[u] = "freeing",
         LockPass(t, try_only, waiting)
  PROVE  IInv'
<1> USE DEF IInv
<1>0. UNCHANGED <<live, mutex_type, cond_waiter_count, dangling>>
  BY DEF LockPass
<1>1. DanglingAreNotifying'
  BY <1>0 DEF LockPass, TakeFree, TakeAgain, RefuseRelock, RefuseTry, Sleep,
              LockReturn, DanglingAreNotifying, MutexTypeOK
<1>2. CASE Sleep(t, waiting)
  <2> USE <1>0, <1>2 DEF Sleep
  <2>1. Blocked' = (Blocked \ {t}) \cup {t}
    BY DEF Blocked, MutexTypeOK
  <2>2. Cardinality(Blocked') = waiting + 1
    BY <2>1, BlockedFinite, FS_AddElement, FS_Subset
  <2>3. MutexTypeOK'
    BY DEF MutexTypeOK, Places
  <2>4. WaiterCountExact'
    BY <2>1, <2>2 DEF WaiterCountExact
  <2>5. OwnerMatchesClients'
    BY DEF OwnerMatchesClients
  <2>6. FreedIsUnused' /\ NoLostWakeup'
    BY DEF FreedIsUnused, NoLostWakeup, Contended, MutexTypeOK
  <2> QED
    BY <1>1, <2>3, <2>4, <2>5, <2>6
<1>3. ASSUME NEW code \in Codes, LockReturn(t, code, waiting),
             \/ TakeFree(t, waiting)
             \/ TakeAgain(t, waiting)
             \/ UNCHANGED <<owner, recursion_depth, held>> /\ owner # NoThread
      PROVE  IInv'
  <2> USE <1>0, <1>3 DEF LockReturn
  <2>1. Blocked' = Blocked \ {t}
    BY DEF Blocked, MutexTypeOK
  <2>2. WaiterCountExact'
    BY <2>1 DEF WaiterCountExact
  <2>3. /\ recursion_depth' \in 0..MaxDepth
        /\ owner' \in Threads
        /\ held' \in [Threads -> Nat]
    BY MaxDepthAssumption DEF TakeFree, TakeAgain, MutexTypeOK
  <2>4. MutexTypeOK'
    BY <2>3 DEF MutexTypeOK, Places
  <2>5. OwnerMatchesClients'
    BY ThreadsAssumption, MaxDepthAssumption
    DEF TakeFree, TakeAgain, OwnerMatchesClients, MutexTypeOK
  <2>6. FreedIsUnused' /\ NoLostWakeup'
    BY <2>3, ThreadsAssumption DEF FreedIsUnused, NoLostWakeup, MutexTypeOK
  <2> QED
    BY <1>1, <2>2, <2>4, <2>5, <2>6
<1>4. CASE TakeFree(t, waiting)
  BY <1>3, <1>4 DEF TakeFree, Codes
<1>5. CASE TakeAgain(t, waiting)
  BY <1>3, <1>5 DEF TakeAgain, Codes
<1>6. CASE RefuseRelock(t, try_only, waiting)
  BY <1>3, <1>6, ThreadsAssumption DEF RefuseRelock, Codes
<1>7. CASE RefuseTry(t, waiting)
  BY <1>3, <1>7 DEF RefuseTry, Contended, Codes
<1> QED
  BY <1>2, <1>4, <1>5, <1>6, <1>7 DEF LockPass

LEMMA EnterPreserves ==
  ASSUME IInv, NEW t \in Threads, Lock(t) \/ Trylock(t)
  PROVE  IInv'
<1>1. pc[t] = "out" /\ live /\ ~ \E u \in Threads : pc[u] = "freeing"
  BY DEF Lock, Trylock, MayCall
<1>2. t \notin Blocked /\ t \notin sleepers
  BY <1>1 DEF Blocked, IInv, WaiterCountExact
<1>3. waiter_count = Cardinality(Blocked \ {t}) /\ waiter_count \in Nat
  <2>1. Blocked \ {t} = Blocked
    BY <1>2
  <2> QED
    BY <2>1 DEF IInv, WaiterCountExact, MutexTypeOK
<1>4. \E try_only \in BOOLEAN : LockPass(t, try_only, waiter_count)
  BY DEF Lock, Trylock
<1> QED
  BY <1>1, <1>2, <1>3, <1>4, LockPassPreserves

LEMMA RetryPreserves ==
  ASSUME IInv, NEW t \in Threads, Retry(t)
  PROVE  IInv'
<1>1. t \in Blocked /\ t \notin sleepers /\ pc[t] = "blocked"
  BY DEF Retry, Woken, Blocked
<1>2. live /\ ~ \E u \in Threads : pc[u] = "freeing"
  BY <1>1 DEF IInv, FreedIsUnused
<1>3. /\ SatSub(waiter_count) = Cardinality(Blocked \ {t})
      /\ SatSub(waiter_count) \in Nat
  BY <1>1, BlockedShrinks, BlockedFinite DEF IInv, WaiterCountExact, SatSub
<1>4. LockPass(t, FALSE, SatSub(waiter_count))
  BY DEF Retry
<1> QED
  BY <1>1, <1>2, <1>3, <1>4, LockPassPreserves

---------------------------------------------------------------------------
LEMMA InitEstablishes == MutexInit => IInv
<1> SUFFICES ASSUME MutexInit PROVE IInv
  OBVIOUS
<1> USE DEF MutexInit
<1>1. Blocked = {}
  BY DEF Blocked
<1>2. WaiterCountExact
  BY <1>1, FS_EmptySet DEF WaiterCountExact
<1>3. MutexTypeOK
  <2>1. recursion_depth \in 0..MaxDepth
    BY MaxDepthAssumption
  <2>2. pc \in [Threads -> Places] /\ held \in [Threads -> Nat]
    BY DEF Places
  <2> QED
    BY <2>1, <2>2 DEF MutexTypeOK, Codes
<1>4. OwnerMatchesClients
  BY ThreadsAssumption DEF OwnerMatchesClients
<1>5. FreedIsUnused /\ DanglingAreNotifying /\ NoLostWakeup
  BY <1>1 DEF FreedIsUnused, DanglingAreNotifying, NoLostWakeup
<1> QED
  BY <1>2, <1>3, <1>4, <1>5 DEF IInv

LEMMA StepPreserves == IInv /\ [Next]_mutexVars => IInv'
<1> SUFFICES ASSUME IInv, [Next]_mutexVars PROVE IInv'
  OBVIOUS
<1>1. CASE UNCHANGED mutexVars
  BY <1>1 DEF IInv, mutexVars, MutexTypeOK, OwnerMatchesClients, Blocked, Woken,
       WaiterCountExact, FreedIsUnused, DanglingAreNotifying, NoLostWakeup
<1>2. ASSUME NEW t \in Threads, ClientCall(t)
      PROVE  IInv'
  <2>1. CASE \E type \in Types : InitMutex(t, type)
    BY <2>1, InitMutexPreserves
  <2>2. CASE InitMutexBusy(t) \/ Uninitialized(t) \/ DestroyBusy(t)
    BY <2>2, FailPreserves DEF InitMutexBusy, Uninitialized, DestroyBusy, Codes
  <2>3. CASE Lock(t) \/ Trylock(t)
    BY <2>3, EnterPreserves
  <2>4. CASE Unlock(t)
    BY <2>4, UnlockPassPreserves DEF Unlock, MayCall
  <2>5. CASE DestroyCheck(t)
    BY <2>5, DestroyCheckPreserves
  <2> QED
    BY <1>2, <2>1, <2>2, <2>3, <2>4, <2>5 DEF ClientCall
<1>3. ASSUME NEW t \in Threads, Progress(t)
      PROVE  IInv'
  BY <1>3, RetryPreserves, UnlockNotifyPreserves, DestroyFreePreserves
  DEF Progress
<1>4. ASSUME NEW t \in Threads, SpuriousWake(t)
      PROVE  IInv'
  BY <1>4, SpuriousWakePreserves
<1> QED
  BY <1>1, <1>2, <1>3, <1>4 DEF Next

LEMMA Invariance == Spec => []IInv
BY InitEstablishes, StepPreserves, PTL DEF Spec

(* Every variable of the mutex keeps its type; in particular no counter of *)
(* PthreadMutexLockState goes below zero.                                  *)
THEOREM MutexTypeCorrect == Spec => []MutexTypeOK
<1>1. IInv => MutexTypeOK
  BY DEF IInv
<1> QED
  BY <1>1, Invariance, PTL

(* Mutual exclusion: at any moment at most one thread holds acquisitions   *)
(* granted by mutex_lock_internal, as many as the recorded depth.          *)
THEOREM MutualExclusion == Spec => []OwnerMatchesClients
<1>1. IInv => OwnerMatchesClients
  BY DEF IInv
<1> QED
  BY <1>1, Invariance, PTL

(* waiter_count is exact, so the EBUSY test of pthread_mutex_destroy sees  *)
(* every thread in the wait loop.                                          *)
THEOREM WaitersAreCounted == Spec => []WaiterCountExact
<1>1. IInv => WaiterCountExact
  BY DEF IInv
<1> QED
  BY <1>1, Invariance, PTL

(* Both parts of what pthread_mutex_destroy relies on when it reads the    *)
(* lock state: its fields have their types and the waiters are counted.    *)
THEOREM StateIsSound == Spec => []MutexStateIsSound
BY MutexTypeCorrect, WaitersAreCounted, PTL DEF MutexStateIsSound

(* The notify_one that mutex_unlock_internal sends after dropping the      *)
(* inner lock is never lost to a barging thread: a free mutex with         *)
(* sleepers always has a notification or a woken waiter on its way.        *)
THEOREM NoWakeupIsLost == Spec => []NoLostWakeup
<1>1. IInv => NoLostWakeup
  BY DEF IInv
<1> QED
  BY <1>1, Invariance, PTL

(* A mutex being freed, or freed, has no owner and no blocked thread.      *)
THEOREM FreeOnlyUnused == Spec => []FreedIsUnused
<1>1. IInv => FreedIsUnused
  BY DEF IInv
<1> QED
  BY <1>1, Invariance, PTL

---------------------------------------------------------------------------
(* Refinement of AbstractMutex.                                            *)
LEMMA UnlockRefines ==
  ASSUME IInv, NEW t \in Threads, Unlock(t)
  PROVE  Abstract!Next \/ UNCHANGED Abstract!vars
<1>1. CASE UnlockNotOwner(t)
  BY <1>1 DEF UnlockNotOwner, Fail, Abstract!vars
<1>2. CASE UnlockLevel(t, FALSE) \/ UnlockFully(t, FALSE)
  <2>1. held[t] > 0
    BY <1>2, ThreadsAssumption, MaxDepthAssumption
    DEF UnlockLevel, UnlockFully, IInv, OwnerMatchesClients, MutexTypeOK
  <2>2. held' = [held EXCEPT ![t] = @ - 1]
    BY <1>2 DEF UnlockLevel, UnlockFully
  <2>3. Abstract!Release(t)
    BY <1>2, <2>1, <2>2
    DEF Abstract!Release, Unlock, UnlockLevel, UnlockFully
  <2> QED
    BY <2>3 DEF Abstract!Next
<1> QED
  BY <1>1, <1>2 DEF Unlock, UnlockPass

LEMMA LockPassRefines ==
  ASSUME IInv, live, NEW t \in Threads, NEW try_only \in BOOLEAN, NEW waiting,
         LockPass(t, try_only, waiting)
  PROVE  Abstract!Next \/ UNCHANGED Abstract!vars
<1>1. CASE TakeFree(t, waiting) \/ TakeAgain(t, waiting)
  <2>1. \A u \in Threads \ {t} : held[u] = 0
    BY <1>1, ThreadsAssumption DEF TakeFree, TakeAgain, IInv, OwnerMatchesClients
  <2>2. held[t] > 0 => mutex_type = "RECURSIVE"
    BY <1>1, ThreadsAssumption DEF TakeFree, TakeAgain, IInv, OwnerMatchesClients
  <2>3. Abstract!Acquire(t)
    BY <1>1, <2>1, <2>2
    DEF Abstract!Acquire, TakeFree, TakeAgain, LockPass
  <2> QED
    BY <2>3 DEF Abstract!Next
<1>2. CASE RefuseRelock(t, try_only, waiting) \/ RefuseTry(t, waiting) \/ Sleep(t, waiting)
  BY <1>2 DEF RefuseRelock, RefuseTry, Sleep, LockPass, Abstract!vars
<1> QED
  BY <1>1, <1>2 DEF LockPass

LEMMA StepRefines ==
  ASSUME IInv, [Next]_mutexVars
  PROVE  [Abstract!Next]_(Abstract!vars)
<1>1. CASE UNCHANGED mutexVars
  BY <1>1 DEF mutexVars, Abstract!vars
<1>2. ASSUME NEW t \in Threads, ClientCall(t)
      PROVE  Abstract!Next \/ UNCHANGED Abstract!vars
  <2>1. CASE \E type \in Types : InitMutex(t, type)
    BY <2>1 DEF InitMutex, Abstract!Create, Abstract!Next
  <2>2. CASE InitMutexBusy(t) \/ Uninitialized(t) \/ DestroyBusy(t)
    BY <2>2 DEF InitMutexBusy, Uninitialized, DestroyBusy, Fail, Abstract!vars
  <2>3. CASE Lock(t) \/ Trylock(t)
    BY <2>3, LockPassRefines DEF Lock, Trylock
  <2>4. CASE Unlock(t)
    BY <2>4, UnlockRefines
  <2>5. CASE DestroyCheck(t)
    BY <2>5 DEF DestroyCheck, Abstract!vars
  <2> QED
    BY <1>2, <2>1, <2>2, <2>3, <2>4, <2>5 DEF ClientCall
<1>3. ASSUME NEW t \in Threads, Progress(t)
      PROVE  Abstract!Next \/ UNCHANGED Abstract!vars
  <2>1. CASE Retry(t)
    <3>1. live
      BY <2>1 DEF Retry, Woken, IInv, FreedIsUnused
    <3> QED
      BY <2>1, <3>1, LockPassRefines DEF Retry
  <2>2. CASE UnlockNotify(t)
    BY <2>2 DEF UnlockNotify, Abstract!vars
  <2>3. CASE DestroyFree(t)
    <3>1. owner = NoThread
      BY <2>3 DEF DestroyFree, IInv, FreedIsUnused
    <3>2. \A u \in Threads : held[u] = 0
      BY <3>1, ThreadsAssumption DEF IInv, OwnerMatchesClients
    <3>3. Abstract!Unheld
      BY <3>2 DEF Abstract!Unheld
    <3>4. CASE live
      BY <2>3, <3>3, <3>4 DEF DestroyFree, Abstract!Delete, Abstract!Next
    <3>5. CASE ~live
      <4>1. live = FALSE
        BY <3>5 DEF IInv, MutexTypeOK
      <4> QED
        BY <2>3, <4>1 DEF DestroyFree, Abstract!vars
    <3> QED
      BY <3>4, <3>5
  <2> QED
    BY <1>3, <2>1, <2>2, <2>3 DEF Progress
<1>4. ASSUME NEW t \in Threads, SpuriousWake(t)
      PROVE  UNCHANGED Abstract!vars
  BY <1>4 DEF SpuriousWake, Abstract!vars
<1> QED
  BY <1>1, <1>2, <1>3, <1>4 DEF Next

(* The mutex of pthread.rs, with its inner lock, its wait loop and its     *)
(* late notification, implements the atomic mutex its documentation        *)
(* describes.                                                              *)
THEOREM Refinement == Spec => ImplementsAbstractMutex
<1>1. MutexInit => Abstract!Init
  BY DEF MutexInit, Abstract!Init
<1>2. IInv /\ [Next]_mutexVars => [Abstract!Next]_(Abstract!vars)
  BY StepRefines
<1> QED
  BY <1>1, <1>2, Invariance, PTL DEF Spec, ImplementsAbstractMutex, Abstract!Spec

---------------------------------------------------------------------------
(* The condition variable                                                  *)

LockPlaces == {"unlocking", "committing", "signalling", "broadcasting"}
WaitPlaces == {"unlocking", "committing", "waiting", "relocking"}

InitLockHeld ==
  \A t \in Threads : init_lock = t <=> cpc[t] \in LockPlaces

SleepersAreWaiting == \A t \in cond_sleepers : cpc[t] = "waiting"

NoFreeUnderWait ==
  \A t \in Threads : cpc[t] \in WaitPlaces =>
    live /\ (\A u \in Threads : pc[u] # "freeing")

ThreadShape(t) ==
  /\ cpc[t] \in {"unlocking", "waiting", "signalling", "broadcasting"} => pc[t] = "out"
  /\ cpc[t] = "committing" => pc[t] \in {"out", "notify"}
  /\ cpc[t] = "relocking" => pc[t] \in {"out", "blocked"}

(* The depth the wait found is still known, and what it has given back.    *)
DepthShape(t) ==
  /\ cpc[t] \in WaitPlaces =>
       /\ recursive_depth[t] > 0
       /\ mutex_type # "RECURSIVE" => recursive_depth[t] = 1
  /\ cpc[t] = "unlocking" => owner = t /\ recursive_depth[t] = recursion_depth
  /\ cpc[t] \in {"committing", "waiting"} => held[t] = 0
  /\ cpc[t] = "relocking" => held[t] + to_relock[t] = recursive_depth[t]

WaitShape == \A t \in Threads : ThreadShape(t) /\ DepthShape(t)

CondIInv ==
  /\ IInv
  /\ CondTypeOK
  /\ CondCountersExact
  /\ ObjectsOutliveWaits
  /\ WakeupsReachWaiters
  /\ InitLockHeld
  /\ SleepersAreWaiting
  /\ NoFreeUnderWait
  /\ WaitShape

---------------------------------------------------------------------------
(* The sets of waiting threads.                                            *)
LEMMA WaitSetsFinite ==
  /\ IsFiniteSet(Registered) /\ Cardinality(Registered) \in Nat
  /\ IsFiniteSet(InWait) /\ Cardinality(InWait) \in Nat
  /\ IsFiniteSet(AwakeWaiters) /\ Cardinality(AwakeWaiters) \in Nat
<1>1. /\ Registered \in SUBSET Threads
      /\ InWait \in SUBSET Threads
      /\ AwakeWaiters \in SUBSET Threads
  BY DEF Registered, InWait, AwakeWaiters
<1>2. IsFiniteSet(Registered) /\ IsFiniteSet(InWait) /\ IsFiniteSet(AwakeWaiters)
  BY <1>1, ThreadsAssumption, FS_Subset
<1> QED
  BY <1>2, FS_CardinalityType

(* A step of the mutex functions by u, as seen by the other threads.       *)
LEMMA MutexFrame ==
  ASSUME IInv, NEW u \in Threads,
         ClientCall(u) \/ Progress(u) \/ SpuriousWake(u)
  PROVE  /\ \A t \in Threads \ {u} : held'[t] = held[t] /\ pc'[t] = pc[t]
         /\ \A t \in Threads \ {u} : owner = t => UNCHANGED <<owner, recursion_depth>>
         /\ live => mutex_type' = mutex_type /\ cond_waiter_count' = cond_waiter_count
         /\ ~live /\ live' => cond_waiter_count' = 0
         /\ live /\ pc[u] # "freeing" => live'
         /\ pc[u] # "freeing" => dangling' \subseteq dangling
<1> USE DEF IInv
<1>1. CASE ClientCall(u)
  <2>1. CASE \E type \in Types : InitMutex(u, type)
    BY <2>1, ThreadsAssumption DEF InitMutex, MayCall, FreedIsUnused
  <2>2. CASE InitMutexBusy(u) \/ Uninitialized(u) \/ DestroyBusy(u)
    BY <2>2 DEF InitMutexBusy, Uninitialized, DestroyBusy, Fail
  <2>3. CASE Lock(u) \/ Trylock(u)
    BY <2>3, ThreadsAssumption
    DEF Lock, Trylock, LockPass, TakeFree, TakeAgain, RefuseRelock, RefuseTry,
        Sleep, LockReturn, MutexTypeOK
  <2>4. CASE Unlock(u)
    BY <2>4
    DEF Unlock, UnlockPass, UnlockNotOwner, UnlockLevel, UnlockFully, Fail,
        MutexTypeOK
  <2>5. CASE DestroyCheck(u)
    BY <2>5 DEF DestroyCheck, MutexTypeOK
  <2> QED
    BY <1>1, <2>1, <2>2, <2>3, <2>4, <2>5 DEF ClientCall
<1>2. CASE Progress(u)
  <2>1. CASE Retry(u)
    BY <2>1, ThreadsAssumption
    DEF Retry, LockPass, TakeFree, TakeAgain, RefuseRelock, RefuseTry, Sleep,
        LockReturn, MutexTypeOK
  <2>2. CASE UnlockNotify(u)
    BY <2>2 DEF UnlockNotify, MutexTypeOK
  <2>3. CASE DestroyFree(u)
    BY <2>3 DEF DestroyFree, MutexTypeOK
  <2> QED
    BY <1>2, <2>1, <2>2, <2>3 DEF Progress
<1>3. CASE SpuriousWake(u)
  BY <1>3 DEF SpuriousWake
<1> QED
  BY <1>1, <1>2, <1>3

---------------------------------------------------------------------------
(* Steps that change only the mutex.                                       *)
LEMMA MutexStepPreserves ==
  ASSUME CondIInv, NEW u \in Threads, UNCHANGED condVars,
         \/ cpc[u] = "out" /\ ClientCall(u)
         \/ cpc[u] # "relocking" /\ Progress(u)
         \/ SpuriousWake(u)
  PROVE  CondIInv'
<1> USE DEF CondIInv, condVars
<1>1. IInv'
  BY StepPreserves DEF Next
<1>2. /\ \A t \in Threads \ {u} : held'[t] = held[t] /\ pc'[t] = pc[t]
      /\ \A t \in Threads \ {u} : owner = t => UNCHANGED <<owner, recursion_depth>>
      /\ live => mutex_type' = mutex_type /\ cond_waiter_count' = cond_waiter_count
      /\ ~live /\ live' => cond_waiter_count' = 0
      /\ live /\ pc[u] # "freeing" => live'
      /\ pc[u] # "freeing" => dangling' \subseteq dangling
  BY MutexFrame
<1>3. UNCHANGED <<Registered, InWait, AwakeWaiters>>
  BY DEF Registered, InWait, AwakeWaiters
<1>4. CondTypeOK'
  BY <1>1 DEF CondTypeOK, IInv
<1>5. \A t \in Threads : cpc[t] \in WaitPlaces =>
        /\ live /\ live'
        /\ pc[u] # "freeing"
        /\ cond_waiter_count' = cond_waiter_count
        /\ mutex_type' = mutex_type
        /\ dangling' \subseteq dangling
  BY <1>2 DEF NoFreeUnderWait
<1>6. InWait = {t \in Threads : cpc[t] \in WaitPlaces}
  BY DEF InWait, WaitPlaces
<1>7. CondCountersExact'
  <2>1. ASSUME live'
        PROVE  cond_waiter_count' = Cardinality(InWait)
    <3>1. CASE live
      BY <1>2, <3>1 DEF CondCountersExact
    <3>2. CASE ~live
      <4>1. InWait = {}
        BY <1>6, <3>2 DEF NoFreeUnderWait
      <4> QED
        BY <1>2, <2>1, <3>2, <4>1, FS_EmptySet
    <3> QED
      BY <3>1, <3>2
  <2> QED
    BY <1>1, <1>3, <2>1 DEF CondCountersExact, IInv
<1>8. ObjectsOutliveWaits'
  BY <1>3, <1>5, <1>6 DEF ObjectsOutliveWaits
<1>9. WakeupsReachWaiters'
  BY <1>1, <1>3 DEF WakeupsReachWaiters, IInv
<1>10. InitLockHeld' /\ SleepersAreWaiting'
  BY DEF InitLockHeld, SleepersAreWaiting
<1>11. NoFreeUnderWait'
  <2> SUFFICES ASSUME NEW t \in Threads, cpc[t] \in WaitPlaces,
                      NEW w \in Threads
               PROVE  live' /\ pc'[w] # "freeing"
    BY DEF NoFreeUnderWait
  <2>1. live' /\ live /\ pc[w] # "freeing" /\ pc[u] # "freeing"
    BY <1>5 DEF NoFreeUnderWait
  <2>2. ~DestroyCheck(u)
    <3>1. cond_waiter_count # 0
      <4>1. t \in InWait
        BY <1>6
      <4> QED
        BY <2>1, <4>1, WaitSetsFinite, FS_EmptySet DEF CondCountersExact
    <3> QED
      BY <3>1 DEF DestroyCheck, InUse
  <2>3. pc'[u] # "freeing"
    BY <2>1, <2>2
    DEF ClientCall, InitMutex, InitMutexBusy, Uninitialized, DestroyBusy, Fail,
        Lock, Trylock, Unlock, UnlockPass, UnlockNotOwner, UnlockLevel,
        UnlockFully, LockPass, TakeFree, TakeAgain, RefuseRelock, RefuseTry,
        Sleep, LockReturn, Progress, Retry, UnlockNotify, DestroyFree,
        SpuriousWake, IInv, MutexTypeOK
  <2> QED
    BY <1>2, <2>1, <2>3
<1>12. WaitShape'
  <2> SUFFICES ASSUME NEW t \in Threads
               PROVE  ThreadShape(t)' /\ DepthShape(t)'
    BY DEF WaitShape
  <2>1. ThreadShape(t) /\ DepthShape(t)
    BY DEF WaitShape
  <2>2. CASE cpc[t] = "out"
    BY <2>2 DEF ThreadShape, DepthShape, WaitPlaces
  <2>3. CASE cpc[t] # "out" /\ t # u
    <3>1. held'[t] = held[t] /\ pc'[t] = pc[t]
      BY <1>2, <2>3
    <3>2. owner = t => owner' = t /\ recursion_depth' = recursion_depth
      BY <1>2, <2>3
    <3> QED
      BY <1>5, <2>1, <3>1, <3>2 DEF ThreadShape, DepthShape, WaitPlaces
  <2>4. CASE cpc[t] # "out" /\ t = u /\ SpuriousWake(u)
    BY <2>1, <2>4 DEF SpuriousWake, ThreadShape, DepthShape
  <2>5. CASE cpc[t] # "out" /\ t = u /\ cpc[u] # "relocking" /\ Progress(u)
    <3>1. pc[t] # "out"
      BY <2>5 DEF Progress, Retry, Woken, Blocked, UnlockNotify, DestroyFree
    <3>2. cpc[t] = "committing" /\ pc[t] = "notify"
      BY <2>1, <2>5, <3>1 DEF ThreadShape, CondTypeOK, CondPlaces
    <3>3. UnlockNotify(t)
      BY <2>5, <3>2 DEF Progress, Retry, Woken, Blocked, DestroyFree
    <3> QED
      BY <2>1, <3>2, <3>3
      DEF UnlockNotify, ThreadShape, DepthShape, IInv, MutexTypeOK
  <2> QED
    BY <2>2, <2>3, <2>4, <2>5
<1> QED
  BY <1>1, <1>4, <1>7, <1>8, <1>9, <1>10, <1>11, <1>12

---------------------------------------------------------------------------
(* Steps of the cond functions.  All but two leave the mutex to itself,    *)
(* save for the references on it and the code returned.                    *)
LEMMA MutexKept ==
  ASSUME IInv, cond_waiter_count' \in Nat, result' \in Codes,
         UNCHANGED <<live, mutex_type, owner, recursion_depth, waiter_count,
                     sleepers, pc, dangling, held>>
  PROVE  IInv'
BY DEF IInv, MutexTypeOK, OwnerMatchesClients, WaiterCountExact, FreedIsUnused,
       DanglingAreNotifying, NoLostWakeup, Blocked, Woken

LEMMA ReturnOnlyPreserves ==
  ASSUME CondIInv, NEW code \in Codes, CondReturn(code), UNCHANGED condVars
  PROVE  CondIInv'
<1> USE DEF CondIInv, CondReturn, Fail, condVars
<1>1. IInv'
  BY MutexKept DEF IInv, MutexTypeOK
<1>2. CondTypeOK'
  BY <1>1 DEF CondTypeOK, IInv
<1>3. UNCHANGED <<Registered, InWait, AwakeWaiters>>
  BY DEF Registered, InWait, AwakeWaiters
<1>4. CondCountersExact' /\ ObjectsOutliveWaits' /\ WakeupsReachWaiters'
  BY <1>1, <1>3 DEF CondCountersExact, ObjectsOutliveWaits, WakeupsReachWaiters, IInv
<1>5. InitLockHeld' /\ SleepersAreWaiting' /\ NoFreeUnderWait'
  BY DEF InitLockHeld, SleepersAreWaiting, NoFreeUnderWait
<1>6. WaitShape'
  BY DEF WaitShape, ThreadShape, DepthShape
<1> QED
  BY <1>1, <1>2, <1>4, <1>5, <1>6

(* Nobody is registered with a cond that is not live, nor with a live one  *)
(* whose count is zero; and then nobody sleeps on it.                      *)
LEMMA Unused ==
  ASSUME CondIInv, cond = "live" => cond_waiters = 0
  PROVE  Registered = {} /\ cond_sleepers = {}
<1>1. Registered = {}
  BY WaitSetsFinite, FS_EmptySet
  DEF CondIInv, CondCountersExact, ObjectsOutliveWaits
<1>2. cond_sleepers \subseteq Registered
  BY DEF CondIInv, SleepersAreWaiting, CondTypeOK, Registered
<1> QED
  BY <1>1, <1>2

LEMMA InitCondPreserves ==
  ASSUME CondIInv, NEW t \in Threads, InitCond(t)
  PROVE  CondIInv'
<1> USE DEF CondIInv, InitCond, CondReturn, Fail, waitLocals
<1>1. IInv'
  BY MutexKept DEF IInv, MutexTypeOK, Codes
<1>2. CondTypeOK'
  BY <1>1 DEF CondTypeOK, IInv
<1>3. UNCHANGED <<Registered, InWait>> /\ Registered = {}
  BY Unused DEF Registered, InWait
<1>4. CondCountersExact'
  BY <1>1, <1>3, FS_EmptySet DEF CondCountersExact, IInv
<1>5. ObjectsOutliveWaits'
  BY <1>3 DEF ObjectsOutliveWaits
<1>6. WakeupsReachWaiters'
  <2>1. AwakeWaiters' = {}
    BY <1>3 DEF AwakeWaiters
  <2> QED
    BY <1>1, <2>1, FS_EmptySet DEF WakeupsReachWaiters, IInv
<1>7. InitLockHeld' /\ SleepersAreWaiting' /\ NoFreeUnderWait'
  BY DEF InitLockHeld, SleepersAreWaiting, NoFreeUnderWait
<1>8. WaitShape'
  BY DEF WaitShape, ThreadShape, DepthShape
<1> QED
  BY <1>1, <1>2, <1>4, <1>5, <1>6, <1>7, <1>8

LEMMA DestroyCondPreserves ==
  ASSUME CondIInv, NEW t \in Threads, DestroyCond(t)
  PROVE  CondIInv'
<1> USE DEF CondIInv, DestroyCond, CondReturn, Fail, waitLocals
<1>1. IInv'
  BY MutexKept DEF IInv, MutexTypeOK, Codes
<1>2. CondTypeOK'
  BY <1>1 DEF CondTypeOK, IInv
<1>3. UNCHANGED <<Registered, InWait>> /\ Registered = {}
  BY Unused DEF Registered, InWait
<1>4. CondCountersExact' /\ ObjectsOutliveWaits' /\ WakeupsReachWaiters'
  BY <1>1, <1>3 DEF CondCountersExact, ObjectsOutliveWaits, WakeupsReachWaiters, IInv
<1>5. InitLockHeld' /\ SleepersAreWaiting' /\ NoFreeUnderWait'
  BY DEF InitLockHeld, SleepersAreWaiting, NoFreeUnderWait
<1>6. WaitShape'
  BY DEF WaitShape, ThreadShape, DepthShape
<1> QED
  BY <1>1, <1>2, <1>4, <1>5, <1>6

(* What a wait finds after the lazy init: as many waiters as it counts,    *)
(* and no more wakeups than waiters awake.                                 *)
LEMMA LazyInitFinds ==
  ASSUME CondIInv, LazyInit, init_lock = NoThread
  PROVE  /\ cond' = "live"
         /\ CurrentCondWaiters = Cardinality(Registered)
         /\ pending_wakeups' \in Nat
         /\ pending_wakeups' <= CurrentCondWaiters
         /\ pending_wakeups' <= Cardinality(AwakeWaiters)
         /\ cond_sleepers' = cond_sleepers
<1> USE DEF CondIInv, LazyInit, CurrentCondWaiters
<1>1. CASE cond = "live"
  <2>1. \A t \in Threads : cpc[t] \notin {"signalling", "broadcasting"}
    BY ThreadsAssumption DEF InitLockHeld, LockPlaces
  <2> QED
    BY <1>1, <2>1 DEF CondCountersExact, WakeupsReachWaiters, CondTypeOK
<1>2. CASE cond # "live"
  <2>1. Registered = {} /\ cond_sleepers = {}
    BY <1>2, Unused
  <2>2. Cardinality(Registered) = 0 /\ AwakeWaiters = {}
    BY <2>1, FS_EmptySet DEF AwakeWaiters
  <2> QED
    BY <1>2, <2>1, <2>2, FS_EmptySet
<1> QED
  BY <1>1, <1>2

LEMMA WaitRefusedPreserves ==
  ASSUME CondIInv, NEW t \in Threads, WaitRefused(t)
  PROVE  CondIInv'
<1> USE DEF CondIInv, WaitRefused, CondReturn, Fail, waitLocals, MayCallCond
<1>1. IInv'
  BY MutexKept DEF IInv, MutexTypeOK, Codes
<1>2. UNCHANGED <<Registered, InWait>>
  BY DEF Registered, InWait
<1>3. /\ cond' = "live"
      /\ cond_waiters' = Cardinality(Registered)
      /\ pending_wakeups' \in Nat
      /\ pending_wakeups' <= cond_waiters'
      /\ pending_wakeups' <= Cardinality(AwakeWaiters)
      /\ cond_sleepers' = cond_sleepers
  BY LazyInitFinds
<1>4. CondTypeOK'
  BY <1>1, <1>3, WaitSetsFinite DEF CondTypeOK, IInv
<1>5. CondCountersExact'
  BY <1>1, <1>2, <1>3 DEF CondCountersExact, IInv
<1>6. ObjectsOutliveWaits'
  BY <1>2, <1>3 DEF ObjectsOutliveWaits
<1>7. WakeupsReachWaiters'
  <2>1. AwakeWaiters' = AwakeWaiters
    BY <1>2, <1>3 DEF AwakeWaiters
  <2> QED
    BY <1>1, <1>3, <2>1 DEF WakeupsReachWaiters, IInv
<1>8. InitLockHeld' /\ SleepersAreWaiting' /\ NoFreeUnderWait'
  BY <1>3 DEF InitLockHeld, SleepersAreWaiting, NoFreeUnderWait
<1>9. WaitShape'
  BY DEF WaitShape, ThreadShape, DepthShape
<1> QED
  BY <1>1, <1>4, <1>5, <1>6, <1>7, <1>8, <1>9

---------------------------------------------------------------------------
(* pthread_cond_signal and pthread_cond_broadcast.                         *)
LEMMA RecordWakeupPreserves ==
  ASSUME CondIInv, NEW t \in Threads, NEW wakeups \in Nat,
         NEW place \in {"signalling", "broadcasting"},
         RecordWakeup(t, wakeups, place), due' \in SUBSET Threads,
         wakeups <= cond_waiters,
         place = "signalling" => wakeups <= pending_wakeups + 1
  PROVE  CondIInv'
<1> USE DEF CondIInv, RecordWakeup, waitLocals, MayCallCond, Idle
<1>1. IInv'
  BY MutexKept DEF IInv, MutexTypeOK, mutexVars
<1>2. CondTypeOK'
  BY <1>1 DEF CondTypeOK, IInv, CondPlaces
<1>3. UNCHANGED <<Registered, InWait, AwakeWaiters>>
  BY DEF Registered, InWait, AwakeWaiters, CondTypeOK
<1>4. CondCountersExact' /\ ObjectsOutliveWaits'
  BY <1>1, <1>3 DEF CondCountersExact, ObjectsOutliveWaits, IInv, mutexVars
<1>5. WakeupsReachWaiters'
  <2>1. \A u \in Threads : cpc[u] \notin {"signalling", "broadcasting"}
    BY ThreadsAssumption DEF InitLockHeld, LockPlaces
  <2>2. pending_wakeups <= Cardinality(AwakeWaiters)
    BY <2>1 DEF WakeupsReachWaiters
  <2>3. cpc'[t] = place
    BY DEF CondTypeOK
  <2>4. place = "signalling" => pending_wakeups' <= Cardinality(AwakeWaiters) + 1
    BY <2>2, WaitSetsFinite DEF CondTypeOK
  <2> QED
    BY <1>1, <1>3, <2>3, <2>4 DEF WakeupsReachWaiters, IInv
<1>6. InitLockHeld'
  BY ThreadsAssumption DEF InitLockHeld, LockPlaces, CondTypeOK
<1>7. SleepersAreWaiting' /\ NoFreeUnderWait'
  BY DEF SleepersAreWaiting, NoFreeUnderWait, WaitPlaces, CondTypeOK, mutexVars
<1>8. WaitShape'
  <2> SUFFICES ASSUME NEW u \in Threads
               PROVE  ThreadShape(u)' /\ DepthShape(u)'
    BY DEF WaitShape
  <2>1. ThreadShape(u) /\ DepthShape(u)
    BY DEF WaitShape
  <2> QED
    BY <2>1 DEF ThreadShape, DepthShape, WaitPlaces, CondTypeOK, mutexVars
<1> QED
  BY <1>1, <1>2, <1>4, <1>5, <1>6, <1>7, <1>8

LEMMA SignalPreserves ==
  ASSUME CondIInv, NEW t \in Threads, Signal(t)
  PROVE  CondIInv'
<1> DEFINE wakeups == IF pending_wakeups < cond_waiters THEN pending_wakeups + 1
                                                        ELSE cond_waiters
<1>1. /\ pending_wakeups \in Nat /\ cond_waiters \in Nat
      /\ cond = "live" => pending_wakeups <= cond_waiters
      /\ due' \in SUBSET Threads
  BY DEF CondIInv, CondTypeOK, WakeupsReachWaiters, Signal
<1>2. RecordWakeup(t, wakeups, "signalling") /\ cond = "live"
  BY DEF Signal, RecordWakeup
<1>3. /\ wakeups \in Nat
      /\ wakeups <= cond_waiters
      /\ wakeups <= pending_wakeups + 1
  BY <1>1, <1>2
<1> HIDE DEF wakeups
<1> QED
  BY <1>1, <1>2, <1>3, RecordWakeupPreserves

LEMMA BroadcastPreserves ==
  ASSUME CondIInv, NEW t \in Threads, Broadcast(t)
  PROVE  CondIInv'
BY RecordWakeupPreserves DEF Broadcast, CondIInv, CondTypeOK, Registered

LEMMA CondNotifyPreserves ==
  ASSUME CondIInv, NEW t \in Threads, CondNotify(t)
  PROVE  CondIInv'
<1> USE DEF CondIInv, CondNotify, CondReturn, Fail, waitLocals
<1>0. cpc[t] \in {"signalling", "broadcasting"}
  OBVIOUS
<1>1. IInv'
  BY MutexKept DEF IInv, MutexTypeOK, Codes
<1>2. cond_sleepers' \subseteq cond_sleepers
  OBVIOUS
<1>3. CondTypeOK'
  BY <1>1, <1>2 DEF CondTypeOK, IInv, CondPlaces
<1>4. UNCHANGED <<Registered, InWait>>
  BY <1>0 DEF Registered, InWait, CondTypeOK
<1>5. CondCountersExact' /\ ObjectsOutliveWaits'
  BY <1>1, <1>4 DEF CondCountersExact, ObjectsOutliveWaits, IInv
<1>6. WakeupsReachWaiters'
  <2> SUFFICES ASSUME cond = "live"
               PROVE  /\ pending_wakeups <= cond_waiters
                      /\ pending_wakeups <= Cardinality(AwakeWaiters')
    BY <1>1 DEF WakeupsReachWaiters, IInv
  <2>0. pending_wakeups <= cond_waiters
    BY DEF WakeupsReachWaiters
  <2>1. CASE cond_sleepers' = {}
    <3>1. AwakeWaiters' = Registered
      BY <1>4, <2>1 DEF AwakeWaiters
    <3> QED
      BY <2>0, <3>1 DEF CondCountersExact
  <2>2. CASE cpc[t] = "signalling"
             /\ \E s \in cond_sleepers : cond_sleepers' = cond_sleepers \ {s}
    <3>1. PICK s \in cond_sleepers : cond_sleepers' = cond_sleepers \ {s}
      BY <2>2
    <3>2. s \in Registered /\ s \notin AwakeWaiters
      BY DEF SleepersAreWaiting, Registered, AwakeWaiters, CondTypeOK
    <3>3. AwakeWaiters' = AwakeWaiters \cup {s}
      BY <1>4, <3>1, <3>2 DEF AwakeWaiters
    <3>4. Cardinality(AwakeWaiters') = Cardinality(AwakeWaiters) + 1
      BY <3>2, <3>3, WaitSetsFinite, FS_AddElement
    <3>5. \A u \in Threads : cpc[u] # "broadcasting"
      BY <2>2 DEF InitLockHeld, LockPlaces
    <3>6. pending_wakeups <= Cardinality(AwakeWaiters) + 1
      BY <3>5, WaitSetsFinite DEF WakeupsReachWaiters, CondTypeOK
    <3> QED
      BY <2>0, <3>4, <3>6
  <2> QED
    BY <2>1, <2>2
<1>7. InitLockHeld'
  BY <1>0, ThreadsAssumption DEF InitLockHeld, LockPlaces, CondTypeOK
<1>8. SleepersAreWaiting' /\ NoFreeUnderWait'
  BY <1>0, <1>2 DEF SleepersAreWaiting, NoFreeUnderWait, WaitPlaces, CondTypeOK
<1>9. WaitShape'
  <2> SUFFICES ASSUME NEW u \in Threads
               PROVE  ThreadShape(u)' /\ DepthShape(u)'
    BY DEF WaitShape
  <2>1. ThreadShape(u) /\ DepthShape(u)
    BY DEF WaitShape
  <2> QED
    BY <1>0, <2>1 DEF ThreadShape, DepthShape, WaitPlaces, CondTypeOK
<1> QED
  BY <1>1, <1>3, <1>5, <1>6, <1>7, <1>8, <1>9

---------------------------------------------------------------------------
(* pthread_cond_wait and pthread_cond_timedwait, up to the release of the  *)
(* mutex.                                                                  *)
LEMMA WaitPreserves ==
  ASSUME CondIInv, NEW t \in Threads, NEW time \in Deadlines, Wait(t, time)
  PROVE  CondIInv'
<1> USE DEF CondIInv, Wait, MayCallCond, MayCall, Idle
<1>0. cpc[t] = "out" /\ init_lock = NoThread /\ live /\ owner = t
  OBVIOUS
<1>1. IInv'
  BY MutexKept DEF IInv, MutexTypeOK
<1>2. /\ cond' = "live"
      /\ CurrentCondWaiters = Cardinality(Registered)
      /\ pending_wakeups' \in Nat
      /\ pending_wakeups' <= CurrentCondWaiters
      /\ pending_wakeups' <= Cardinality(AwakeWaiters)
      /\ cond_sleepers' = cond_sleepers
  BY LazyInitFinds
<1>3. /\ Registered' = Registered \cup {t} /\ t \notin Registered
      /\ InWait' = InWait \cup {t} /\ t \notin InWait
  BY <1>0 DEF Registered, InWait, CondTypeOK
<1>4. /\ Cardinality(Registered') = Cardinality(Registered) + 1
      /\ Cardinality(InWait') = Cardinality(InWait) + 1
  BY <1>3, WaitSetsFinite, FS_AddElement
<1>5. CondTypeOK'
  <2>1. recursive_depth' \in [Threads -> 0..MaxDepth] /\ deadline' \in [Threads -> Deadlines]
    BY DEF CondTypeOK, MutexTypeOK
  <2>2. cpc' \in [Threads -> CondPlaces] /\ cond_waiters' \in Nat
    BY <1>2, WaitSetsFinite DEF CondTypeOK, CondPlaces
  <2> QED
    BY <1>1, <1>2, <2>1, <2>2 DEF CondTypeOK, IInv
<1>6. CondCountersExact'
  BY <1>1, <1>2, <1>4 DEF CondCountersExact, IInv
<1>7. ObjectsOutliveWaits'
  <2>1. t \notin dangling
    BY DEF IInv, DanglingAreNotifying
  <2> QED
    BY <1>0, <1>2, <1>3, <2>1 DEF ObjectsOutliveWaits
<1>8. WakeupsReachWaiters'
  <2>1. t \notin cond_sleepers
    BY <1>0 DEF SleepersAreWaiting
  <2>2. AwakeWaiters' = AwakeWaiters \cup {t} /\ t \notin AwakeWaiters
    BY <1>2, <1>3, <2>1 DEF AwakeWaiters
  <2>3. Cardinality(AwakeWaiters') = Cardinality(AwakeWaiters) + 1
    BY <2>2, WaitSetsFinite, FS_AddElement
  <2>4. /\ pending_wakeups' <= cond_waiters'
        /\ pending_wakeups' <= Cardinality(AwakeWaiters')
    BY <1>2, <2>3, WaitSetsFinite
  <2> QED
    BY <1>1, <2>4 DEF WakeupsReachWaiters, IInv
<1>9. InitLockHeld'
  BY <1>0, ThreadsAssumption DEF InitLockHeld, LockPlaces, CondTypeOK
<1>10. SleepersAreWaiting'
  BY <1>0, <1>2 DEF SleepersAreWaiting, CondTypeOK
<1>11. NoFreeUnderWait'
  BY DEF NoFreeUnderWait, CondTypeOK
<1>12. WaitShape'
  <2> SUFFICES ASSUME NEW u \in Threads
               PROVE  ThreadShape(u)' /\ DepthShape(u)'
    BY DEF WaitShape
  <2>1. ThreadShape(u) /\ DepthShape(u)
    BY DEF WaitShape
  <2>2. CASE u # t
    BY <2>1, <2>2 DEF ThreadShape, DepthShape, WaitPlaces, CondTypeOK
  <2>3. CASE u = t
    <3>1. /\ recursion_depth > 0 /\ recursion_depth \in 0..MaxDepth
          /\ mutex_type # "RECURSIVE" => recursion_depth <= 1
      BY <1>0, ThreadsAssumption DEF IInv, OwnerMatchesClients, MutexTypeOK
    <3>2. mutex_type # "RECURSIVE" => recursion_depth = 1
      BY <3>1, MaxDepthAssumption
    <3>3. cpc'[u] = "unlocking" /\ recursive_depth'[u] = recursion_depth
      BY <2>3 DEF CondTypeOK
    <3> QED
      BY <1>0, <2>3, <3>1, <3>2, <3>3 DEF ThreadShape, DepthShape, WaitPlaces
  <2> QED
    BY <2>2, <2>3
<1> QED
  BY <1>1, <1>5, <1>6, <1>7, <1>8, <1>9, <1>10, <1>11, <1>12

LEMMA ReleaseForWaitPreserves ==
  ASSUME CondIInv, NEW t \in Threads, ReleaseForWait(t)
  PROVE  CondIInv'
<1> USE DEF CondIInv, ReleaseForWait, UnlockFully, condState, waitLocals
<1>0. /\ cpc[t] = "unlocking" /\ pc[t] = "out" /\ owner = t /\ live
      /\ recursive_depth[t] = recursion_depth
  BY DEF WaitShape, ThreadShape, DepthShape, NoFreeUnderWait, WaitPlaces
<1>1. IInv'
  BY <1>0, UnlockPassPreserves DEF UnlockPass
<1>2. CondTypeOK'
  BY <1>1 DEF CondTypeOK, IInv, CondPlaces
<1>3. UNCHANGED <<Registered, InWait, AwakeWaiters>>
  BY <1>0 DEF Registered, InWait, AwakeWaiters, CondTypeOK
<1>4. CondCountersExact' /\ ObjectsOutliveWaits' /\ WakeupsReachWaiters'
  <2>1. \A u \in Threads, p \in {"signalling", "broadcasting"} :
          cpc'[u] = p <=> cpc[u] = p
    BY <1>0 DEF CondTypeOK
  <2> QED
    BY <1>1, <1>3, <2>1
    DEF CondCountersExact, ObjectsOutliveWaits, WakeupsReachWaiters, IInv
<1>5. InitLockHeld' /\ SleepersAreWaiting'
  BY <1>0 DEF InitLockHeld, LockPlaces, SleepersAreWaiting, CondTypeOK
<1>6. NoFreeUnderWait'
  BY <1>0 DEF NoFreeUnderWait, WaitPlaces, CondTypeOK, IInv, MutexTypeOK
<1>7. WaitShape'
  <2> SUFFICES ASSUME NEW u \in Threads
               PROVE  ThreadShape(u)' /\ DepthShape(u)'
    BY DEF WaitShape
  <2>1. ThreadShape(u) /\ DepthShape(u)
    BY DEF WaitShape
  <2>2. CASE u = t
    BY <1>0, <2>1, <2>2
    DEF ThreadShape, DepthShape, WaitPlaces, CondTypeOK, IInv, MutexTypeOK
  <2>3. CASE u # t
    BY <1>0, <2>1, <2>3
    DEF ThreadShape, DepthShape, WaitPlaces, CondTypeOK, IInv, MutexTypeOK
  <2> QED
    BY <2>2, <2>3
<1> QED
  BY <1>1, <1>2, <1>4, <1>5, <1>6, <1>7

---------------------------------------------------------------------------
(* The check of wait_while, the first or a later one.                      *)
LEMMA LeavePreserves ==
  ASSUME CondIInv, NEW t \in Threads, Leave(t),
         cpc[t] \in {"committing", "waiting"}, pc[t] = "out",
         t \notin cond_sleepers,
         \/ cpc[t] = "committing" /\ init_lock' = NoThread
         \/ cpc[t] = "waiting" /\ UNCHANGED init_lock
  PROVE  CondIInv'
<1> USE DEF CondIInv, Leave
<1>0. live /\ cond = "live" /\ t \in Registered /\ t \in InWait /\ t \in AwakeWaiters
  BY DEF Registered, InWait, AwakeWaiters, ObjectsOutliveWaits
<1>1. IInv'
  BY MutexKept DEF IInv, MutexTypeOK, mutexVars
<1>2. /\ Registered' = Registered \ {t}
      /\ InWait' = InWait
      /\ AwakeWaiters' = AwakeWaiters \ {t}
  BY DEF Registered, InWait, AwakeWaiters, CondTypeOK
<1>3. /\ Cardinality(Registered') = Cardinality(Registered) - 1
      /\ Cardinality(Registered) # 0
      /\ Cardinality(AwakeWaiters') = Cardinality(AwakeWaiters) - 1
      /\ Cardinality(AwakeWaiters) # 0
  BY <1>0, <1>2, WaitSetsFinite, FS_EmptySet, FS_RemoveElement
<1>4. cond_waiters' = Cardinality(Registered')
  BY <1>0, <1>3, WaitSetsFinite DEF CondCountersExact, SatSub
<1>5. pending_wakeups \in Nat /\ pending_wakeups' \in Nat /\ cond_waiters' \in Nat
      /\ recursive_depth[t] \in 0..MaxDepth
  BY <1>3, <1>4, WaitSetsFinite DEF CondTypeOK, SatSub
<1>6. CondTypeOK'
  <2>1. to_relock' \in [Threads -> 0..MaxDepth]
    <3>1. 1 \in 0..MaxDepth
      BY MaxDepthAssumption
    <3> QED
      BY <1>5, <3>1 DEF CondTypeOK
  <2>2. /\ cpc' \in [Threads -> CondPlaces] /\ due' \in SUBSET Threads
        /\ timed_out' \in [Threads -> BOOLEAN] /\ init_lock' \in Threads \cup {NoThread}
    BY DEF CondTypeOK, CondPlaces
  <2> QED
    BY <1>1, <1>5, <2>1, <2>2 DEF CondTypeOK, IInv
<1>7. CondCountersExact' /\ ObjectsOutliveWaits'
  BY <1>0, <1>1, <1>2, <1>4 DEF CondCountersExact, ObjectsOutliveWaits, IInv, mutexVars
<1>8. WakeupsReachWaiters'
  <2>1. \A u \in Threads, p \in {"signalling", "broadcasting"} :
          cpc'[u] = p <=> cpc[u] = p
    BY DEF CondTypeOK
  <2>2. /\ pending_wakeups <= Cardinality(Registered)
        /\ \/ \E u \in Threads : cpc[u] = "broadcasting"
           \/ /\ \E u \in Threads : cpc[u] = "signalling"
              /\ pending_wakeups <= Cardinality(AwakeWaiters) + 1
           \/ pending_wakeups <= Cardinality(AwakeWaiters)
    BY <1>0 DEF WakeupsReachWaiters, CondCountersExact
  <2>3. pending_wakeups' <= cond_waiters'
    BY <1>3, <1>4, <1>5, <2>2, WaitSetsFinite DEF SatSub
  <2>4. \/ \E u \in Threads : cpc'[u] = "broadcasting"
        \/ /\ \E u \in Threads : cpc'[u] = "signalling"
           /\ pending_wakeups' <= Cardinality(AwakeWaiters') + 1
        \/ pending_wakeups' <= Cardinality(AwakeWaiters')
    <3>1. ASSUME NEW n \in Nat, pending_wakeups <= Cardinality(AwakeWaiters) + n
          PROVE  pending_wakeups' <= Cardinality(AwakeWaiters') + n
      BY <1>3, <1>5, <3>1, WaitSetsFinite DEF SatSub
    <3>2. CASE \E u \in Threads : cpc[u] = "broadcasting"
      BY <2>1, <3>2
    <3>3. CASE /\ \E u \in Threads : cpc[u] = "signalling"
               /\ pending_wakeups <= Cardinality(AwakeWaiters) + 1
      BY <2>1, <3>1, <3>3
    <3>4. CASE pending_wakeups <= Cardinality(AwakeWaiters)
      <4>1. Cardinality(AwakeWaiters') + 0 = Cardinality(AwakeWaiters')
        BY <1>3, WaitSetsFinite
      <4>2. pending_wakeups <= Cardinality(AwakeWaiters) + 0
        BY <3>4, WaitSetsFinite
      <4> QED
        BY <3>1, <4>1, <4>2
    <3> QED
      BY <2>2, <3>2, <3>3, <3>4
  <2> QED
    BY <1>1, <2>3, <2>4 DEF WakeupsReachWaiters, IInv
<1>9. InitLockHeld'
  BY ThreadsAssumption DEF InitLockHeld, LockPlaces, CondTypeOK
<1>10. SleepersAreWaiting' /\ NoFreeUnderWait'
  BY DEF SleepersAreWaiting, NoFreeUnderWait, WaitPlaces, CondTypeOK, mutexVars
<1>11. WaitShape'
  <2> SUFFICES ASSUME NEW u \in Threads
               PROVE  ThreadShape(u)' /\ DepthShape(u)'
    BY DEF WaitShape
  <2>1. ThreadShape(u) /\ DepthShape(u)
    BY DEF WaitShape
  <2>2. CASE u # t
    BY <2>1, <2>2 DEF ThreadShape, DepthShape, WaitPlaces, CondTypeOK, mutexVars
  <2>3. CASE u = t
    <3>1. /\ recursive_depth[t] > 0 /\ held[t] = 0
          /\ mutex_type # "RECURSIVE" => recursive_depth[t] = 1
      BY <2>1, <2>3 DEF DepthShape, WaitPlaces
    <3>2. to_relock'[t] = recursive_depth[t]
      BY <1>5, <3>1, MaxDepthAssumption DEF CondTypeOK
    <3>3. held'[t] + to_relock'[t] = recursive_depth'[t]
      BY <1>5, <3>1, <3>2, MaxDepthAssumption DEF mutexVars
    <3>4. cpc'[t] = "relocking"
      BY DEF CondTypeOK
    <3> QED
      BY <2>3, <3>1, <3>3, <3>4 DEF ThreadShape, DepthShape, WaitPlaces, mutexVars
  <2> QED
    BY <2>2, <2>3
<1> QED
  BY <1>1, <1>6, <1>7, <1>8, <1>9, <1>10, <1>11

LEMMA SleepOnCondPreserves ==
  ASSUME CondIInv, NEW t \in Threads, SleepOnCond(t),
         cpc[t] \in {"committing", "waiting"}, pc[t] = "out",
         \/ cpc[t] = "committing" /\ init_lock' = NoThread
         \/ cpc[t] = "waiting" /\ UNCHANGED init_lock
  PROVE  CondIInv'
<1> USE DEF CondIInv, SleepOnCond, waitLocals
<1>1. IInv'
  BY MutexKept DEF IInv, MutexTypeOK, mutexVars
<1>2. UNCHANGED <<Registered, InWait>>
  BY DEF Registered, InWait, CondTypeOK
<1>3. CondTypeOK'
  BY <1>1 DEF CondTypeOK, IInv, CondPlaces
<1>4. CondCountersExact' /\ ObjectsOutliveWaits'
  BY <1>1, <1>2 DEF CondCountersExact, ObjectsOutliveWaits, IInv, mutexVars
<1>5. WakeupsReachWaiters'
  <2>1. Cardinality(AwakeWaiters') \in Nat
    <3>1. AwakeWaiters' \in SUBSET Registered
      BY <1>2 DEF AwakeWaiters
    <3> QED
      BY <3>1, WaitSetsFinite, FS_Subset, FS_CardinalityType
  <2> QED
    BY <1>1, <2>1 DEF WakeupsReachWaiters, IInv, CondTypeOK
<1>6. InitLockHeld'
  BY ThreadsAssumption DEF InitLockHeld, LockPlaces, CondTypeOK
<1>7. SleepersAreWaiting' /\ NoFreeUnderWait'
  BY DEF SleepersAreWaiting, NoFreeUnderWait, WaitPlaces, CondTypeOK, mutexVars
<1>8. WaitShape'
  <2> SUFFICES ASSUME NEW u \in Threads
               PROVE  ThreadShape(u)' /\ DepthShape(u)'
    BY DEF WaitShape
  <2>1. ThreadShape(u) /\ DepthShape(u)
    BY DEF WaitShape
  <2> QED
    BY <2>1 DEF ThreadShape, DepthShape, WaitPlaces, CondTypeOK, mutexVars
<1> QED
  BY <1>1, <1>3, <1>4, <1>5, <1>6, <1>7, <1>8

LEMMA CheckPreserves ==
  ASSUME CondIInv, NEW t \in Threads, Commit(t) \/ Recheck(t)
  PROVE  CondIInv'
<1>1. CASE Commit(t)
  <2>1. t \notin cond_sleepers
    BY <1>1 DEF Commit, CondIInv, SleepersAreWaiting
  <2> QED
    BY <1>1, <2>1, LeavePreserves, SleepOnCondPreserves DEF Commit
<1>2. CASE Recheck(t)
  <2>1. pc[t] = "out"
    BY <1>2 DEF Recheck, CondIInv, WaitShape, ThreadShape
  <2> QED
    BY <1>2, <2>1, LeavePreserves, SleepOnCondPreserves DEF Recheck
<1> QED
  BY <1>1, <1>2

---------------------------------------------------------------------------
(* mutex_restore_cond_wait_lock_depth, one pass of mutex_lock_internal.    *)
LEMMA RelockPreserves ==
  ASSUME CondIInv, NEW t \in Threads, Relock(t)
  PROVE  CondIInv'
<1> USE DEF CondIInv
<1>0. /\ cpc[t] = "relocking" /\ to_relock[t] > 0
      /\ UNCHANGED <<cond, cond_waiters, pending_wakeups, cond_sleepers, init_lock,
                     cpc, deadline, timed_out, recursive_depth, due>>
      /\ to_relock' = [to_relock EXCEPT ![t] = IF pc'[t] = "out" THEN @ - 1 ELSE @]
  BY DEF Relock, condState
<1>1. live /\ \A u \in Threads : pc[u] # "freeing"
  BY <1>0 DEF NoFreeUnderWait, WaitPlaces
<1>2. PICK waiting \in Nat : /\ LockPass(t, FALSE, waiting)
                             /\ pc[t] \in {"out", "blocked"} /\ t \notin sleepers
                             /\ waiting = Cardinality(Blocked \ {t})
  <2>1. CASE Retry(t)
    <3>1. t \in Blocked /\ t \notin sleepers /\ pc[t] = "blocked"
      BY <2>1 DEF Retry, Woken, Blocked
    <3>2. /\ SatSub(waiter_count) = Cardinality(Blocked \ {t})
          /\ SatSub(waiter_count) \in Nat
      BY <3>1, BlockedShrinks, BlockedFinite DEF IInv, WaiterCountExact, SatSub
    <3> QED
      BY <2>1, <3>1, <3>2 DEF Retry
  <2>2. CASE pc[t] = "out" /\ LockPass(t, FALSE, waiter_count)
    <3>1. Blocked \ {t} = Blocked /\ t \notin sleepers
      BY <2>2 DEF Blocked, IInv, WaiterCountExact
    <3> QED
      BY <2>2, <3>1 DEF IInv, WaiterCountExact, MutexTypeOK
  <2> QED
    BY <2>1, <2>2 DEF Relock
<1>3. IInv'
  BY <1>1, <1>2, LockPassPreserves
<1>4. held[t] + to_relock[t] = recursive_depth[t] /\ recursive_depth[t] > 0
      /\ (mutex_type # "RECURSIVE" => recursive_depth[t] = 1)
      /\ held[t] \in Nat /\ to_relock[t] \in 0..MaxDepth /\ recursive_depth[t] \in 0..MaxDepth
  BY <1>0 DEF WaitShape, DepthShape, WaitPlaces, CondTypeOK, MutexTypeOK
<1>5. ~RefuseRelock(t, FALSE, waiting)
  <2>1. mutex_type # "RECURSIVE" => held[t] = 0
    BY <1>0, <1>4, MaxDepthAssumption
  <2>2. owner = t => held[t] # 0
    BY ThreadsAssumption DEF IInv, OwnerMatchesClients, MutexTypeOK
  <2> QED
    BY <2>1, <2>2 DEF RefuseRelock
<1>6. /\ UNCHANGED <<live, mutex_type, cond_waiter_count, dangling>>
      /\ \/ /\ held' = [held EXCEPT ![t] = @ + 1]
            /\ pc' = [pc EXCEPT ![t] = "out"]
         \/ /\ held' = held
            /\ pc' = [pc EXCEPT ![t] = "blocked"]
      /\ \A u \in Threads \ {t} : owner = u => UNCHANGED <<owner, recursion_depth>>
  BY <1>2, <1>5, ThreadsAssumption
  DEF LockPass, TakeFree, TakeAgain, Sleep, LockReturn
<1>7. to_relock' \in [Threads -> 0..MaxDepth]
  <2>1. to_relock[t] - 1 \in 0..MaxDepth
    BY <1>0, <1>4, MaxDepthAssumption
  <2> QED
    BY <1>0, <1>4, <2>1 DEF CondTypeOK
<1>8. CondTypeOK'
  BY <1>0, <1>3, <1>7 DEF CondTypeOK, IInv
<1>9. UNCHANGED <<Registered, InWait, AwakeWaiters>>
  BY <1>0 DEF Registered, InWait, AwakeWaiters
<1>10. CondCountersExact' /\ ObjectsOutliveWaits' /\ WakeupsReachWaiters'
  BY <1>0, <1>3, <1>6, <1>9
  DEF CondCountersExact, ObjectsOutliveWaits, WakeupsReachWaiters, IInv
<1>11. InitLockHeld' /\ SleepersAreWaiting'
  BY <1>0 DEF InitLockHeld, SleepersAreWaiting
<1>12. NoFreeUnderWait'
  BY <1>0, <1>1, <1>6 DEF NoFreeUnderWait, IInv, MutexTypeOK
<1>13. WaitShape'
  <2> SUFFICES ASSUME NEW u \in Threads
               PROVE  ThreadShape(u)' /\ DepthShape(u)'
    BY DEF WaitShape
  <2>1. ThreadShape(u) /\ DepthShape(u)
    BY DEF WaitShape
  <2>2. CASE u # t
    <3>1. held'[u] = held[u] /\ pc'[u] = pc[u] /\ to_relock'[u] = to_relock[u]
      BY <1>0, <1>6, <2>2 DEF IInv, MutexTypeOK, CondTypeOK
    <3>2. owner = u => owner' = u /\ recursion_depth' = recursion_depth
      BY <1>6, <2>2
    <3> QED
      BY <1>0, <1>6, <2>1, <3>1, <3>2 DEF ThreadShape, DepthShape
  <2>3. CASE u = t
    <3>1. pc'[t] \in {"out", "blocked"}
      BY <1>6 DEF IInv, MutexTypeOK
    <3>2. held'[t] + to_relock'[t] = recursive_depth[t]
      <4>1. CASE held' = held /\ pc' = [pc EXCEPT ![t] = "blocked"]
        <5>1. pc'[t] = "blocked"
          BY <4>1 DEF IInv, MutexTypeOK
        <5>2. to_relock'[t] = to_relock[t]
          BY <1>0, <5>1 DEF CondTypeOK
        <5> QED
          BY <1>4, <4>1, <5>2
      <4>2. CASE held' = [held EXCEPT ![t] = @ + 1] /\ pc' = [pc EXCEPT ![t] = "out"]
        <5>1. pc'[t] = "out" /\ held'[t] = held[t] + 1
          BY <4>2 DEF IInv, MutexTypeOK
        <5>2. to_relock'[t] = to_relock[t] - 1
          BY <1>0, <5>1 DEF CondTypeOK
        <5> QED
          BY <1>4, <5>1, <5>2, MaxDepthAssumption
      <4> QED
        BY <1>6, <4>1, <4>2
    <3> QED
      BY <1>0, <1>4, <1>6, <2>3, <3>1, <3>2 DEF ThreadShape, DepthShape
  <2> QED
    BY <2>2, <2>3
<1> QED
  BY <1>3, <1>8, <1>10, <1>11, <1>12, <1>13

LEMMA WaitReturnPreserves ==
  ASSUME CondIInv, NEW t \in Threads, WaitReturn(t)
  PROVE  CondIInv'
<1> USE DEF CondIInv, WaitReturn, condState
<1>0. live /\ t \in InWait
  BY DEF InWait, ObjectsOutliveWaits
<1>1. /\ InWait' = InWait \ {t}
      /\ Registered' = Registered
      /\ AwakeWaiters' = AwakeWaiters
  BY DEF InWait, Registered, AwakeWaiters, CondTypeOK
<1>2. /\ Cardinality(InWait') = Cardinality(InWait) - 1
      /\ Cardinality(InWait) # 0
  BY <1>0, <1>1, WaitSetsFinite, FS_EmptySet, FS_RemoveElement
<1>3. cond_waiter_count' = Cardinality(InWait') /\ cond_waiter_count' \in Nat
  BY <1>0, <1>2, WaitSetsFinite DEF CondCountersExact, SatSub
<1>4. IInv'
  BY <1>3, MutexKept DEF Codes
<1>5. CondTypeOK'
  <2>1. recursive_depth' \in [Threads -> 0..MaxDepth]
    BY MaxDepthAssumption DEF CondTypeOK
  <2>2. /\ cpc' \in [Threads -> CondPlaces]
        /\ timed_out' \in [Threads -> BOOLEAN] /\ deadline' \in [Threads -> Deadlines]
    BY DEF CondTypeOK, CondPlaces, Deadlines
  <2> QED
    BY <1>4, <2>1, <2>2 DEF CondTypeOK, IInv
<1>6. CondCountersExact' /\ ObjectsOutliveWaits'
  BY <1>1, <1>3, <1>4 DEF CondCountersExact, ObjectsOutliveWaits, IInv
<1>7. WakeupsReachWaiters'
  <2>1. \A u \in Threads, p \in {"signalling", "broadcasting"} :
          cpc'[u] = p <=> cpc[u] = p
    BY DEF CondTypeOK
  <2> QED
    BY <1>1, <1>4, <2>1 DEF WakeupsReachWaiters, IInv
<1>8. InitLockHeld' /\ SleepersAreWaiting' /\ NoFreeUnderWait'
  BY DEF InitLockHeld, LockPlaces, SleepersAreWaiting, NoFreeUnderWait, WaitPlaces,
         CondTypeOK
<1>9. WaitShape'
  <2> SUFFICES ASSUME NEW u \in Threads
               PROVE  ThreadShape(u)' /\ DepthShape(u)'
    BY DEF WaitShape
  <2>1. ThreadShape(u) /\ DepthShape(u)
    BY DEF WaitShape
  <2> QED
    BY <2>1 DEF ThreadShape, DepthShape, WaitPlaces, CondTypeOK
<1> QED
  BY <1>4, <1>5, <1>6, <1>7, <1>8, <1>9

(* Wakeups without a notification, and deadlines: more waiters awake.      *)
LEMMA AwakePreserves ==
  ASSUME CondIInv, NEW t \in Threads, CondSpuriousWake(t) \/ DeadlinePasses(t)
  PROVE  CondIInv'
<1> USE DEF CondIInv
<1>0. /\ UNCHANGED <<mutexVars, cond, cond_waiters, pending_wakeups, init_lock, cpc,
                     timed_out, recursive_depth, to_relock, due>>
      /\ deadline' \in [Threads -> Deadlines]
      /\ cond_sleepers' = cond_sleepers \ {t}
  BY DEF CondSpuriousWake, DeadlinePasses, waitLocals, CondTypeOK, Deadlines
<1>1. IInv'
  BY <1>0, MutexKept DEF IInv, MutexTypeOK, mutexVars
<1>2. CondTypeOK'
  BY <1>0, <1>1 DEF CondTypeOK, IInv
<1>3. UNCHANGED <<Registered, InWait>>
  BY <1>0 DEF Registered, InWait
<1>4. CondCountersExact' /\ ObjectsOutliveWaits'
  BY <1>0, <1>1, <1>3 DEF CondCountersExact, ObjectsOutliveWaits, IInv, mutexVars
<1>5. /\ Cardinality(AwakeWaiters) <= Cardinality(AwakeWaiters')
      /\ Cardinality(AwakeWaiters') \in Nat
  <2>1. AwakeWaiters \in SUBSET AwakeWaiters' /\ AwakeWaiters' \in SUBSET Registered
    BY <1>0, <1>3 DEF AwakeWaiters
  <2>2. IsFiniteSet(AwakeWaiters')
    BY <2>1, WaitSetsFinite, FS_Subset
  <2> QED
    BY <2>1, <2>2, FS_Subset, FS_CardinalityType
<1>6. WakeupsReachWaiters'
  <2> SUFFICES ASSUME cond = "live"
               PROVE  /\ pending_wakeups <= cond_waiters
                      /\ \/ \E u \in Threads : cpc[u] = "broadcasting"
                         \/ \E u \in Threads : cpc[u] = "signalling"
                              /\ pending_wakeups <= Cardinality(AwakeWaiters') + 1
                         \/ pending_wakeups <= Cardinality(AwakeWaiters')
    BY <1>0, <1>1 DEF WakeupsReachWaiters, IInv
  <2>1. pending_wakeups \in Nat /\ Cardinality(AwakeWaiters) \in Nat
    BY WaitSetsFinite DEF CondTypeOK
  <2> QED
    BY <1>5, <2>1 DEF WakeupsReachWaiters
<1>7. InitLockHeld' /\ SleepersAreWaiting' /\ NoFreeUnderWait'
  BY <1>0 DEF InitLockHeld, SleepersAreWaiting, NoFreeUnderWait, mutexVars
<1>8. WaitShape'
  BY <1>0 DEF WaitShape, ThreadShape, DepthShape, mutexVars
<1> QED
  BY <1>1, <1>2, <1>4, <1>6, <1>7, <1>8

---------------------------------------------------------------------------
LEMMA CondInitEstablishes == Init => CondIInv
<1> SUFFICES ASSUME Init PROVE CondIInv
  OBVIOUS
<1> USE DEF Init
<1>1. IInv
  BY InitEstablishes
<1>2. CondTypeOK
  BY <1>1, MaxDepthAssumption DEF CondTypeOK, IInv, CondPlaces, Deadlines
<1>3. Registered = {} /\ InWait = {} /\ AwakeWaiters = {}
  BY DEF Registered, InWait, AwakeWaiters
<1>4. CondCountersExact /\ ObjectsOutliveWaits /\ WakeupsReachWaiters
  BY <1>1, <1>3, FS_EmptySet
  DEF CondCountersExact, ObjectsOutliveWaits, WakeupsReachWaiters, IInv, MutexInit
<1>5. InitLockHeld /\ SleepersAreWaiting /\ NoFreeUnderWait
  BY ThreadsAssumption
  DEF InitLockHeld, LockPlaces, SleepersAreWaiting, NoFreeUnderWait, WaitPlaces
<1>6. WaitShape
  BY DEF WaitShape, ThreadShape, DepthShape, WaitPlaces
<1> QED
  BY <1>1, <1>2, <1>4, <1>5, <1>6 DEF CondIInv

LEMMA CondStepPreserves == CondIInv /\ [CondNext]_vars => CondIInv'
<1> SUFFICES ASSUME CondIInv, [CondNext]_vars PROVE CondIInv'
  OBVIOUS
<1>1. CASE UNCHANGED vars
  <2>1. result \in Codes /\ UNCHANGED condVars /\ UNCHANGED mutexVars
    BY <1>1 DEF vars, CondIInv, IInv, MutexTypeOK
  <2>2. CondReturn(result)
    BY <2>1 DEF CondReturn, Fail, mutexVars
  <2> QED
    BY <2>1, <2>2, ReturnOnlyPreserves
<1>2. ASSUME NEW t \in Threads, CondCall(t) PROVE CondIInv'
  <2>1. CASE \/ InitCondBusy(t) \/ DestroyCondBusy(t) \/ WakeNobody(t)
             \/ BadAbstime(t) \/ WaitDestroyed(t)
    BY <2>1, ReturnOnlyPreserves
    DEF InitCondBusy, DestroyCondBusy, WakeNobody, BadAbstime, WaitDestroyed, Codes
  <2> QED
    BY <1>2, <2>1, InitCondPreserves, DestroyCondPreserves, WaitRefusedPreserves,
       SignalPreserves, BroadcastPreserves, WaitPreserves DEF CondCall
<1>3. ASSUME NEW t \in Threads, CondProgress(t) PROVE CondIInv'
  BY <1>3, CondNotifyPreserves, ReleaseForWaitPreserves, CheckPreserves,
     RelockPreserves, WaitReturnPreserves DEF CondProgress
<1>4. ASSUME NEW t \in Threads, MutexCall(t) \/ MutexProgress(t) \/ MutexSpuriousWake(t)
      PROVE  CondIInv'
  BY <1>4, MutexStepPreserves DEF MutexCall, MutexProgress, MutexSpuriousWake
<1>5. ASSUME NEW t \in Threads, DeadlinePasses(t) \/ CondSpuriousWake(t)
      PROVE  CondIInv'
  BY <1>5, AwakePreserves
<1> QED
  BY <1>1, <1>2, <1>3, <1>4, <1>5 DEF CondNext, AnyProgress

LEMMA CondInvariance == CondSpec => []CondIInv
BY CondInitEstablishes, CondStepPreserves, PTL DEF CondSpec

(* The condition variable and its mutex are well-formed, count their       *)
(* waiters exactly and outlive them: what pthread_cond_destroy and         *)
(* pthread_mutex_destroy read is so, for every number of threads.          *)
THEOREM CondStateSound == CondSpec => []CondStateIsSound
<1>1. CondIInv => CondStateIsSound
  BY DEF CondIInv, CondStateIsSound
<1> QED
  BY <1>1, CondInvariance, PTL

(* No wakeup that pthread_cond_signal or pthread_cond_broadcast recorded   *)
(* is lost: as many waiters are awake, or the notification is on its way.  *)
THEOREM NoCondWakeupIsLost == CondSpec => []WakeupsReachWaiters
<1>1. CondIInv => WakeupsReachWaiters
  BY DEF CondIInv
<1> QED
  BY <1>1, CondInvariance, PTL

(* mutex_restore_cond_wait_lock_depth gives a wait back the mutex at the   *)
(* depth at which the wait found it, whatever happened in between.         *)
LEMMA ReturnsAtDepth ==
  ASSUME CondIInv, [CondNext]_vars, NEW t \in Threads,
         cpc[t] = "relocking", cpc'[t] = "out"
  PROVE  owner = t /\ held[t] = recursive_depth[t]
<1>1. to_relock[t] = 0
  <2>1. \A u \in Threads \ {t} : cpc' # [cpc EXCEPT ![u] = "out"]
    BY DEF CondIInv, CondTypeOK
  <2>2. cpc' # cpc
    OBVIOUS
  <2>3. WaitReturn(t)
    BY <2>1, <2>2
    DEF CondNext, vars, condVars, CondCall, InitCond, InitCondBusy, DestroyCond,
        DestroyCondBusy, WakeNobody, Signal, Broadcast, RecordWakeup, BadAbstime,
        WaitDestroyed, WaitRefused, Wait, MayCallCond, Idle, AnyProgress,
        CondProgress, CondNotify, ReleaseForWait, Commit, Recheck, Leave,
        SleepOnCond, Relock, WaitReturn, MutexCall, MutexProgress,
        MutexSpuriousWake, DeadlinePasses, CondSpuriousWake, CondIInv, CondTypeOK
  <2> QED
    BY <2>3 DEF WaitReturn
<1>2. held[t] + to_relock[t] = recursive_depth[t] /\ recursive_depth[t] > 0
  BY DEF CondIInv, WaitShape, DepthShape, WaitPlaces
<1>3. held[t] = recursive_depth[t] /\ held[t] # 0
  BY <1>1, <1>2 DEF CondIInv, IInv, MutexTypeOK
<1> QED
  BY <1>3 DEF CondIInv, IInv, OwnerMatchesClients

THEOREM WaitGivesMutexBack == CondSpec => WaitRestoresDepth
<1>1. CondIInv /\ [CondNext]_vars =>
        [\A t \in Threads : cpc[t] = "relocking" /\ cpc'[t] = "out"
           => owner = t /\ held[t] = recursive_depth[t]]_vars
  BY ReturnsAtDepth
<1> QED
  BY <1>1, CondInvariance, PTL DEF CondSpec, WaitRestoresDepth
=============================================================================
