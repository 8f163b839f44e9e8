--------------------------- MODULE PthreadMutex ---------------------------
(* One pthread_mutex_t object of src/src/pthread.rs and the threads that   *)
(* call into it.                                                           *)
(*                                                                         *)
(* The object is a pointer to a boxed PthreadMutexState: a type, a Rust    *)
(* Mutex around PthreadMutexLockState and a Condvar wait_cv.  A critical   *)
(* section of that inner Mutex is one step.  The steps the code takes      *)
(* outside it are steps of their own: sleeping on wait_cv, the notify_one  *)
(* that mutex_unlock_internal issues after it has dropped the inner lock,  *)
(* and the free that pthread_mutex_destroy performs after its checks.      *)
(*                                                                         *)
(* Operators named Mut... are faulty variants of the definition after them:*)
(* with one in its place a property of a run must fail.                    *)
(*                                                                         *)
(* Client contract (the one POSIX states for destroying a mutex): no       *)
(* thread starts a call on the object while a destroy that passed its      *)
(* checks has not returned.  A call that started earlier may still be in   *)
(* progress.                                                               *)
EXTENDS Naturals, FiniteSets

CONSTANTS
  Threads,    \* the calling threads
  NoThread,   \* Option::None in the owner field
  Types,      \* mutex types the clients create
  MaxDepth    \* bound of the model on recursion_depth

ASSUME ThreadsAssumption == NoThread \notin Threads /\ IsFiniteSet(Threads)
ASSUME TypesAssumption == Types \subseteq {"NORMAL", "RECURSIVE", "ERRORCHECK"}
ASSUME MaxDepthAssumption == MaxDepth \in Nat \ {0}

VARIABLES
  live,               \* (*mutex).state is not null
  mutex_type,         \* the fields of PthreadMutexState ...
  owner,
  recursion_depth,
  waiter_count,
  cond_waiter_count,
  sleepers,           \* ... and the threads asleep on its wait_cv
  pc,                 \* where each thread is inside the mutex functions
  result,             \* code returned by the function that returned last
  dangling,           \* threads about to notify a state that has been freed
  held                \* acquisitions each client owns, by its return codes

lockVars == <<owner, recursion_depth, waiter_count, cond_waiter_count>>
mutexVars == <<live, mutex_type, owner, recursion_depth, waiter_count,
               cond_waiter_count, sleepers, pc, result, dangling, held>>

Codes == {"OK", "EBUSY", "EDEADLK", "EPERM", "EINVAL", "ETIMEDOUT"}
Places == {"out",        \* in none of the mutex functions
           "blocked",    \* in mutex_lock_internal, asleep or just woken
           "notify",     \* owner cleared, notify_one still to be called
           "freeing"}    \* destroy passed its checks, the box not freed yet

SatSub(n) == IF n = 0 THEN 0 ELSE n - 1

Blocked == {t \in Threads : pc[t] = "blocked"}
Woken == Blocked \ sleepers

MutexTypeOK ==
  /\ live \in BOOLEAN
  /\ mutex_type \in Types
  /\ owner \in Threads \cup {NoThread}
  /\ recursion_depth \in 0..MaxDepth
  /\ waiter_count \in Nat
  /\ cond_waiter_count \in Nat
  /\ sleepers \in SUBSET Threads
  /\ pc \in [Threads -> Places]
  /\ result \in Codes
  /\ dangling \in SUBSET Threads
  /\ held \in [Threads -> Nat]

MutexInit ==
  /\ live = FALSE
  /\ mutex_type \in Types
  /\ owner = NoThread
  /\ recursion_depth = 0
  /\ waiter_count = 0
  /\ cond_waiter_count = 0
  /\ sleepers = {}
  /\ pc = [t \in Threads |-> "out"]
  /\ result = "OK"
  /\ dangling = {}
  /\ held = [t \in Threads |-> 0]

---------------------------------------------------------------------------
(* A call begins: the thread is in no other call and the contract above    *)
(* is respected.                                                           *)
MayCall(t) == pc[t] = "out" /\ \A u \in Threads : pc[u] # "freeing"

Fail(code) ==
  /\ result' = code
  /\ UNCHANGED <<live, mutex_type, owner, recursion_depth, waiter_count,
                 cond_waiter_count, sleepers, pc, dangling, held>>

(* pthread_mutex_init: a null pointer is replaced by a fresh state.        *)
InitMutex(t, type) ==
  /\ MayCall(t)
  /\ ~live
  /\ live' = TRUE
  /\ mutex_type' = type
  /\ owner' = NoThread
  /\ recursion_depth' = 0
  /\ waiter_count' = 0
  /\ cond_waiter_count' = 0
  /\ sleepers' = {}
  /\ result' = "OK"
  /\ UNCHANGED <<pc, dangling, held>>

InitMutexBusy(t) == MayCall(t) /\ live /\ Fail("EBUSY")

(* mutex_state_from_raw on a null state pointer, and the same test of      *)
(* pthread_mutex_destroy.                                                  *)
Uninitialized(t) == MayCall(t) /\ ~live /\ Fail("EINVAL")

---------------------------------------------------------------------------
(* mutex_lock_internal: one pass of its loop, with the inner lock taken.   *)
(* waiting is waiter_count as the pass finds it.                           *)
Contended(t) == owner # NoThread /\ (owner = t => mutex_type = "NORMAL")

LockReturn(t, code, waiting) ==
  /\ pc' = [pc EXCEPT ![t] = "out"]
  /\ waiter_count' = waiting
  /\ result' = code
  /\ UNCHANGED sleepers

TakeFree(t, waiting) ==
  /\ owner = NoThread
  /\ owner' = t
  /\ recursion_depth' = 1
  /\ held' = [held EXCEPT ![t] = @ + 1]
  /\ LockReturn(t, "OK", waiting)

TakeAgain(t, waiting) ==
  /\ owner = t
  /\ mutex_type = "RECURSIVE"
  /\ recursion_depth < MaxDepth
  /\ recursion_depth' = recursion_depth + 1
  /\ held' = [held EXCEPT ![t] = @ + 1]
  /\ LockReturn(t, "OK", waiting)
  /\ UNCHANGED owner

RefuseRelock(t, try_only, waiting) ==
  /\ owner = t
  /\ mutex_type = "ERRORCHECK"
  /\ LockReturn(t, IF try_only THEN "EBUSY" ELSE "EDEADLK", waiting)
  /\ UNCHANGED <<owner, recursion_depth, held>>

RefuseTry(t, waiting) ==
  /\ Contended(t)
  /\ LockReturn(t, "EBUSY", waiting)
  /\ UNCHANGED <<owner, recursion_depth, held>>

Sleep(t, waiting) ==
  /\ Contended(t)
  /\ waiter_count' = waiting + 1
  /\ sleepers' = sleepers \cup {t}
  /\ pc' = [pc EXCEPT ![t] = "blocked"]
  /\ UNCHANGED <<owner, recursion_depth, held, result>>

LockPass(t, try_only, waiting) ==
  /\ \/ TakeFree(t, waiting)
     \/ TakeAgain(t, waiting)
     \/ RefuseRelock(t, try_only, waiting)
     \/ try_only /\ RefuseTry(t, waiting)
     \/ ~try_only /\ Sleep(t, waiting)
  /\ UNCHANGED <<live, mutex_type, cond_waiter_count, dangling>>

(* pthread_mutex_lock and pthread_mutex_trylock up to the first wait.      *)
Lock(t) == MayCall(t) /\ live /\ LockPass(t, FALSE, waiter_count)
Trylock(t) == MayCall(t) /\ live /\ LockPass(t, TRUE, waiter_count)

(* A thread back from wait_cv.wait takes the inner lock, leaves the waiter *)
(* count and goes round the loop.                                          *)
MutRetry_KeepsCount(t) == t \in Woken /\ LockPass(t, FALSE, waiter_count)

Retry(t) == t \in Woken /\ LockPass(t, FALSE, SatSub(waiter_count))

(* Condvar::wait may return without a notification.                        *)
SpuriousWake(t) ==
  /\ t \in sleepers
  /\ sleepers' = sleepers \ {t}
  /\ UNCHANGED <<live, mutex_type, owner, recursion_depth, waiter_count,
                 cond_waiter_count, pc, result, dangling, held>>

---------------------------------------------------------------------------
(* mutex_unlock_internal, with the inner lock taken.                       *)
UnlockNotOwner(t) == owner # t /\ Fail("EPERM")

MutUnlockLevel_AnyCaller(t, for_cond_wait) ==
  /\ mutex_type = "RECURSIVE" /\ recursion_depth > 1 /\ ~for_cond_wait
  /\ recursion_depth' = recursion_depth - 1
  /\ held' = [held EXCEPT ![t] = @ - 1]
  /\ UNCHANGED <<live, mutex_type, owner, waiter_count, cond_waiter_count,
                 sleepers, pc, result, dangling>>

UnlockLevel(t, for_cond_wait) ==
  /\ owner = t
  /\ mutex_type = "RECURSIVE"
  /\ recursion_depth > 1
  /\ ~for_cond_wait
  /\ recursion_depth' = recursion_depth - 1
  /\ held' = [held EXCEPT ![t] = @ - 1]
  /\ result' = "OK"
  /\ UNCHANGED <<live, mutex_type, owner, waiter_count, cond_waiter_count,
                 sleepers, pc, dangling>>

MutUnlockFully_IgnoresDepth(t, for_cond_wait) ==
  /\ owner = t
  /\ owner' = NoThread /\ recursion_depth' = 0
  /\ held' = [held EXCEPT ![t] = IF for_cond_wait THEN 0 ELSE @ - 1]
  /\ pc' = [pc EXCEPT ![t] = "notify"]
  /\ UNCHANGED <<live, mutex_type, waiter_count, cond_waiter_count,
                 sleepers, result, dangling>>

MutUnlockFully_NoNotify(t, for_cond_wait) ==
  /\ owner = t /\ recursion_depth = 1
  /\ owner' = NoThread /\ recursion_depth' = 0
  /\ held' = [held EXCEPT ![t] = 0]
  /\ result' = "OK"
  /\ UNCHANGED <<live, mutex_type, waiter_count, cond_waiter_count,
                 sleepers, pc, dangling>>

UnlockFully(t, for_cond_wait) ==
  /\ owner = t
  /\ mutex_type = "RECURSIVE" /\ recursion_depth > 1 => for_cond_wait
  /\ owner' = NoThread
  /\ recursion_depth' = 0
  /\ held' = [held EXCEPT ![t] = IF for_cond_wait THEN 0 ELSE @ - 1]
  /\ pc' = [pc EXCEPT ![t] = "notify"]
  /\ UNCHANGED <<live, mutex_type, waiter_count, cond_waiter_count,
                 sleepers, result, dangling>>

UnlockPass(t, for_cond_wait) ==
  \/ UnlockNotOwner(t)
  \/ UnlockLevel(t, for_cond_wait)
  \/ UnlockFully(t, for_cond_wait)

Unlock(t) == MayCall(t) /\ live /\ UnlockPass(t, FALSE)

(* wait_cv.notify_one(), called after the inner lock was dropped: it wakes *)
(* one sleeper if there is one.  On a state that was freed in between, the *)
(* call touches memory that is not a mutex any more or already belongs to  *)
(* the next one: it does nothing or wakes a sleeper there.                 *)
UnlockNotify(t) ==
  /\ pc[t] = "notify"
  /\ \/ \E s \in sleepers : sleepers' = sleepers \ {s}
     \/ (sleepers = {} \/ t \in dangling) /\ UNCHANGED sleepers
  /\ pc' = [pc EXCEPT ![t] = "out"]
  /\ dangling' = dangling \ {t}
  /\ result' = "OK"
  /\ UNCHANGED <<live, mutex_type, owner, recursion_depth, waiter_count,
                 cond_waiter_count, held>>

---------------------------------------------------------------------------
(* pthread_mutex_destroy: the checks under the inner lock, which is then   *)
(* dropped, and the free of the box.                                       *)
MutInUse_NoWaiters == owner # NoThread \/ cond_waiter_count # 0
MutInUse_NoOwner == waiter_count # 0 \/ cond_waiter_count # 0

InUse == owner # NoThread \/ waiter_count # 0 \/ cond_waiter_count # 0

DestroyBusy(t) == MayCall(t) /\ live /\ InUse /\ Fail("EBUSY")

DestroyCheck(t) ==
  /\ MayCall(t)
  /\ live
  /\ ~InUse
  /\ pc' = [pc EXCEPT ![t] = "freeing"]
  /\ UNCHANGED <<live, mutex_type, owner, recursion_depth, waiter_count,
                 cond_waiter_count, sleepers, result, dangling, held>>

DestroyFree(t) ==
  /\ pc[t] = "freeing"
  /\ live' = FALSE
  /\ pc' = [pc EXCEPT ![t] = "out"]
  /\ dangling' = dangling \cup {u \in Threads : pc[u] = "notify"}
  /\ result' = "OK"
  /\ UNCHANGED <<mutex_type, owner, recursion_depth, waiter_count,
                 cond_waiter_count, sleepers, held>>

---------------------------------------------------------------------------
ClientCall(t) ==
  \/ \E type \in Types : InitMutex(t, type)
  \/ InitMutexBusy(t)
  \/ Uninitialized(t)
  \/ Lock(t)
  \/ Trylock(t)
  \/ Unlock(t)
  \/ DestroyBusy(t)
  \/ DestroyCheck(t)

(* The rest of a call that has begun.                                      *)
Progress(t) == Retry(t) \/ UnlockNotify(t) \/ DestroyFree(t)

Next == \E t \in Threads : ClientCall(t) \/ Progress(t) \/ SpuriousWake(t)

Spec == MutexInit /\ [][Next]_mutexVars

(* A thread inside a call keeps running: the operating system schedules    *)
(* every runnable thread.  Nothing is assumed of the clients.              *)
ThreadFairness == \A t \in Threads : WF_mutexVars(Progress(t))
FairSpec == Spec /\ ThreadFairness

---------------------------------------------------------------------------
(* The fields agree with what the return codes told the clients: only the  *)
(* owner was told that it holds the mutex, as many times as the recorded   *)
(* depth, and nobody holds a mutex that does not exist.                    *)
OwnerMatchesClients ==
  /\ \A t \in Threads : held[t] = IF owner = t THEN recursion_depth ELSE 0
  /\ owner # NoThread => live /\ recursion_depth > 0
  /\ mutex_type # "RECURSIVE" => recursion_depth <= 1

(* waiter_count, which pthread_mutex_destroy trusts, is the number of      *)
(* threads inside the wait loop of mutex_lock_internal, asleep or woken.   *)
WaiterCountExact ==
  /\ waiter_count = Cardinality(Blocked)
  /\ sleepers \subseteq Blocked

(* The lock state is well-formed and counts its waiters exactly, through   *)
(* lost races, spurious wakeups and destroys that were refused.            *)
MutexStateIsSound == MutexTypeOK /\ WaiterCountExact

(* No lost wakeup: while threads sleep on a free mutex somebody is on the  *)
(* way to it, an unlocker about to notify or a woken waiter about to retry.*)
NoLostWakeup ==
  live /\ owner = NoThread /\ sleepers # {}
    => \/ Woken # {}
       \/ \E t \in Threads : pc[t] = "notify" /\ t \notin dangling

(* From the moment destroy has passed its checks until the next init       *)
(* nobody owns the mutex and nobody is blocked in it.                      *)
FreedIsUnused ==
  ~live \/ (\E t \in Threads : pc[t] = "freeing")
    => owner = NoThread /\ Blocked = {}

(* pthread_mutex_t is "destroyed by pthread_mutex_destroy when no thread   *)
(* owns it" (pthread.rs:204), so a destroy that finds no owner and no      *)
(* waiter may free the state: no other call still refers to it.            *)
NoDanglingReference == dangling = {}

(* While the mutex is free and threads sleep on it, some thread gets it:   *)
(* the wakeup promised by NoLostWakeup is also delivered.                  *)
FreeMutexIsTaken == (live /\ owner = NoThread /\ sleepers # {}) ~> (owner # NoThread)

(* Clients see an atomic mutex: judged by return codes alone, a lock call  *)
(* succeeds only while no other thread holds the mutex, an unlock gives    *)
(* back exactly one acquisition, and init and destroy succeed only where   *)
(* the documentation of pthread_mutex_init and _destroy allows it.         *)
Abstract == INSTANCE AbstractMutex WITH
              exists <- live,
              reentrant <- (mutex_type = "RECURSIVE"),
              holds <- held

ImplementsAbstractMutex == Abstract!Spec
===========================================================================
