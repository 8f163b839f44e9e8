---------------------------- MODULE PthreadCond ----------------------------
(* One pthread_cond_t of src/src/pthread.rs used with the mutex of         *)
(* PthreadMutex.                                                           *)
(*                                                                         *)
(* Three locks are involved.  lock_cond_lazy_init serialises init,         *)
(* destroy, signal, broadcast and the first half of every wait; it is held *)
(* over several steps and is the variable init_lock.  The inner Mutex      *)
(* around PthreadCondWaitState is held over several steps only by a waiter *)
(* that registers and releases the mutex (WaitStateLocked), which also     *)
(* holds init_lock; everywhere else its critical section is one step.  The *)
(* inner lock of the mutex is taken inside both.                           *)
EXTENDS PthreadMutex

VARIABLES
  cond,             \* "null", "live", or "destroyed" (DESTROYED_COND_SENTINEL)
  cond_waiters,     \* PthreadCondWaitState::waiter_count
  pending_wakeups,
  cond_sleepers,    \* threads asleep on the cond's wait_cv
  init_lock,        \* holder of lock_cond_lazy_init over more than one step
  cpc,              \* where each thread is inside the cond functions
  deadline,         \* of the current wait: "none", "ahead" or "passed"
  timed_out,        \* the local of timedwait
  recursive_depth,  \* the local of the wait functions
  to_relock,        \* calls of mutex_lock_internal still due before return
  due               \* waiters a broadcast found and that still wait

condState == <<cond, cond_waiters, pending_wakeups, cond_sleepers>>
waitLocals == <<deadline, timed_out, recursive_depth, to_relock>>
condVars == <<cond, cond_waiters, pending_wakeups, cond_sleepers, init_lock,
              cpc, deadline, timed_out, recursive_depth, to_relock, due>>
vars == <<mutexVars, condVars>>

CondPlaces ==
  {"out",         \* in none of the cond functions
   "unlocking",   \* registered as waiter, the mutex still to be released
   "committing",  \* mutex released, about to check pending_wakeups
   "waiting",     \* inside wait_while, asleep or just woken
   "relocking",   \* unregistered, the mutex to be acquired again
   "signalling",  \* wakeup recorded, notify_one still to be called
   "broadcasting"}

Deadlines == {"none", "ahead", "passed"}

Registered == {t \in Threads : cpc[t] \in {"unlocking", "committing", "waiting"}}
InWait == {t \in Threads : cpc[t] \in {"unlocking", "committing", "waiting", "relocking"}}
WaitStateLocked == \E t \in Threads : cpc[t] \in {"unlocking", "committing"}

CondTypeOK ==
  /\ MutexTypeOK
  /\ cond \in {"null", "live", "destroyed"}
  /\ cond_waiters \in Nat
  /\ pending_wakeups \in Nat
  /\ cond_sleepers \in SUBSET Threads
  /\ init_lock \in Threads \cup {NoThread}
  /\ cpc \in [Threads -> CondPlaces]
  /\ deadline \in [Threads -> Deadlines]
  /\ timed_out \in [Threads -> BOOLEAN]
  /\ recursive_depth \in [Threads -> 0..MaxDepth]
  /\ to_relock \in [Threads -> 0..MaxDepth]
  /\ due \in SUBSET Threads

Init ==
  /\ MutexInit
  /\ cond = "null"
  /\ cond_waiters = 0
  /\ pending_wakeups = 0
  /\ cond_sleepers = {}
  /\ init_lock = NoThread
  /\ cpc = [t \in Threads |-> "out"]
  /\ deadline = [t \in Threads |-> "none"]
  /\ timed_out = [t \in Threads |-> FALSE]
  /\ recursive_depth = [t \in Threads |-> 0]
  /\ to_relock = [t \in Threads |-> 0]
  /\ due = {}

---------------------------------------------------------------------------
Idle(t) == pc[t] = "out" /\ cpc[t] = "out"
MayCallCond(t) == Idle(t) /\ init_lock = NoThread

CondReturn(code) == Fail(code)

(* pthread_cond_init, pthread_cond_destroy.                                *)
InitCond(t) ==
  /\ MayCallCond(t)
  /\ cond # "live"
  /\ cond' = "live"
  /\ cond_waiters' = 0
  /\ pending_wakeups' = 0
  /\ cond_sleepers' = {}
  /\ CondReturn("OK")
  /\ UNCHANGED <<init_lock, cpc, waitLocals, due>>

InitCondBusy(t) ==
  /\ MayCallCond(t)
  /\ cond = "live"
  /\ CondReturn("EBUSY")
  /\ UNCHANGED condVars

MutDestroyCond_IgnoresWaiters(t) ==
  /\ MayCallCond(t)
  /\ cond' = "destroyed"
  /\ CondReturn("OK")
  /\ UNCHANGED <<cond_waiters, pending_wakeups, cond_sleepers, init_lock, cpc,
                 waitLocals, due>>

DestroyCond(t) ==
  /\ MayCallCond(t)
  /\ cond = "live" => cond_waiters = 0
  /\ cond' = "destroyed"
  /\ CondReturn("OK")
  /\ UNCHANGED <<cond_waiters, pending_wakeups, cond_sleepers, init_lock, cpc,
                 waitLocals, due>>

DestroyCondBusy(t) ==
  /\ MayCallCond(t)
  /\ cond = "live" /\ cond_waiters # 0
  /\ CondReturn("EBUSY")
  /\ UNCHANGED condVars

---------------------------------------------------------------------------
(* pthread_cond_signal and pthread_cond_broadcast: the critical section of *)
(* the wait state, then the notification, both under lock_cond_lazy_init.  *)
WakeNobody(t) ==
  /\ MayCallCond(t)
  /\ \/ cond = "destroyed" /\ CondReturn("EINVAL")
     \/ cond = "null" /\ CondReturn("OK")
     \/ cond = "live" /\ cond_waiters = 0 /\ CondReturn("OK")
  /\ UNCHANGED condVars

RecordWakeup(t, wakeups, place) ==
  /\ MayCallCond(t)
  /\ cond = "live" /\ cond_waiters # 0
  /\ pending_wakeups' = wakeups
  /\ init_lock' = t
  /\ cpc' = [cpc EXCEPT ![t] = place]
  /\ UNCHANGED <<mutexVars, cond, cond_waiters, cond_sleepers, waitLocals>>

Signal(t) ==
  /\ RecordWakeup(t, IF pending_wakeups < cond_waiters THEN pending_wakeups + 1
                                                       ELSE cond_waiters,
                  "signalling")
  /\ UNCHANGED due

MutBroadcast_NotifyOne(t) ==
  /\ RecordWakeup(t, cond_waiters, "signalling")
  /\ due' = Registered

Broadcast(t) ==
  /\ RecordWakeup(t, cond_waiters, "broadcasting")
  /\ due' = Registered

CondNotify(t) ==
  /\ \/ /\ cpc[t] = "signalling"
        /\ \/ \E s \in cond_sleepers : cond_sleepers' = cond_sleepers \ {s}
           \/ cond_sleepers = {} /\ UNCHANGED cond_sleepers
     \/ cpc[t] = "broadcasting" /\ cond_sleepers' = {}
  /\ cpc' = [cpc EXCEPT ![t] = "out"]
  /\ init_lock' = NoThread
  /\ CondReturn("OK")
  /\ UNCHANGED <<cond, cond_waiters, pending_wakeups, waitLocals, due>>

---------------------------------------------------------------------------
(* pthread_cond_wait and pthread_cond_timedwait.                           *)
BadAbstime(t) ==                       \* timeout_from_abstime fails
  /\ Idle(t)
  /\ CondReturn("EINVAL")
  /\ UNCHANGED condVars

WaitDestroyed(t) ==
  /\ MayCallCond(t)
  /\ cond = "destroyed"
  /\ CondReturn("EINVAL")
  /\ UNCHANGED condVars

(* cond_state_from_raw_or_lazy_init_locked: a null cond becomes live even  *)
(* when the wait then fails.                                               *)
LazyInit ==
  /\ cond # "destroyed"
  /\ cond' = "live"
  /\ IF cond = "live"
     THEN UNCHANGED <<pending_wakeups, cond_sleepers>>
     ELSE pending_wakeups' = 0 /\ cond_sleepers' = {}
CurrentCondWaiters == IF cond = "live" THEN cond_waiters ELSE 0

WaitRefused(t) ==
  /\ MayCallCond(t) /\ MayCall(t)
  /\ LazyInit
  /\ cond_waiters' = CurrentCondWaiters
  /\ \/ ~live /\ CondReturn("EINVAL")
     \/ live /\ owner # t /\ CondReturn("EPERM")
  /\ UNCHANGED <<init_lock, cpc, waitLocals, due>>

MutWait_NoReference(t, time) ==
  /\ MayCallCond(t) /\ MayCall(t)
  /\ LazyInit
  /\ live /\ owner = t
  /\ cond_waiters' = CurrentCondWaiters + 1
  /\ recursive_depth' = [recursive_depth EXCEPT ![t] = recursion_depth]
  /\ deadline' = [deadline EXCEPT ![t] = time]
  /\ init_lock' = t
  /\ cpc' = [cpc EXCEPT ![t] = "unlocking"]
  /\ UNCHANGED <<mutexVars, timed_out, to_relock, due>>

(* Registers the waiter and takes the reference on the mutex               *)
(* (mutex_add_cond_waiter_reference).                                      *)
Wait(t, time) ==
  /\ MayCallCond(t) /\ MayCall(t)
  /\ LazyInit
  /\ live /\ owner = t
  /\ cond_waiters' = CurrentCondWaiters + 1
  /\ cond_waiter_count' = cond_waiter_count + 1
  /\ recursive_depth' = [recursive_depth EXCEPT ![t] = recursion_depth]
  /\ deadline' = [deadline EXCEPT ![t] = time]
  /\ init_lock' = t
  /\ cpc' = [cpc EXCEPT ![t] = "unlocking"]
  /\ UNCHANGED <<live, mutex_type, owner, recursion_depth, waiter_count,
                 sleepers, pc, result, dangling, held>>
  /\ UNCHANGED <<timed_out, to_relock, due>>

(* mutex_unlock_internal cannot fail here: the waiter owns the mutex.       *)
ReleaseForWait(t) ==
  /\ cpc[t] = "unlocking"
  /\ UnlockFully(t, TRUE)
  /\ cpc' = [cpc EXCEPT ![t] = "committing"]
  /\ UNCHANGED <<condState, init_lock, waitLocals, due>>

(* The wait ends: one pending wakeup is consumed, or the deadline passed   *)
(* while none was pending.  mutex_restore_cond_wait_lock_depth then calls  *)
(* mutex_lock_internal once, or recursive_depth times.                     *)
MutLeave_OneRelock(t) ==
  /\ pending_wakeups > 0 \/ deadline[t] = "passed"
  /\ timed_out' = [timed_out EXCEPT ![t] = pending_wakeups = 0]
  /\ pending_wakeups' = SatSub(pending_wakeups)
  /\ cond_waiters' = SatSub(cond_waiters)
  /\ cpc' = [cpc EXCEPT ![t] = "relocking"]
  /\ due' = due \ {t}
  /\ to_relock' = [to_relock EXCEPT ![t] = 1]
  /\ UNCHANGED <<mutexVars, cond, cond_sleepers, deadline, recursive_depth>>

Leave(t) ==
  /\ pending_wakeups > 0 \/ deadline[t] = "passed"
  /\ timed_out' = [timed_out EXCEPT ![t] = pending_wakeups = 0]
  /\ pending_wakeups' = SatSub(pending_wakeups)
  /\ cond_waiters' = SatSub(cond_waiters)
  /\ cpc' = [cpc EXCEPT ![t] = "relocking"]
  /\ due' = due \ {t}
  /\ to_relock' = [to_relock EXCEPT ![t] =
       IF mutex_type = "RECURSIVE" /\ recursive_depth[t] > 1 THEN recursive_depth[t] ELSE 1]
  /\ UNCHANGED <<mutexVars, cond, cond_sleepers, deadline, recursive_depth>>

SleepOnCond(t) ==
  /\ pending_wakeups = 0 /\ deadline[t] # "passed"
  /\ cond_sleepers' = cond_sleepers \cup {t}
  /\ cpc' = [cpc EXCEPT ![t] = "waiting"]
  /\ UNCHANGED <<mutexVars, cond, cond_waiters, pending_wakeups, waitLocals, due>>

(* The init guard is dropped and wait_while checks its condition.          *)
Commit(t) ==
  /\ cpc[t] = "committing" /\ pc[t] = "out"
  /\ Leave(t) \/ SleepOnCond(t)
  /\ init_lock' = NoThread

(* A woken waiter owns the wait state again and checks the condition.      *)
Recheck(t) ==
  /\ cpc[t] = "waiting" /\ t \notin cond_sleepers /\ ~WaitStateLocked
  /\ Leave(t) \/ SleepOnCond(t)
  /\ UNCHANGED init_lock

(* Condvar::wait may return spuriously, wait_timeout also when its time is *)
(* up.                                                                     *)
CondSpuriousWake(t) ==
  /\ t \in cond_sleepers
  /\ cond_sleepers' = cond_sleepers \ {t}
  /\ UNCHANGED <<mutexVars, cond, cond_waiters, pending_wakeups, init_lock, cpc,
                 waitLocals, due>>

MutDeadlinePasses_NoWake(t) ==
  /\ deadline[t] = "ahead"
  /\ deadline' = [deadline EXCEPT ![t] = "passed"]
  /\ UNCHANGED <<mutexVars, condState, init_lock, cpc, timed_out,
                 recursive_depth, to_relock, due>>

DeadlinePasses(t) ==
  /\ deadline[t] = "ahead"
  /\ deadline' = [deadline EXCEPT ![t] = "passed"]
  /\ cond_sleepers' = cond_sleepers \ {t}
  /\ UNCHANGED <<mutexVars, cond, cond_waiters, pending_wakeups, init_lock, cpc,
                 timed_out, recursive_depth, to_relock, due>>

MutRelock_OnceMore(t) ==
  /\ cpc[t] = "relocking"
  /\ Retry(t) \/ (pc[t] = "out" /\ LockPass(t, FALSE, waiter_count))
  /\ to_relock' = [to_relock EXCEPT ![t] = IF pc'[t] = "out" THEN @ - 1 ELSE @]
  /\ UNCHANGED <<condState, init_lock, cpc, deadline, timed_out, recursive_depth, due>>

Relock(t) ==
  /\ cpc[t] = "relocking" /\ to_relock[t] > 0
  /\ Retry(t) \/ (pc[t] = "out" /\ LockPass(t, FALSE, waiter_count))
  /\ to_relock' = [to_relock EXCEPT ![t] = IF pc'[t] = "out" THEN @ - 1 ELSE @]
  /\ UNCHANGED <<condState, init_lock, cpc, deadline, timed_out, recursive_depth, due>>

(* mutex_remove_cond_waiter_reference, and the return of the wait.         *)
WaitReturn(t) ==
  /\ cpc[t] = "relocking" /\ to_relock[t] = 0
  /\ cond_waiter_count' = SatSub(cond_waiter_count)
  /\ result' = IF timed_out[t] THEN "ETIMEDOUT" ELSE "OK"
  /\ cpc' = [cpc EXCEPT ![t] = "out"]
  /\ timed_out' = [timed_out EXCEPT ![t] = FALSE]
  /\ deadline' = [deadline EXCEPT ![t] = "none"]
  /\ recursive_depth' = [recursive_depth EXCEPT ![t] = 0]
  /\ UNCHANGED <<live, mutex_type, owner, recursion_depth, waiter_count,
                 sleepers, pc, dangling, held>>
  /\ UNCHANGED <<condState, init_lock, to_relock, due>>

---------------------------------------------------------------------------
CondCall(t) ==
  \/ InitCond(t) \/ InitCondBusy(t)
  \/ DestroyCond(t) \/ DestroyCondBusy(t)
  \/ WakeNobody(t) \/ Signal(t) \/ Broadcast(t)
  \/ BadAbstime(t) \/ WaitDestroyed(t) \/ WaitRefused(t)
  \/ \E time \in Deadlines : Wait(t, time)

CondProgress(t) ==
  \/ CondNotify(t)
  \/ ReleaseForWait(t)
  \/ Commit(t)
  \/ Recheck(t)
  \/ Relock(t)
  \/ WaitReturn(t)

MutexCall(t) == cpc[t] = "out" /\ ClientCall(t) /\ UNCHANGED condVars

(* The mutex functions continue: called by the client, or the notify_one   *)
(* of the mutex_unlock_internal that a wait called.                        *)
MutexProgress(t) ==
  /\ cpc[t] # "relocking"
  /\ Progress(t)
  /\ UNCHANGED condVars

MutexSpuriousWake(t) == SpuriousWake(t) /\ UNCHANGED condVars

AnyProgress(t) == CondProgress(t) \/ MutexProgress(t)

CondNext ==
  \E t \in Threads :
    \/ CondCall(t) \/ MutexCall(t)
    \/ AnyProgress(t)
    \/ DeadlinePasses(t)
    \/ CondSpuriousWake(t) \/ MutexSpuriousWake(t)

CondSpec == Init /\ [][CondNext]_vars

---------------------------------------------------------------------------
(* The counters pthread_cond_destroy and pthread_mutex_destroy trust:      *)
(* waiter_count is the number of registered waiters, and the mutex counts  *)
(* every thread that is anywhere between registration and return, besides  *)
(* the threads blocked in it.                                              *)
CondCountersExact ==
  /\ cond = "live" => cond_waiters = Cardinality(Registered)
  /\ live => cond_waiter_count = Cardinality(InWait)
  /\ WaiterCountExact

(* Neither object disappears under a waiter: the cond stays live while     *)
(* somebody is registered, the mutex (referenced "during the wait/relock   *)
(* phase") until every wait has returned, and the unlock of a wait never   *)
(* notifies a freed state.                                                 *)
ObjectsOutliveWaits ==
  /\ Registered # {} => cond = "live"
  /\ InWait # {} => live
  /\ dangling \cap InWait = {}

(* No accepted wakeup is lost: every pending wakeup has a waiter that is   *)
(* awake and will look at it, or the notification is still to be sent; and *)
(* the waits lose no wakeup of the mutex.                                  *)
AwakeWaiters == Registered \ cond_sleepers
WakeupsReachWaiters ==
  /\ NoLostWakeup
  /\ cond = "live" =>
       /\ pending_wakeups <= cond_waiters
       /\ \/ \E t \in Threads : cpc[t] = "broadcasting"
          \/ \E t \in Threads : cpc[t] = "signalling"
                /\ pending_wakeups <= Cardinality(AwakeWaiters) + 1
          \/ pending_wakeups <= Cardinality(AwakeWaiters)

(* A wait gives back the mutex exactly as it took it: it returns to the    *)
(* owner of the mutex, at the depth the mutex had when the wait began.     *)
WaitRestoresDepth ==
  [][\A t \in Threads : cpc[t] = "relocking" /\ cpc'[t] = "out"
       => owner = t /\ held[t] = recursive_depth[t]]_vars

(* pthread_cond_broadcast "wakes all current waiters, if any"              *)
(* (pthread.rs:2197): a waiter the broadcast found does not wait forever.  *)
BroadcastWakesAll == \A t \in Threads : t \in due ~> t \notin due

(* A wait with a deadline ends: whatever the others do, it is over its     *)
(* sleep at some point, with or without a wakeup.                          *)
TimedWaitEnds ==
  \A t \in Threads : (cpc[t] = "waiting" /\ deadline[t] # "none") ~> (cpc[t] = "relocking")

(* The condition variable and its mutex are well-formed, count their       *)
(* waiters exactly and outlive them: pthread_cond_destroy and              *)
(* pthread_mutex_destroy decide by these counters.                         *)
CondStateIsSound == CondTypeOK /\ CondCountersExact /\ ObjectsOutliveWaits
=============================================================================
