--------------------------- MODULE PthreadRwlock ---------------------------
(* One pthread_rwlock_t of src/src/pthread.rs.                             *)
(*                                                                         *)
(* A global registry maps the address of the object to an Arc of its       *)
(* state.  Every function but init first clones that Arc                   *)
(* (rwlock_state_from_raw), under the registry lock, and then works on the *)
(* state it found, under the state's own lock; init, destroy and further   *)
(* inits may happen in between.  States are the places an Arc can be       *)
(* allocated: one is used again when neither the registry nor a thread     *)
(* refers to it.                                                           *)
EXTENDS Naturals, FiniteSets

CONSTANTS
  Threads,
  NoThread,    \* Option::None in writer_owner
  States,      \* the places for a PthreadRwlockState
  NoState,
  MaxCount     \* usize::MAX, where checked_add fails

ASSUME RwThreadsAssumption == NoThread \notin Threads /\ IsFiniteSet(Threads)
ASSUME RwStatesAssumption == NoState \notin States
ASSUME RwCountAssumption == MaxCount \in Nat \ {0}

VARIABLES
  entry,            \* the Arc in the registry, or NoState
  reader_owners,    \* the fields of PthreadRwlockLockState, per state ...
  total_readers,
  writer_owner,
  waiting_readers,
  waiting_writers,
  destroyed,
  sleepers,         \* ... and the threads asleep on its wait_cv
  arc,              \* the Arc each call holds
  op,               \* the function each thread is in
  pc,               \* and how far it is
  rw_result,        \* code returned by the call that returned last
  reads, writes     \* what each client holds, by its return codes

ownerVars == <<reader_owners, total_readers, writer_owner>>
waitVars == <<waiting_readers, waiting_writers, sleepers>>
heldVars == <<reads, writes>>
vars == <<entry, ownerVars, waitVars, destroyed, arc, op, pc, rw_result, heldVars>>

Ops == {"rdlock", "tryrdlock", "wrlock", "trywrlock", "unlock", "destroy"}
RwPlaces == {"out",
             "entered",     \* holds the Arc, the state lock still to be taken
             "waiting",     \* a registered waiter, asleep or just woken
             "notifying",   \* unlocked, notify_all still to be called
             "removing"}    \* marked destroyed, still in the registry
RwCodes == {"OK", "EBUSY", "EDEADLK", "EINVAL", "EAGAIN"}

RwTypeOK ==
  /\ entry \in States \cup {NoState}
  /\ reader_owners \in [States -> [Threads -> 0..MaxCount]]
  /\ total_readers \in [States -> 0..MaxCount]
  /\ writer_owner \in [States -> Threads \cup {NoThread}]
  /\ waiting_readers \in [States -> Nat]
  /\ waiting_writers \in [States -> Nat]
  /\ destroyed \in [States -> BOOLEAN]
  /\ sleepers \in [States -> SUBSET Threads]
  /\ arc \in [Threads -> States \cup {NoState}]
  /\ op \in [Threads -> Ops]
  /\ pc \in [Threads -> RwPlaces]
  /\ rw_result \in RwCodes
  /\ reads \in [Threads -> Nat]
  /\ writes \in [Threads -> BOOLEAN]

Nobody == [t \in Threads |-> 0]

Init ==
  /\ entry = NoState
  /\ reader_owners = [s \in States |-> Nobody]
  /\ total_readers = [s \in States |-> 0]
  /\ writer_owner = [s \in States |-> NoThread]
  /\ waiting_readers = [s \in States |-> 0]
  /\ waiting_writers = [s \in States |-> 0]
  /\ destroyed = [s \in States |-> FALSE]
  /\ sleepers = [s \in States |-> {}]
  /\ arc = [t \in Threads |-> NoState]
  /\ op = [t \in Threads |-> "unlock"]
  /\ pc = [t \in Threads |-> "out"]
  /\ rw_result = "OK"
  /\ reads = Nobody
  /\ writes = [t \in Threads |-> FALSE]

---------------------------------------------------------------------------
(* pthread_rwlock_init, under the registry lock.                           *)
Unreferenced(s) == entry # s /\ \A t \in Threads : arc[t] # s

InitRwlock(t) ==
  /\ pc[t] = "out"
  /\ \/ /\ entry = NoState
        /\ \E s \in States :
             /\ Unreferenced(s)
             /\ entry' = s
             /\ reader_owners' = [reader_owners EXCEPT ![s] = Nobody]
             /\ total_readers' = [total_readers EXCEPT ![s] = 0]
             /\ writer_owner' = [writer_owner EXCEPT ![s] = NoThread]
             /\ waiting_readers' = [waiting_readers EXCEPT ![s] = 0]
             /\ waiting_writers' = [waiting_writers EXCEPT ![s] = 0]
             /\ destroyed' = [destroyed EXCEPT ![s] = FALSE]
             /\ sleepers' = [sleepers EXCEPT ![s] = {}]
        /\ rw_result' = "OK"
     \/ /\ entry # NoState
        /\ rw_result' = "EBUSY"
        /\ UNCHANGED <<entry, ownerVars, waitVars, destroyed>>
  /\ UNCHANGED <<arc, op, pc, heldVars>>

(* rwlock_state_from_raw, the first step of every other function.          *)
Enter(t, f) ==
  /\ pc[t] = "out"
  /\ \/ /\ entry = NoState
        /\ rw_result' = "EINVAL"
        /\ UNCHANGED <<arc, op, pc>>
     \/ /\ entry # NoState
        /\ arc' = [arc EXCEPT ![t] = entry]
        /\ op' = [op EXCEPT ![t] = f]
        /\ pc' = [pc EXCEPT ![t] = "entered"]
        /\ UNCHANGED rw_result
  /\ UNCHANGED <<entry, ownerVars, waitVars, destroyed, heldVars>>

(* The Arc is dropped when a function returns.                             *)
Return(t, code) ==
  /\ pc' = [pc EXCEPT ![t] = "out"]
  /\ op' = [op EXCEPT ![t] = "unlock"]
  /\ arc' = [arc EXCEPT ![t] = NoState]
  /\ rw_result' = code
  /\ UNCHANGED <<entry, destroyed>>

Refuse(t, code) == Return(t, code) /\ UNCHANGED <<ownerVars, heldVars>>

SatSub(n) == IF n = 0 THEN 0 ELSE n - 1

---------------------------------------------------------------------------
(* rwlock_rdlock_internal and rwlock_wrlock_internal: one pass of the      *)
(* loop.  A waiter that leaves the loop takes itself off its count; one    *)
(* that sleeps for the first time puts itself on it.                       *)
MutUnregister_Never(t, waiting, s) == UNCHANGED waiting

Unregister(t, waiting, s) ==
  IF pc[t] = "waiting" THEN waiting' = [waiting EXCEPT ![s] = SatSub(@)]
                       ELSE UNCHANGED waiting

Register(t, waiting, s) ==
  IF pc[t] = "waiting" THEN UNCHANGED waiting
                       ELSE waiting' = [waiting EXCEPT ![s] = @ + 1]

Sleep(t, s) ==
  /\ sleepers' = [sleepers EXCEPT ![s] = @ \cup {t}]
  /\ pc' = [pc EXCEPT ![t] = "waiting"]
  /\ UNCHANGED <<entry, ownerVars, destroyed, arc, op, rw_result, heldVars>>

MutMayRead_IgnoresWriters(t, s) == writer_owner[s] = NoThread

MayRead(t, s) ==
  /\ writer_owner[s] = NoThread
  /\ waiting_writers[s] = 0 \/ reader_owners[s][t] > 0

MutMayWrite_IgnoresReaders(s) == writer_owner[s] = NoThread
MayWrite(s) == writer_owner[s] = NoThread /\ total_readers[s] = 0

TakeRead(t, s) ==
  /\ MayRead(t, s)
  /\ IF reader_owners[s][t] = MaxCount \/ total_readers[s] = MaxCount
     THEN Refuse(t, "EAGAIN")
     ELSE /\ reader_owners' = [reader_owners EXCEPT ![s][t] = @ + 1]
          /\ total_readers' = [total_readers EXCEPT ![s] = @ + 1]
          /\ reads' = [reads EXCEPT ![t] = @ + 1]
          /\ Return(t, "OK")
          /\ UNCHANGED <<writer_owner, writes>>

TakeWrite(t, s) ==
  /\ MayWrite(s)
  /\ writer_owner' = [writer_owner EXCEPT ![s] = t]
  /\ writes' = [writes EXCEPT ![t] = TRUE]
  /\ Return(t, "OK")
  /\ UNCHANGED <<reader_owners, total_readers, reads>>

ReadPass(t, s, try_only) ==
  \/ /\ \/ destroyed[s] /\ Refuse(t, "EINVAL")
        \/ ~destroyed[s] /\ TakeRead(t, s)
        \/ /\ ~destroyed[s] /\ writer_owner[s] = t
           /\ Refuse(t, IF try_only THEN "EBUSY" ELSE "EDEADLK")
     /\ Unregister(t, waiting_readers, s)
     /\ UNCHANGED <<waiting_writers, sleepers>>
  \/ /\ ~destroyed[s] /\ ~MayRead(t, s) /\ writer_owner[s] # t
     /\ \/ try_only /\ Refuse(t, "EBUSY") /\ UNCHANGED waitVars
        \/ /\ ~try_only /\ Register(t, waiting_readers, s) /\ Sleep(t, s)
           /\ UNCHANGED waiting_writers

WritePass(t, s, try_only) ==
  \/ /\ \/ destroyed[s] /\ Refuse(t, "EINVAL")
        \/ ~destroyed[s] /\ TakeWrite(t, s)
        \/ /\ ~destroyed[s] /\ writer_owner[s] = t
           /\ Refuse(t, IF try_only THEN "EBUSY" ELSE "EDEADLK")
     /\ Unregister(t, waiting_writers, s)
     /\ UNCHANGED <<waiting_readers, sleepers>>
  \/ /\ ~destroyed[s] /\ ~MayWrite(s) /\ writer_owner[s] # t
     /\ \/ try_only /\ Refuse(t, "EBUSY") /\ UNCHANGED waitVars
        \/ /\ ~try_only /\ Register(t, waiting_writers, s) /\ Sleep(t, s)
           /\ UNCHANGED waiting_readers

LockPass(t) ==
  /\ \/ pc[t] = "entered"
     \/ pc[t] = "waiting" /\ t \notin sleepers[arc[t]]
  /\ \/ op[t] = "rdlock" /\ ReadPass(t, arc[t], FALSE)
     \/ op[t] = "tryrdlock" /\ ReadPass(t, arc[t], TRUE)
     \/ op[t] = "wrlock" /\ WritePass(t, arc[t], FALSE)
     \/ op[t] = "trywrlock" /\ WritePass(t, arc[t], TRUE)

SpuriousWake(t) ==
  /\ pc[t] = "waiting" /\ t \in sleepers[arc[t]]
  /\ sleepers' = [sleepers EXCEPT ![arc[t]] = @ \ {t}]
  /\ UNCHANGED <<entry, ownerVars, waiting_readers, waiting_writers, destroyed,
                 arc, op, pc, rw_result, heldVars>>

---------------------------------------------------------------------------
(* rwlock_unlock_internal.                                                 *)
UnlockWriter(t, s) ==
  /\ writer_owner[s] = t
  /\ writer_owner' = [writer_owner EXCEPT ![s] = NoThread]
  /\ writes' = [writes EXCEPT ![t] = FALSE]
  /\ pc' = [pc EXCEPT ![t] = "notifying"]
  /\ UNCHANGED <<entry, reader_owners, total_readers, destroyed, arc, op,
                 rw_result, reads>>

MutUnlockReader_NeverNotifies(t, s) ==
  /\ writer_owner[s] # t /\ reader_owners[s][t] > 0
  /\ reader_owners' = [reader_owners EXCEPT ![s][t] = @ - 1]
  /\ total_readers' = [total_readers EXCEPT ![s] = @ - 1]
  /\ reads' = [reads EXCEPT ![t] = @ - 1]
  /\ Return(t, "OK")
  /\ UNCHANGED <<writer_owner, writes>>

MutUnlockReader_ForgetsDepth(t, s) ==
  /\ writer_owner[s] # t /\ reader_owners[s][t] > 0
  /\ reader_owners' = [reader_owners EXCEPT ![s][t] = 0]
  /\ total_readers' = [total_readers EXCEPT ![s] = @ - 1]
  /\ reads' = [reads EXCEPT ![t] = @ - 1]
  /\ Return(t, "OK")
  /\ UNCHANGED <<writer_owner, writes>>

MutUnlockReader_AnyCaller(t, s) ==
  /\ writer_owner[s] # t
  /\ reader_owners' = [reader_owners EXCEPT ![s][t] = @ - 1]
  /\ UNCHANGED <<total_readers, writer_owner, heldVars>>
  /\ Return(t, "OK")

UnlockReader(t, s) ==
  /\ writer_owner[s] # t
  /\ reader_owners[s][t] > 0
  /\ reader_owners' = [reader_owners EXCEPT ![s][t] = @ - 1]
  /\ total_readers' = [total_readers EXCEPT ![s] = @ - 1]
  /\ reads' = [reads EXCEPT ![t] = @ - 1]
  /\ IF total_readers'[s] = 0
     THEN /\ pc' = [pc EXCEPT ![t] = "notifying"]
          /\ UNCHANGED <<entry, destroyed, arc, op, rw_result>>
     ELSE Return(t, "OK")
  /\ UNCHANGED <<writer_owner, writes>>

UnlockPass(t) ==
  /\ pc[t] = "entered" /\ op[t] = "unlock"
  /\ LET s == arc[t] IN
       \/ destroyed[s] /\ Refuse(t, "EINVAL")
       \/ ~destroyed[s] /\ UnlockWriter(t, s)
       \/ ~destroyed[s] /\ UnlockReader(t, s)
       \/ /\ ~destroyed[s] /\ writer_owner[s] # t /\ reader_owners[s][t] = 0
          /\ Refuse(t, "EINVAL")
  /\ UNCHANGED waitVars

(* wait_cv.notify_all(), after the state lock was dropped.                 *)
Notify(t) ==
  /\ pc[t] = "notifying"
  /\ sleepers' = [sleepers EXCEPT ![arc[t]] = {}]
  /\ Return(t, "OK")
  /\ UNCHANGED <<ownerVars, waiting_readers, waiting_writers, heldVars>>

---------------------------------------------------------------------------
(* pthread_rwlock_destroy: rwlock_mark_destroyed, then the removal of the  *)
(* registry entry if it is still the state that was marked.                *)
MutInUse_OwnersOnly(s) == writer_owner[s] # NoThread \/ total_readers[s] # 0

InUse(s) == \/ writer_owner[s] # NoThread
            \/ total_readers[s] # 0
            \/ waiting_readers[s] # 0
            \/ waiting_writers[s] # 0

MarkDestroyed(t) ==
  /\ pc[t] = "entered" /\ op[t] = "destroy"
  /\ LET s == arc[t] IN
       \/ destroyed[s] /\ Refuse(t, "EINVAL")
       \/ ~destroyed[s] /\ InUse(s) /\ Refuse(t, "EBUSY")
       \/ /\ ~destroyed[s] /\ ~InUse(s)
          /\ destroyed' = [destroyed EXCEPT ![s] = TRUE]
          /\ pc' = [pc EXCEPT ![t] = "removing"]
          /\ UNCHANGED <<entry, arc, op, rw_result, ownerVars, heldVars>>
  /\ UNCHANGED waitVars

Remove(t) ==
  /\ pc[t] = "removing"
  /\ sleepers' = [sleepers EXCEPT ![arc[t]] = {}]
  /\ entry' = IF entry = arc[t] THEN NoState ELSE entry
  /\ pc' = [pc EXCEPT ![t] = "out"]
  /\ op' = [op EXCEPT ![t] = "unlock"]
  /\ arc' = [arc EXCEPT ![t] = NoState]
  /\ rw_result' = "OK"
  /\ UNCHANGED <<ownerVars, waiting_readers, waiting_writers, destroyed, heldVars>>

---------------------------------------------------------------------------
Call(t) == InitRwlock(t) \/ \E f \in Ops : Enter(t, f)

Progress(t) ==
  LockPass(t) \/ UnlockPass(t) \/ Notify(t) \/ MarkDestroyed(t) \/ Remove(t)

Next == \E t \in Threads : Call(t) \/ Progress(t) \/ SpuriousWake(t)

Spec == Init /\ [][Next]_vars

---------------------------------------------------------------------------
Waiters(s, f) == {t \in Threads : arc[t] = s /\ pc[t] = "waiting" /\ op[t] = f}
Live(s) == entry = s /\ ~destroyed[s]

(* Each read acquisition recorded in a state, as a thread and a depth.     *)
Acquisitions(s) ==
  {a \in Threads \X (1..MaxCount) : a[2] <= reader_owners[s][a[1]]}

(* The state agrees with the return codes: what clients hold is recorded   *)
(* in the state the registry has, and in no other; total_readers, which    *)
(* decides whether a writer may enter, is the sum of the readers' depths.  *)
OwnersMatchClients ==
  /\ \A t \in Threads :
       /\ reads[t] = IF entry = NoState THEN 0 ELSE reader_owners[entry][t]
       /\ writes[t] <=> entry # NoState /\ writer_owner[entry] = t
  /\ \A s \in States : total_readers[s] = Cardinality(Acquisitions(s))

(* The waiter counts that destroy and the writer preference read are       *)
(* exact, also across EDEADLK, EAGAIN and EINVAL exits of the loop.        *)
WaitersAreCounted ==
  \A s \in States :
    /\ waiting_readers[s] = Cardinality(Waiters(s, "rdlock"))
    /\ waiting_writers[s] = Cardinality(Waiters(s, "wrlock"))
    /\ sleepers[s] = {} \/ Live(s)

(* No lost wakeup: a thread asleep although the lock would admit it has a  *)
(* notify_all on its way.                                                  *)
Admissible(t, s) == IF op[t] = "rdlock" THEN MayRead(t, s) ELSE MayWrite(s)
NoLostWakeup ==
  \A s \in States : \A t \in sleepers[s] :
    Admissible(t, s) => \E u \in Threads : pc[u] = "notifying" /\ arc[u] = s

(* A state marked destroyed has no owner and nobody in its wait loop, and  *)
(* the only way out of the registry is that mark: a call that still holds  *)
(* the Arc of a removed state finds it destroyed.                          *)
DestroyedIsUnused ==
  \A s \in States :
    /\ entry # s /\ ~Unreferenced(s) => destroyed[s]
    /\ destroyed[s] => /\ writer_owner[s] = NoThread
                       /\ reader_owners[s] = Nobody
                       /\ \A t \in Threads : arc[t] = s => pc[t] # "waiting"

(* The lock as its clients see it implements the abstract read-write lock. *)
(* exists follows the mark, not the registry: between the two the object   *)
(* answers EINVAL to every call but init.                                  *)
Abstract == INSTANCE AbstractRwlock WITH
              exists <- (entry # NoState /\ ~destroyed[entry])

ImplementsAbstractRwlock == Abstract!Spec

(* The lock states are well-formed, record what the clients hold, and one  *)
(* that pthread_rwlock_destroy marked is used by nobody.                   *)
RwStateIsSound == RwTypeOK /\ OwnersMatchClients /\ DestroyedIsUnused

(* The waiter counts are exact and no admissible waiter is left asleep:    *)
(* rwlock_unlock_internal decides by the counts whether to notify.         *)
RwWaitersAreServed == WaitersAreCounted /\ NoLostWakeup
=============================================================================
