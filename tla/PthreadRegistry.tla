-------------------------- MODULE PthreadRegistry --------------------------
(* pthread_create, pthread_join and pthread_detach of src/src/pthread.rs.  *)
(*                                                                         *)
(* A thread is local (spawned by this library, named by a small number) or *)
(* native (created by the host libc for a non-zero attribute object, named *)
(* by a handle the host chose and may give out again).  The registry       *)
(* remembers how each name may be used.  It is locked for each step below, *)
(* never across one: a call looks its target up, works without the lock,   *)
(* and then records the outcome.  The host's own threads are external.     *)
EXTENDS Naturals, FiniteSets, SequencesExt

CONSTANTS
  Mains,        \* threads that were there before
  MaxLocal,     \* bound: how many local ids are given out
  Handles,      \* handles of the host libc
  NoTarget,
  CacheLimit,   \* NATIVE_DETACHED_CACHE_LIMIT, NATIVE_CONSUMED_CACHE_LIMIT
  Programs      \* [reuse, discipline]: does the host give out a released
                \* handle again, and which targets a client names, see MayName

LocalIds == 1..MaxLocal
Targets == LocalIds \cup Handles
Actors == Mains \cup Targets

ASSUME RegNamesAssumption ==
  /\ MaxLocal \in Nat
  /\ Mains \cap Targets = {} /\ LocalIds \cap Handles = {}
  /\ NoTarget \notin Targets
ASSUME RegCacheAssumption == CacheLimit \in Nat \ {0}
ASSUME RegClientAssumption ==
  Programs \subseteq [reuse : BOOLEAN, discipline : {"serial", "owner", "published", "any"}]

VARIABLES
  next_id,          \* NEXT_THREAD_ID
  joinable, local_pending, detached, finished,       \* PthreadRegistry ...
  native_joinable,
  native_detached,  \* ... the set and its _order queue hold the same handles:
  native_consumed,  \*     one sequence stands for both
  call,             \* the call each thread is in
  reply,            \* what the step just taken returned, if it ended a call
  thread,           \* the OS thread behind each local id
  host,             \* external: the host's view of each handle
  published,        \* names some pthread_create has returned ...
  owned,            \* ... as joinable, and not joined or detached since
  program           \* what the process does with them, fixed

localVars == <<next_id, joinable, local_pending, detached, finished>>
nativeVars == <<native_joinable, native_detached, native_consumed>>
osVars == <<thread, host>>
clientVars == <<published, owned, program>>
vars == <<localVars, nativeVars, call, reply, osVars, clientVars>>

Idle == [step |-> "idle", target |-> NoTarget, code |-> "0"]
NoReply == [by |-> NoTarget, target |-> NoTarget, code |-> "0"]
RegCodes == {"0", "EINVAL", "ESRCH", "EDEADLK", "EAGAIN"}
CallSteps ==
  {"idle",
   "spawning",                         \* id in local_pending, no thread yet
   "spawned",                          \* thread started, not in joinable yet
   "created", "created_detached",      \* native, not in native_joinable yet
   "join_local", "detach_local",       \* took the JoinHandle
   "join_native", "detach_native",     \* took the handle, host call to come
   "joined_native", "detached_native", \* host answered `code`
   "unknown"}                          \* found nothing

RegTypeOK ==
  /\ next_id \in 1..(MaxLocal + 1)
  /\ \A ids \in {joinable, local_pending, detached, finished} : ids \subseteq LocalIds
  /\ native_joinable \subseteq Handles
  /\ \A cache \in {native_detached, native_consumed} :
       /\ Len(cache) <= CacheLimit
       /\ ToSet(cache) \subseteq Targets
       /\ IsInjective(cache)
  /\ call \in [Actors -> [step : CallSteps, target : Targets \cup {NoTarget}, code : RegCodes]]
  /\ reply \in [by : Actors \cup {NoTarget}, target : Targets \cup {NoTarget}, code : RegCodes]
  /\ thread \in [LocalIds -> {"none", "running", "exited"}]
  /\ host \in [Handles -> {"fresh", "running", "exited", "detached", "released"}]
  /\ published \subseteq Targets /\ owned \subseteq published /\ program \in Programs

Init ==
  /\ next_id = 1
  /\ joinable = {} /\ local_pending = {} /\ detached = {} /\ finished = {}
  /\ native_joinable = {} /\ native_detached = <<>> /\ native_consumed = <<>>
  /\ call = [a \in Actors |-> Idle]
  /\ reply = NoReply
  /\ thread = [id \in LocalIds |-> "none"]
  /\ host = [h \in Handles |-> "fresh"]
  /\ published = {} /\ owned = {} /\ program \in Programs

---------------------------------------------------------------------------
(* The two native caches.                                                  *)
Forget(cache, x) == RemoveFirst(cache, x)

MutRemember_Unbounded(cache, x) ==
  IF x \in ToSet(cache) THEN cache ELSE Append(cache, x)

Remember(cache, x) ==
  LET grown == IF x \in ToSet(cache) THEN cache ELSE Append(cache, x)
  IN  IF Len(grown) > CacheLimit THEN Tail(grown) ELSE grown

MarkNativeDetached(x) ==
  /\ native_consumed' = Forget(native_consumed, x)
  /\ native_joinable' = native_joinable \ {x}
  /\ native_detached' = Remember(native_detached, x)

MarkNativeConsumed(x) ==
  /\ native_joinable' = native_joinable \ {x}
  /\ native_detached' = Forget(native_detached, x)
  /\ native_consumed' = Remember(native_consumed, x)

(* A failed host join that does not put the handle back.                   *)
MutRestoreNativeJoinable_Forgets(x) ==
  UNCHANGED nativeVars

RestoreNativeJoinable(x) ==
  /\ native_joinable' = IF x \in ToSet(native_detached)
                          THEN native_joinable ELSE native_joinable \cup {x}
  /\ UNCHANGED <<native_detached, native_consumed>>

---------------------------------------------------------------------------
(* Who calls, and how calls proceed.                                       *)
Running(a) ==
  \/ a \in Mains
  \/ a \in LocalIds /\ thread[a] = "running"
  \/ a \in Handles /\ host[a] \in {"running", "detached"}

MayCall(a) == Running(a) /\ call[a].step = "idle"

(* The targets a client may name: the ones it owns, each in one call at a  *)
(* time ("owner", and "serial" where moreover no native create overlaps a  *)
(* native join or detach); whatever a create once returned; or anything.   *)
MayName(t) ==
  CASE program.discipline \in {"serial", "owner"} ->
         t \in owned /\ \A a \in Actors : call[a].target # t
    [] program.discipline = "published" -> t \in published
    [] program.discipline = "any" -> TRUE

MayCreateNative ==
  program.discipline = "serial" => \A a \in Actors : call[a].target \notin Handles

Proceed(a, s, t) ==
  /\ call' = [call EXCEPT ![a] = [step |-> s, target |-> t, code |-> "0"]]
  /\ reply' = NoReply

Return(a, t, c) ==
  /\ call' = [call EXCEPT ![a] = Idle]
  /\ reply' = [by |-> a, target |-> t, code |-> c]

---------------------------------------------------------------------------
(* pthread_create, local path: allocate_thread_id and spawn_local_thread.  *)
IdInUse(id) ==
  \/ id \in joinable \cup local_pending \cup detached
  \/ id \in native_joinable \cup ToSet(native_detached) \cup ToSet(native_consumed)

AllocateThreadId(a) ==
  /\ MayCall(a)
  /\ \E id \in next_id..MaxLocal :
       /\ ~IdInUse(id)
       /\ \A skipped \in next_id..(id - 1) : IdInUse(skipped)
       /\ next_id' = id + 1
       /\ local_pending' = local_pending \cup {id}
       /\ Proceed(a, "spawning", id)
  /\ UNCHANGED <<joinable, detached, finished, nativeVars, osVars, clientVars>>

SpawnThread(a) ==
  /\ call[a].step = "spawning"
  /\ LET id == call[a].target
     IN  \/ /\ thread' = [thread EXCEPT ![id] = "running"]
            /\ Proceed(a, "spawned", id)
            /\ UNCHANGED local_pending
         \/ /\ local_pending' = local_pending \ {id}
            /\ Return(a, id, "EAGAIN")
            /\ UNCHANGED thread
  /\ UNCHANGED <<next_id, joinable, detached, finished, nativeVars, host, clientVars>>

PublishLocal(a) ==
  /\ call[a].step = "spawned"
  /\ LET id == call[a].target
     IN  /\ joinable' = joinable \cup {id}
         /\ local_pending' = local_pending \ {id}
         /\ published' = published \cup {id}
         /\ owned' = owned \cup {id}
         /\ Return(a, id, "0")
  /\ UNCHANGED <<next_id, detached, finished, nativeVars, osVars, program>>

(* An exit that looks only at joinable, missing a thread that is done      *)
(* before spawn_local_thread has published its JoinHandle.                 *)
MutLocalThreadExit_NotPending(id) ==
  /\ thread[id] = "running" /\ call[id].step = "idle"
  /\ detached' = detached \ {id}
  /\ finished' = IF id \notin detached /\ id \in joinable
                   THEN finished \cup {id} ELSE finished
  /\ thread' = [thread EXCEPT ![id] = "exited"]
  /\ reply' = NoReply
  /\ UNCHANGED <<next_id, joinable, local_pending, nativeVars, call, host, clientVars>>

(* An exit that does not forget a detached thread.                         *)
MutLocalThreadExit_KeepsDetached(id) ==
  /\ thread[id] = "running" /\ call[id].step = "idle"
  /\ finished' = IF id \notin detached /\ id \in joinable \cup local_pending
                   THEN finished \cup {id} ELSE finished
  /\ thread' = [thread EXCEPT ![id] = "exited"]
  /\ reply' = NoReply
  /\ UNCHANGED <<next_id, joinable, local_pending, detached, nativeVars, call, host, clientVars>>

(* start_routine has returned: handle_local_thread_exit.                   *)
LocalThreadExit(id) ==
  /\ thread[id] = "running" /\ call[id].step = "idle"
  /\ detached' = detached \ {id}
  /\ finished' = IF id \notin detached /\ id \in joinable \cup local_pending
                   THEN finished \cup {id} ELSE finished
  /\ thread' = [thread EXCEPT ![id] = "exited"]
  /\ reply' = NoReply
  /\ UNCHANGED <<next_id, joinable, local_pending, nativeVars, call, host, clientVars>>

---------------------------------------------------------------------------
(* pthread_create, native path: the host creates the thread (or refuses),  *)
(* then the registry takes note.                                           *)
HostCreate(a) ==
  /\ MayCall(a) /\ MayCreateNative
  /\ \E h \in Handles, s \in {"created", "created_detached"} :
       /\ host[h] = "fresh" \/ (program.reuse /\ host[h] = "released")
       /\ host' = [host EXCEPT ![h] = IF s = "created" THEN "running" ELSE "detached"]
       /\ Proceed(a, s, h)
  /\ UNCHANGED <<localVars, nativeVars, thread, clientVars>>

PublishNative(a) ==
  /\ call[a].step \in {"created", "created_detached"}
  /\ LET h == call[a].target
     IN  /\ native_joinable' = native_joinable \cup {h}
         /\ native_detached' = Forget(native_detached, h)
         /\ native_consumed' = Forget(native_consumed, h)
         /\ published' = published \cup {h}
         /\ owned' = IF call[a].step = "created" THEN owned \cup {h} ELSE owned
         /\ Return(a, h, "0")
  /\ UNCHANGED <<localVars, osVars, program>>

HostThreadExit(h) ==
  /\ host[h] \in {"running", "detached"} /\ call[h].step = "idle"
  /\ host' = [host EXCEPT ![h] = IF @ = "running" THEN "exited" ELSE "released"]
  /\ reply' = NoReply
  /\ UNCHANGED <<localVars, nativeVars, call, thread, clientVars>>

---------------------------------------------------------------------------
(* pthread_join and pthread_detach, first critical section.                *)
Refuse(a, t, c) ==
  Return(a, t, c) /\ UNCHANGED <<localVars, nativeVars>>

TakeNative(a, t, s) ==
  /\ native_joinable' = native_joinable \ {t}
  /\ native_detached' = Forget(native_detached, t)
  /\ Proceed(a, s, t)
  /\ UNCHANGED <<localVars, native_consumed>>

FindNothing(a, t) ==
  Proceed(a, "unknown", t) /\ UNCHANGED <<localVars, nativeVars>>

LookUp(a, t, takeLocal(_), nativeStep) ==
  \/ /\ t \in detached
     /\ Refuse(a, t, "EINVAL")
  \/ /\ t \notin detached /\ t \in ToSet(native_consumed)
     /\ Refuse(a, t, "ESRCH")
  \/ /\ t \notin detached \cup ToSet(native_consumed)
     /\ \/ t \in joinable /\ takeLocal(t)
        \/ t \notin joinable /\ t \in ToSet(native_detached) /\ Refuse(a, t, "EINVAL")
        \/ /\ t \notin joinable \cup ToSet(native_detached)
           /\ \/ t \in native_joinable /\ TakeNative(a, t, nativeStep)
              \/ t \notin native_joinable /\ FindNothing(a, t)

(* A join that looks the JoinHandle up without taking it.                  *)
MutJoin_Peeks(a, t) ==
  /\ MayCall(a) /\ MayName(t)
  /\ LET takeLocal(id) ==
           /\ finished' = finished \ {id}
           /\ Proceed(a, "join_local", id)
           /\ UNCHANGED <<next_id, joinable, local_pending, detached, nativeVars>>
     IN  \/ a \in LocalIds /\ a = t /\ Refuse(a, t, "EDEADLK")
         \/ ~(a \in LocalIds /\ a = t) /\ LookUp(a, t, takeLocal, "join_native")
  /\ UNCHANGED <<osVars, clientVars>>

Join(a, t) ==
  /\ MayCall(a) /\ MayName(t)
  /\ LET takeLocal(id) ==
           /\ joinable' = joinable \ {id}
           /\ finished' = finished \ {id}
           /\ Proceed(a, "join_local", id)
           /\ UNCHANGED <<next_id, local_pending, detached, nativeVars>>
     IN  \/ a \in LocalIds /\ a = t /\ Refuse(a, t, "EDEADLK")
         \/ ~(a \in LocalIds /\ a = t) /\ LookUp(a, t, takeLocal, "join_native")
  /\ UNCHANGED <<osVars, clientVars>>

Detach(a, t) ==
  /\ MayCall(a) /\ MayName(t)
  /\ LET takeLocal(id) ==
           /\ joinable' = joinable \ {id}
           /\ finished' = finished \ {id}
           /\ detached' = IF id \in finished THEN detached ELSE detached \cup {id}
           /\ Proceed(a, "detach_local", id)
           /\ UNCHANGED <<next_id, local_pending, nativeVars>>
     IN  LookUp(a, t, takeLocal, "detach_native")
  /\ UNCHANGED <<osVars, clientVars>>

---------------------------------------------------------------------------
(* The rest of the two calls: join_handle.join() and drop(join_handle) for *)
(* a local thread; for a native one the host's answer (external) and       *)
(* handle_forwarded_native_join_result or _detach_result.                  *)
FinishLocal(a) ==
  /\ \/ call[a].step = "join_local" /\ thread[call[a].target] = "exited"
     \/ call[a].step = "detach_local"
  /\ owned' = owned \ {call[a].target}
  /\ Return(a, call[a].target, "0")
  /\ UNCHANGED <<localVars, nativeVars, osVars, published, program>>

HostAnswer(a, s, c, hostState) ==
  LET h == call[a].target
  IN  /\ call' = [call EXCEPT ![a] = [step |-> s, target |-> h, code |-> c]]
      /\ reply' = NoReply
      /\ host' = [host EXCEPT ![h] = hostState]
      /\ owned' = IF c = "0" THEN owned \ {h} ELSE owned
      /\ UNCHANGED <<localVars, nativeVars, thread, published, program>>

HostJoin(a) ==
  /\ call[a].step = "join_native"
  /\ LET h == call[a].target
     IN  \/ h = a /\ HostAnswer(a, "joined_native", "EDEADLK", host[h])
         \/ h # a /\ host[h] = "exited" /\ HostAnswer(a, "joined_native", "0", "released")
         \/ h # a /\ host[h] = "detached" /\ HostAnswer(a, "joined_native", "EINVAL", host[h])
         \/ /\ h # a /\ host[h] \in {"fresh", "released"}
            /\ HostAnswer(a, "joined_native", "ESRCH", host[h])

HostDetach(a) ==
  /\ call[a].step = "detach_native"
  /\ LET h == call[a].target
     IN  \/ host[h] = "running" /\ HostAnswer(a, "detached_native", "0", "detached")
         \/ host[h] = "exited" /\ HostAnswer(a, "detached_native", "0", "released")
         \/ host[h] = "detached" /\ HostAnswer(a, "detached_native", "EINVAL", host[h])
         \/ host[h] \in {"fresh", "released"} /\ HostAnswer(a, "detached_native", "ESRCH", host[h])

(* Any failed host join taken to mean that the thread is detached.         *)
MutHandleJoinResult_DetachedOnError(a) ==
  /\ call[a].step = "joined_native"
  /\ LET h == call[a].target
         c == call[a].code
     IN  /\ \/ c = "0" /\ MarkNativeConsumed(h)
            \/ c # "0" /\ MarkNativeDetached(h)
         /\ Return(a, h, c)
  /\ UNCHANGED <<localVars, osVars, clientVars>>

HandleJoinResult(a) ==
  /\ call[a].step = "joined_native"
  /\ LET h == call[a].target
         c == call[a].code
     IN  /\ \/ c = "0" /\ h \in ToSet(native_detached) /\ MarkNativeDetached(h)
            \/ c = "0" /\ h \notin ToSet(native_detached) /\ MarkNativeConsumed(h)
            \/ c = "ESRCH" /\ MarkNativeConsumed(h)
            \/ c = "EINVAL" /\ MarkNativeDetached(h)
            \/ c = "EDEADLK" /\ RestoreNativeJoinable(h)
         /\ Return(a, h, c)
  /\ UNCHANGED <<localVars, osVars, clientVars>>

HandleDetachResult(a) ==
  /\ call[a].step = "detached_native"
  /\ LET h == call[a].target
         c == call[a].code
     IN  /\ \/ c \in {"0", "EINVAL"} /\ MarkNativeDetached(h)
            \/ c = "ESRCH" /\ MarkNativeConsumed(h)
         /\ Return(a, h, c)
  /\ UNCHANGED <<localVars, osVars, clientVars>>

RefuseUnknown(a) ==
  /\ call[a].step = "unknown"
  /\ MarkNativeConsumed(call[a].target)
  /\ Return(a, call[a].target, "ESRCH")
  /\ UNCHANGED <<localVars, osVars, clientVars>>

---------------------------------------------------------------------------
Client(a) ==
  \/ AllocateThreadId(a) \/ HostCreate(a)
  \/ \E t \in Targets : Join(a, t) \/ Detach(a, t)

Progress(a) ==
  \/ SpawnThread(a) \/ PublishLocal(a) \/ PublishNative(a)
  \/ FinishLocal(a) \/ HostJoin(a) \/ HostDetach(a)
  \/ HandleJoinResult(a) \/ HandleDetachResult(a) \/ RefuseUnknown(a)

Next ==
  \/ \E a \in Actors : Client(a) \/ Progress(a)
  \/ \E id \in LocalIds : LocalThreadExit(id)
  \/ \E h \in Handles : HostThreadExit(h)

Spec == Init /\ [][Next]_vars

---------------------------------------------------------------------------
(* Properties.                                                             *)
Claims == {"join_local", "detach_local", "join_native", "detach_native"}

Claimed(t) ==
  \E a \in Actors :
    /\ call[a].target = t
    /\ call[a].step \in Claims \/ call[a].code \notin {"0", "ESRCH"}

(* A thread that a create returned as joinable, and that nobody has joined *)
(* or detached since, can be joined: the registry lists it as joinable and *)
(* in none of the sets that make a call fail, unless a join or detach of   *)
(* it is under way.  (The doc comments of pthread_join and pthread_detach: *)
(* ESRCH when no known pthread target exists for the handle.)              *)
OwnedStaysJoinable ==
  \A t \in owned :
    \/ Claimed(t)
    \/ /\ t \in joinable \cup native_joinable
       /\ t \notin detached \cup ToSet(native_detached) \cup ToSet(native_consumed)

(* handle_local_thread_exit, the publication of the JoinHandle and the two *)
(* consumers meet in any order, yet afterwards finished holds exactly the  *)
(* exited threads still to be joined or detached, and detached only        *)
(* threads that still run: nothing is remembered of a thread that is done. *)
RegistryTracksThreads ==
  /\ finished = {id \in joinable \cup local_pending : thread[id] = "exited"}
  /\ \A id \in detached :
       thread[id] = "running" /\ id \notin joinable \cup local_pending

(* A thread has one consumer: two calls never hold its JoinHandle, or are  *)
(* both about to pass its handle to the host.                              *)
ClaimsAreExclusive ==
  \A a, b \in Actors :
    /\ call[a].step \in Claims /\ call[b].step \in Claims
    /\ call[a].target = call[b].target
    => a = b

(* What a call on a local thread reports is so: EDEADLK a thread joining   *)
(* itself, EINVAL a detached thread that has not exited, ESRCH a thread    *)
(* already joined or detached, or just being so.                           *)
RepliesAreTruthful ==
  LET t == reply.target
      c == reply.code
  IN  reply.by \in Actors /\ t \in LocalIds =>
        /\ c = "EDEADLK" => reply.by = t
        /\ c = "EINVAL" => thread[t] = "running" /\ (t \notin owned \/ Claimed(t))
        /\ c = "ESRCH" => t \notin owned \/ Claimed(t)

(* As long as the host gives no handle out twice, a handle the registry    *)
(* takes for detached is, and it is not also remembered as consumed:       *)
(* whatever calls cross, EINVAL is answered for no joinable thread.        *)
NativeDetachedIsDetached ==
  ~program.reuse =>
    \A h \in ToSet(native_detached) :
      host[h] \in {"detached", "released"} /\ h \notin ToSet(native_consumed)

(* A call on a handle whose detached thread the host has released does not *)
(* fail with EINVAL.  (pthread_join's doc comment: ESRCH when a detached   *)
(* native handle has already been released.)                               *)
ReleasedIsESRCH ==
  [][\A a \in Actors :
       /\ call[a].step = "idle" /\ reply'.by = a
       /\ reply'.target \in Handles /\ host[reply'.target] = "released"
       => reply'.code # "EINVAL"]_vars

(* A call on a detached handle the host keeps alive finds it, so that it   *)
(* can answer EINVAL.  (pthread_join's doc comment: EINVAL when the target *)
(* is detached and the host runtime still keeps the detached handle alive.)*)
DetachedIsKnown ==
  [][\A a \in Actors :
       call[a].step = "idle" /\ call'[a].step = "unknown" =>
         LET h == call'[a].target
         IN  ~ /\ h \in Handles \cap published /\ host[h] = "detached"
               /\ \A b \in Actors : call[b].target # h]_vars

(* The registry's own promise: its sets say of every local thread whether  *)
(* it waits to be joined, runs detached or is done, each thread has one    *)
(* consumer, and the native caches hold what they are for.                 *)
RegistryIsSound ==
  RegTypeOK /\ RegistryTracksThreads /\ ClaimsAreExclusive /\ NativeDetachedIsDetached

(* In a program that does not overlap native creates with native joins and *)
(* detaches, an owned thread stays joinable although the host gives its    *)
(* handles out again (mark_native_consumed, restore_native_joinable).      *)
DisciplinedStaysJoinable == program.discipline = "serial" => OwnedStaysJoinable
=============================================================================
