------------------------ MODULE PthreadRegistryProofs ------------------------
(* The thread registry keeps its promises, for any number of threads,      *)
(* handles and cached handles.  RegIInv is inductive: it says which phase  *)
(* of which call holds each local id and each native handle.               *)
EXTENDS PthreadRegistry, SequenceTheorems, TLAPS

---------------------------------------------------------------------------
(* The caches of native handles.                                           *)
Cache == {c \in Seq(Targets) : Len(c) <= CacheLimit /\ IsInjective(c)}

(* Taking a handle out of a cache leaves the others.                       *)
LEMMA ForgetFacts ==
  ASSUME NEW c \in Cache, NEW x
  PROVE  Forget(c, x) \in Cache /\ ToSet(Forget(c, x)) = ToSet(c) \ {x}
<1>1. c \in Seq(Targets) /\ Len(c) \in Nat /\ Len(c) <= CacheLimit /\ IsInjective(c)
      /\ DOMAIN c = 1..Len(c)
  BY DEF Cache
<1>2. CASE ~\E i \in 1..Len(c) : c[i] = x
  BY <1>1, <1>2 DEF Forget, RemoveFirst, ToSet
<1>3. CASE \E i \in 1..Len(c) : c[i] = x
  <2>1. PICK i \in 1..Len(c) : c[i] = x
    BY <1>3
  <2>2. {j \in 1..Len(c) : c[j] = x} = {i}
    BY <1>1, <2>1 DEF IsInjective
  <2>3. SelectInSeq(c, LAMBDA v : v = x) = i
    BY <2>1, <2>2 DEF SelectInSeq, Min
  <2>4. Forget(c, x) = SubSeq(c, 1, i - 1) \o SubSeq(c, i + 1, Len(c))
    BY <1>3, <2>3 DEF Forget, RemoveFirst, RemoveAt
  <2> DEFINE f == Forget(c, x)
  <2>5. /\ f \in Seq(Targets) /\ Len(f) = Len(c) - 1 /\ DOMAIN f = 1..Len(f)
        /\ \A j \in 1..Len(f) : f[j] = IF j < i THEN c[j] ELSE c[j + 1]
    <3> DEFINE s == SubSeq(c, 1, i - 1)
               r == SubSeq(c, i + 1, Len(c))
    <3>1. /\ s \in Seq(Targets) /\ Len(s) = i - 1
          /\ \A j \in 1..(i - 1) : s[j] = c[j]
      BY <1>1, <2>1
    <3>2. /\ r \in Seq(Targets) /\ Len(r) = Len(c) - i
          /\ \A j \in 1..(Len(c) - i) : r[j] = c[i + j]
      <4>1. \A j \in (i + 1)..Len(c) : c[j] \in Targets
        BY <1>1, <2>1
      <4>2. /\ r \in Seq(Targets)
            /\ Len(r) = IF i + 1 <= Len(c) THEN Len(c) - (i + 1) + 1 ELSE 0
            /\ \A j \in 1..(Len(c) - (i + 1) + 1) : r[j] = c[(i + 1) + j - 1]
        BY <1>1, <2>1, <4>1, SubSeqProperties
      <4> HIDE DEF r
      <4>3. \A j \in 1..(Len(c) - i) : j \in 1..(Len(c) - (i + 1) + 1) /\ (i + 1) + j - 1 = i + j
        BY <1>1, <2>1
      <4>4. Len(r) = Len(c) - i
        <5>1. \A m \in Nat : \A n \in 1..m : (IF n + 1 <= m THEN m - (n + 1) + 1 ELSE 0) = m - n
          OBVIOUS
        <5> QED
          BY <1>1, <2>1, <4>2, <5>1
      <4>5. \A j \in 1..(Len(c) - i) : r[j] = c[i + j]
        BY <4>2, <4>3
      <4> QED
        BY <4>2, <4>4, <4>5
    <3> HIDE DEF s, r
    <3>3. /\ s \o r \in Seq(Targets) /\ Len(s \o r) = Len(c) - 1
          /\ \A j \in 1..(Len(c) - 1) :
               (s \o r)[j] = IF j < i THEN s[j] ELSE r[j - (i - 1)]
      <4>1. /\ s \o r \in Seq(Targets) /\ Len(s \o r) = Len(s) + Len(r)
            /\ \A j \in 1..(Len(s) + Len(r)) :
                 (s \o r)[j] = IF j <= Len(s) THEN s[j] ELSE r[j - Len(s)]
        BY <3>1, <3>2, ConcatProperties
      <4>2. Len(s) = i - 1 /\ Len(s) + Len(r) = Len(c) - 1
        BY <1>1, <2>1, <3>1, <3>2
      <4>3. ASSUME NEW j \in 1..(Len(c) - 1)
            PROVE  (s \o r)[j] = IF j < i THEN s[j] ELSE r[j - (i - 1)]
        <5>1. (s \o r)[j] = IF j <= i - 1 THEN s[j] ELSE r[j - (i - 1)]
          BY <4>1, <4>2
        <5>2. j <= i - 1 <=> j < i
          BY <2>1
        <5> QED
          BY <5>1, <5>2
      <4> QED
        BY <4>1, <4>2, <4>3
    <3>4. f = s \o r
      BY <2>4 DEF s, r
    <3>5. ASSUME NEW j \in 1..(Len(c) - 1)
          PROVE  f[j] = IF j < i THEN c[j] ELSE c[j + 1]
      <4>1. CASE j < i
        BY <1>1, <2>1, <3>1, <3>3, <3>4, <4>1
      <4>2. CASE j >= i
        <5>1. j - (i - 1) \in 1..(Len(c) - i) /\ i + (j - (i - 1)) = j + 1
          BY <1>1, <2>1, <4>2
        <5> QED
          BY <1>1, <2>1, <3>2, <3>3, <3>4, <4>2, <5>1
      <4> QED
        BY <2>1, <4>1, <4>2
    <3> QED
      BY <3>3, <3>4, <3>5
  <2> HIDE DEF f
  <2>6. IsInjective(f)
    <3> SUFFICES ASSUME NEW j \in 1..Len(f), NEW k \in 1..Len(f), f[j] = f[k]
                 PROVE  j = k
      BY <2>5 DEF IsInjective
    <3> DEFINE at(n) == IF n < i THEN n ELSE n + 1
    <3>1. at(j) \in 1..Len(c) /\ at(k) \in 1..Len(c) /\ c[at(j)] = c[at(k)]
      BY <1>1, <2>1, <2>5
    <3>2. at(j) = at(k)
      BY <1>1, <3>1 DEF IsInjective
    <3> QED
      BY <2>1, <3>2
  <2>7. ToSet(f) = ToSet(c) \ {x}
    <3>1. ASSUME NEW j \in 1..Len(f)
          PROVE  f[j] \in ToSet(c) /\ f[j] # x
      <4> DEFINE k == IF j < i THEN j ELSE j + 1
      <4>1. k \in 1..Len(c) /\ f[j] = c[k] /\ k # i
        BY <1>1, <2>1, <2>5
      <4>2. c[k] # c[i]
        BY <1>1, <4>1 DEF IsInjective
      <4> QED
        BY <1>1, <2>1, <4>1, <4>2 DEF ToSet
    <3>2. ASSUME NEW k \in 1..Len(c), c[k] # x
          PROVE  \E j \in 1..Len(f) : f[j] = c[k]
      <4>1. CASE k < i
        BY <1>1, <2>1, <2>5, <4>1
      <4>2. CASE k > i
        <5>1. k - 1 \in 1..Len(f) /\ f[k - 1] = c[k]
          BY <1>1, <2>1, <2>5, <4>2
        <5> QED
          BY <5>1
      <4> QED
        BY <2>1, <3>2, <4>1, <4>2
    <3>3. ToSet(f) = {f[j] : j \in 1..Len(f)} /\ ToSet(c) = {c[k] : k \in 1..Len(c)}
      BY <1>1, <2>5 DEF ToSet
    <3> QED
      BY <3>1, <3>2, <3>3
  <2>8. Len(f) <= CacheLimit
    BY <1>1, <2>5, RegCacheAssumption
  <2> QED
    BY <2>5, <2>6, <2>7, <2>8 DEF f, Cache
<1> QED
  BY <1>2, <1>3

(* A cache that takes in a handle holds it, and drops at most the oldest.  *)
LEMMA RememberFacts ==
  ASSUME NEW c \in Cache, NEW x \in Targets
  PROVE  /\ Remember(c, x) \in Cache
         /\ x \in ToSet(Remember(c, x)) /\ ToSet(Remember(c, x)) \subseteq ToSet(c) \cup {x}
<1>1. c \in Seq(Targets) /\ Len(c) \in Nat /\ Len(c) <= CacheLimit /\ IsInjective(c)
      /\ DOMAIN c = 1..Len(c)
  BY DEF Cache
<1>2. CASE x \in ToSet(c)
  BY <1>1, <1>2, RegCacheAssumption DEF Remember, Cache
<1>3. CASE x \notin ToSet(c)
  <2> DEFINE g == Append(c, x)
  <2>1. /\ g \in Seq(Targets) /\ Len(g) = Len(c) + 1 /\ DOMAIN g = 1..Len(g)
        /\ \A i \in 1..Len(c) : g[i] = c[i]
        /\ g[Len(g)] = x
    BY <1>1
  <2>2. Remember(c, x) = IF Len(g) > CacheLimit THEN Tail(g) ELSE g
    BY <1>3 DEF Remember
  <2> HIDE DEF g
  <2>3. \A i \in 1..Len(g) : g[i] \in ToSet(c) \cup {x}
    BY <1>1, <2>1 DEF ToSet
  <2>4. IsInjective(g)
    <3>1. \A i \in 1..Len(c) : c[i] # x
      BY <1>1, <1>3 DEF ToSet
    <3> QED
      BY <1>1, <2>1, <3>1 DEF IsInjective
  <2>5. CASE Len(g) <= CacheLimit
    <3>1. Remember(c, x) = g
      BY <1>1, <2>1, <2>2, <2>5, RegCacheAssumption
    <3>2. Len(g) \in 1..Len(g)
      BY <1>1, <2>1
    <3> QED
      BY <2>1, <2>3, <2>4, <2>5, <3>1, <3>2 DEF Cache, ToSet
  <2>6. CASE Len(g) > CacheLimit
    <3> DEFINE r == Tail(g)
    <3>1. Remember(c, x) = r
      BY <2>2, <2>6
    <3>2. /\ r \in Seq(Targets) /\ Len(r) = Len(c) /\ DOMAIN r = 1..Len(r)
          /\ \A i \in 1..Len(r) : r[i] = g[i + 1]
      BY <1>1, <2>1
    <3>3. Len(c) \in 1..Len(c)
      BY <1>1, <2>1, <2>6, RegCacheAssumption
    <3> HIDE DEF r
    <3>4. r[Len(c)] = x
      BY <1>1, <2>1, <3>2, <3>3
    <3>5. IsInjective(r)
      BY <1>1, <2>1, <2>4, <3>2 DEF IsInjective
    <3>6. \A i \in 1..Len(r) : r[i] \in ToSet(c) \cup {x}
      BY <1>1, <2>1, <2>3, <3>2
    <3>7. x \in ToSet(r) /\ ToSet(r) \subseteq ToSet(c) \cup {x}
      BY <3>2, <3>3, <3>4, <3>6 DEF ToSet
    <3> QED
      BY <1>1, <3>1, <3>2, <3>5, <3>7 DEF Cache
  <2> QED
    BY <1>1, <2>1, <2>5, <2>6, RegCacheAssumption
<1> QED
  BY <1>2, <1>3

---------------------------------------------------------------------------
(* The inductive invariant.                                                *)
ND == ToSet(native_detached)
NC == ToSet(native_consumed)

(* What a call can be in: the phase goes with the kind of its target.      *)
LocalClaims == {"join_local", "detach_local"}
NativeClaims == {"join_native", "detach_native"}
CallRecords ==
  {Idle} \cup [step : {"spawning", "spawned"} \cup LocalClaims, target : LocalIds, code : {"0"}]
         \cup [step : {"created", "created_detached"} \cup NativeClaims, target : Handles,
               code : {"0"}]
         \cup [step : {"joined_native"}, target : Handles,
               code : {"0", "EDEADLK", "EINVAL", "ESRCH"}]
         \cup [step : {"detached_native"}, target : Handles, code : {"0", "EINVAL", "ESRCH"}]
         \cup [step : {"unknown"}, target : Targets, code : {"0"}]

Replies == [by : Actors \cup {NoTarget}, target : Targets \cup {NoTarget}, code : RegCodes]

RegShape ==
  /\ next_id \in 1..(MaxLocal + 1)
  /\ joinable \subseteq LocalIds /\ local_pending \subseteq LocalIds
  /\ detached \subseteq LocalIds /\ finished \subseteq LocalIds
  /\ native_joinable \subseteq Handles
  /\ native_detached \in Cache /\ native_consumed \in Cache
  /\ ND \subseteq Handles /\ ND \cap NC = {}
  /\ call \in [Actors -> CallRecords]
  /\ reply \in Replies
  /\ thread \in [LocalIds -> {"none", "running", "exited"}]
  /\ host \in [Handles -> {"fresh", "running", "exited", "detached", "released"}]
  /\ published \subseteq Targets /\ owned \subseteq published /\ program \in Programs

(* A local id has one creator and then at most one consumer, and is never  *)
(* given out again.                                                        *)
LocalSteps == {"spawning", "spawned"} \cup LocalClaims

NamesOfLocals ==
  /\ RegistryTracksThreads
  /\ \A id \in joinable \cup local_pending : id < next_id
  /\ \A id \in published \cap LocalIds : id < next_id /\ id \notin local_pending
  /\ \A id \in joinable : id \in published /\ thread[id] # "none"
  /\ \A id \in LocalIds : id >= next_id => thread[id] = "none"

CallsOnLocals ==
  \A a \in Actors :
    LET id == call[a].target
    IN /\ call[a].step = "spawning" => id \in local_pending /\ thread[id] = "none"
       /\ call[a].step = "spawned" => id \in local_pending /\ thread[id] # "none"
       /\ call[a].step \in LocalClaims => id \in published \ joinable /\ thread[id] # "none"

OneCallPerLocal ==
  \A a, b \in Actors :
    /\ call[a].target = call[b].target
    /\ \/ call[a].step \in LocalClaims /\ call[b].step \in LocalClaims
       \/ call[a].step \in {"spawning", "spawned"} /\ call[b].step \in {"spawning", "spawned"}
    => a = b

OwnedLocals ==
  \A id \in owned \cap LocalIds :
    id \in joinable \/ \E a \in Actors : call[a].step \in LocalClaims /\ call[a].target = id

LocalsAreTracked == NamesOfLocals /\ CallsOnLocals /\ OneCallPerLocal /\ OwnedLocals

(* A native handle that is not given out twice has at each time one call   *)
(* that creates it, is about to hand it to the host or puts it back.       *)
Settled == {"detached", "released"}

Holds(c) ==
  \/ c.step \in NativeClaims \cup {"created", "created_detached"}
  \/ c.step = "joined_native" /\ c.code = "EDEADLK"

SettledResult(c) ==
  c.step \in {"joined_native", "detached_native"} /\ c.code \in {"0", "EINVAL"}

HandlesHaveOneHolder ==
  ~program.reuse =>
    /\ \A a, b \in Actors :
         Holds(call[a]) /\ Holds(call[b]) /\ call[a].target = call[b].target => a = b
    /\ \A a \in Actors : Holds(call[a]) =>
         host[call[a].target] # "fresh" /\ call[a].target \notin native_joinable
    /\ \A h \in native_joinable : host[h] # "fresh"
    /\ \A h \in ND : host[h] \in Settled
    /\ \A a \in Actors : SettledResult(call[a]) => host[call[a].target] \in Settled

(* Where a thread consumes only what it owns, calls that consume meet on no *)
(* target.                                                                  *)
Consumes(c) ==
  c.step \in LocalClaims \cup NativeClaims
               \cup {"joined_native", "detached_native", "unknown"}

ConsumersApart ==
  program.discipline \in {"serial", "owner"} =>
    \A a, b \in Actors :
      Consumes(call[a]) /\ Consumes(call[b]) /\ call[a].target = call[b].target => a = b

(* What a lookup that misses a local id knows of it, and will still be so  *)
(* when the id is marked consumed, unless a program names what no create   *)
(* returned.                                                               *)
MissedAreTaken ==
  program.discipline # "any" =>
    /\ \A a \in Actors :
         call[a].step = "unknown" /\ call[a].target \in LocalIds
           => call[a].target \in published \ joinable
    /\ NC \cap LocalIds \subseteq published \ joinable

(* In a serial program each call has a target of its own, a native thread  *)
(* that is owned can be joined at the host, and calls on it come back with *)
(* what consumes or restores it.                                           *)
SerialApart ==
  \A a, b \in Actors :
    /\ call[a].step # "idle" /\ call[b].step # "idle"
    /\ call[a].target = call[b].target
    => a = b

SerialResults ==
  \A a \in Actors :
    LET c == call[a]
    IN /\ c.step # "unknown"
       /\ c.step \in NativeClaims => c.target \in owned
       /\ c.step = "joined_native" =>
            \/ c.code = "0" /\ c.target \notin owned
            \/ c.code = "EDEADLK" /\ c.target \in owned
       /\ c.step = "detached_native" => c.code = "0" /\ c.target \notin owned
       /\ c.step = "created" => c.target \notin owned /\ host[c.target] \in {"running", "exited"}

Returning(h) ==
  \E a \in Actors :
    /\ call[a].target = h
    /\ call[a].step \in NativeClaims \/ call[a].code = "EDEADLK"

SerialOwned ==
  \A h \in owned \cap Handles :
    /\ host[h] \in {"running", "exited"} /\ h \notin ND \cup NC
    /\ h \in native_joinable \/ Returning(h)

SerialCalls ==
  program.discipline = "serial" => SerialApart /\ SerialResults /\ SerialOwned

---------------------------------------------------------------------------
(* What the steps do, in the terms of the invariant.                       *)

LEMMA CallFacts ==
  ASSUME RegShape, NEW a \in Actors
  PROVE  /\ call[a] \in CallRecords
         /\ call[a].step \in {"spawning", "spawned"} \cup LocalClaims => call[a].target \in LocalIds
         /\ call[a].step \in {"created", "created_detached", "joined_native", "detached_native"}
                               \cup NativeClaims
              => call[a].target \in Handles
         /\ call[a].step = "unknown" => call[a].target \in Targets
         /\ call[a].step # "idle" => call[a].target \in Targets
         /\ call[a].step = "idle" => call[a] = Idle
         /\ call[a].step \notin {"joined_native", "detached_native"} => call[a].code = "0"
         /\ call[a].step = "joined_native" =>
              call[a].code \in {"0", "EDEADLK", "EINVAL", "ESRCH"}
         /\ call[a].step = "detached_native" => call[a].code \in {"0", "EINVAL", "ESRCH"}
<1>1. call[a] \in CallRecords
  BY DEF RegShape
<1> QED
  BY <1>1 DEF CallRecords, Idle, LocalClaims, NativeClaims, Targets

LEMMA RecordFacts ==
  /\ Idle \in CallRecords /\ Idle.step = "idle" /\ Idle.target = NoTarget /\ Idle.code = "0"
  /\ \A s \in {"spawning", "spawned", "join_local", "detach_local"}, id \in LocalIds :
       [step |-> s, target |-> id, code |-> "0"] \in CallRecords
  /\ \A s \in {"created", "created_detached", "join_native", "detach_native"}, h \in Handles :
       [step |-> s, target |-> h, code |-> "0"] \in CallRecords
  /\ \A h \in Handles, c \in {"0", "EDEADLK", "EINVAL", "ESRCH"} :
       [step |-> "joined_native", target |-> h, code |-> c] \in CallRecords
  /\ \A h \in Handles, c \in {"0", "EINVAL", "ESRCH"} :
       [step |-> "detached_native", target |-> h, code |-> c] \in CallRecords
  /\ \A t \in Targets : [step |-> "unknown", target |-> t, code |-> "0"] \in CallRecords
BY DEF CallRecords, Idle, LocalClaims, NativeClaims

LEMMA ProceedFacts ==
  ASSUME RegShape, NEW a \in Actors, NEW s, NEW t,
         [step |-> s, target |-> t, code |-> "0"] \in CallRecords, Proceed(a, s, t)
  PROVE  call' \in [Actors -> CallRecords] /\ reply' \in Replies
<1>1. NoReply \in Replies
  BY DEF NoReply, Replies, RegCodes
<1> QED
  BY <1>1 DEF Proceed, RegShape

LEMMA ReturnFacts ==
  ASSUME RegShape, NEW a \in Actors, NEW t \in Targets, NEW c \in RegCodes, Return(a, t, c)
  PROVE  call' \in [Actors -> CallRecords] /\ reply' \in Replies
<1>1. [by |-> a, target |-> t, code |-> c] \in Replies
  BY DEF Replies
<1> QED
  BY <1>1, RecordFacts DEF Return, RegShape

(* How a mark moves a handle between the three sets.                       *)
LEMMA MarkFacts ==
  ASSUME RegShape, NEW x
  PROVE  /\ x \in Targets /\ MarkNativeConsumed(x) =>
              /\ native_joinable' = native_joinable \ {x}
              /\ native_detached' \in Cache /\ native_consumed' \in Cache
              /\ ND' = ND \ {x} /\ NC' \subseteq NC \cup {x}
         /\ x \in Targets /\ MarkNativeDetached(x) =>
              /\ native_joinable' = native_joinable \ {x}
              /\ native_detached' \in Cache /\ native_consumed' \in Cache
              /\ NC' = NC \ {x} /\ ND' \subseteq ND \cup {x}
         /\ RestoreNativeJoinable(x) =>
              /\ native_joinable' = IF x \in ND THEN native_joinable ELSE native_joinable \cup {x}
              /\ native_detached' \in Cache /\ native_consumed' \in Cache
              /\ ND' = ND /\ NC' = NC
<1> USE DEF RegShape
<1>1. x \in Targets /\ MarkNativeConsumed(x) =>
              /\ native_joinable' = native_joinable \ {x}
              /\ native_detached' \in Cache /\ native_consumed' \in Cache
              /\ ND' = ND \ {x} /\ NC' \subseteq NC \cup {x}
  BY ForgetFacts, RememberFacts DEF MarkNativeConsumed, ND, NC
<1>2. x \in Targets /\ MarkNativeDetached(x) =>
              /\ native_joinable' = native_joinable \ {x}
              /\ native_detached' \in Cache /\ native_consumed' \in Cache
              /\ NC' = NC \ {x} /\ ND' \subseteq ND \cup {x}
  BY ForgetFacts, RememberFacts DEF MarkNativeDetached, ND, NC
<1>3. RestoreNativeJoinable(x) =>
              /\ native_joinable' = IF x \in ND THEN native_joinable ELSE native_joinable \cup {x}
              /\ native_detached' \in Cache /\ native_consumed' \in Cache
              /\ ND' = ND /\ NC' = NC
  BY DEF RestoreNativeJoinable, ND, NC
<1> QED
  BY <1>1, <1>2, <1>3

(* The outcomes of the first critical section of a join or a detach.       *)
Refused(a, t, c) ==
  /\ c \in {"EDEADLK", "EINVAL", "ESRCH"}
  /\ c = "EDEADLK" => a = t
  /\ c = "EINVAL" => t \in detached \cup ND
  /\ c = "ESRCH" => t \in NC
  /\ Refuse(a, t, c)

TakenLocal(a, t, s) ==
  /\ s \in LocalClaims /\ t \in joinable
  /\ joinable' = joinable \ {t} /\ finished' = finished \ {t}
  /\ detached' = IF s = "detach_local" /\ t \notin finished THEN detached \cup {t} ELSE detached
  /\ Proceed(a, s, t)
  /\ UNCHANGED <<next_id, local_pending, nativeVars>>

TakenNative(a, t, s) ==
  /\ s \in NativeClaims
  /\ t \in native_joinable \ (joinable \cup detached \cup ND \cup NC)
  /\ TakeNative(a, t, s)

Missed(a, t) ==
  /\ t \notin joinable \cup detached \cup native_joinable \cup ND \cup NC
  /\ FindNothing(a, t)

LEMMA LookUpOutcomes ==
  ASSUME NEW a, NEW t, Join(a, t) \/ Detach(a, t)
  PROVE  /\ MayCall(a) /\ MayName(t) /\ UNCHANGED <<osVars, clientVars>>
         /\ \/ \E c : Refused(a, t, c)
            \/ \E s : TakenLocal(a, t, s) \/ TakenNative(a, t, s)
            \/ Missed(a, t)
<1>1. CASE Join(a, t)
  <2>1. MayCall(a) /\ MayName(t) /\ UNCHANGED <<osVars, clientVars>>
    BY <1>1 DEF Join
  <2>2. CASE a \in LocalIds /\ a = t /\ Refuse(a, t, "EDEADLK")
    BY <2>1, <2>2 DEF Refused
  <2>3. CASE t \in detached /\ Refuse(a, t, "EINVAL")
    BY <2>1, <2>3 DEF Refused
  <2>4. CASE t \notin detached /\ t \in NC /\ Refuse(a, t, "ESRCH")
    BY <2>1, <2>4 DEF Refused
  <2>5. CASE t \in ND /\ Refuse(a, t, "EINVAL")
    BY <2>1, <2>5 DEF Refused
  <2>6. CASE /\ t \in joinable /\ joinable' = joinable \ {t} /\ finished' = finished \ {t}
             /\ Proceed(a, "join_local", t)
             /\ UNCHANGED <<next_id, local_pending, detached, nativeVars>>
    <3>1. TakenLocal(a, t, "join_local")
      BY <2>6 DEF TakenLocal, LocalClaims
    <3> QED
      BY <2>1, <3>1
  <2>7. CASE /\ t \in native_joinable \ (joinable \cup detached \cup ND \cup NC)
             /\ TakeNative(a, t, "join_native")
    <3>1. TakenNative(a, t, "join_native")
      BY <2>7 DEF TakenNative, NativeClaims
    <3> QED
      BY <2>1, <3>1
  <2>8. CASE /\ t \notin joinable \cup detached \cup native_joinable \cup ND \cup NC
             /\ FindNothing(a, t)
    BY <2>1, <2>8 DEF Missed
  <2> QED
    BY <1>1, <2>2, <2>3, <2>4, <2>5, <2>6, <2>7, <2>8 DEF Join, LookUp, ND, NC
<1>2. CASE Detach(a, t)
  <2>1. MayCall(a) /\ MayName(t) /\ UNCHANGED <<osVars, clientVars>>
    BY <1>2 DEF Detach
  <2>3. CASE t \in detached /\ Refuse(a, t, "EINVAL")
    BY <2>1, <2>3 DEF Refused
  <2>4. CASE t \notin detached /\ t \in NC /\ Refuse(a, t, "ESRCH")
    BY <2>1, <2>4 DEF Refused
  <2>5. CASE t \in ND /\ Refuse(a, t, "EINVAL")
    BY <2>1, <2>5 DEF Refused
  <2>6. CASE /\ t \in joinable /\ joinable' = joinable \ {t} /\ finished' = finished \ {t}
             /\ detached' = IF t \in finished THEN detached ELSE detached \cup {t}
             /\ Proceed(a, "detach_local", t)
             /\ UNCHANGED <<next_id, local_pending, nativeVars>>
    <3>1. TakenLocal(a, t, "detach_local")
      BY <2>6 DEF TakenLocal, LocalClaims
    <3> QED
      BY <2>1, <3>1
  <2>7. CASE /\ t \in native_joinable \ (joinable \cup detached \cup ND \cup NC)
             /\ TakeNative(a, t, "detach_native")
    <3>1. TakenNative(a, t, "detach_native")
      BY <2>7 DEF TakenNative, NativeClaims
    <3> QED
      BY <2>1, <3>1
  <2>8. CASE /\ t \notin joinable \cup detached \cup native_joinable \cup ND \cup NC
             /\ FindNothing(a, t)
    BY <2>1, <2>8 DEF Missed
  <2> QED
    BY <1>2, <2>3, <2>4, <2>5, <2>6, <2>7, <2>8 DEF Detach, LookUp, ND, NC
<1> QED
  BY <1>1, <1>2

---------------------------------------------------------------------------
(* Types and caches.                                                       *)

LEMMA CreateShape ==
  ASSUME RegShape, NEW a \in Actors,
         \/ AllocateThreadId(a) \/ SpawnThread(a) \/ PublishLocal(a)
         \/ HostCreate(a) \/ PublishNative(a)
  PROVE  RegShape'
<1> USE CallFacts, RegNamesAssumption DEF osVars, clientVars, localVars, nativeVars, ND, NC
<1>1. CASE AllocateThreadId(a)
  <2>1. PICK id \in next_id..MaxLocal :
          /\ next_id' = id + 1 /\ local_pending' = local_pending \cup {id}
          /\ Proceed(a, "spawning", id)
    BY <1>1 DEF AllocateThreadId
  <2>2. id \in LocalIds /\ id + 1 \in 1..(MaxLocal + 1)
    BY <2>1 DEF RegShape, LocalIds
  <2>3. call' \in [Actors -> CallRecords] /\ reply' \in Replies
    BY <2>1, <2>2, ProceedFacts, RecordFacts
  <2> QED
    BY <1>1, <2>1, <2>2, <2>3 DEF AllocateThreadId, RegShape
<1>2. CASE SpawnThread(a)
  <2> DEFINE id == call[a].target
  <2>1. id \in LocalIds /\ id \in Targets
    BY <1>2 DEF SpawnThread, Targets
  <2>2. call' \in [Actors -> CallRecords] /\ reply' \in Replies
    BY <1>2, <2>1, ProceedFacts, ReturnFacts, RecordFacts DEF SpawnThread, RegCodes
  <2> QED
    BY <1>2, <2>1, <2>2 DEF SpawnThread, RegShape
<1>3. CASE PublishLocal(a)
  <2>1. call[a].target \in LocalIds /\ call[a].target \in Targets
    BY <1>3 DEF PublishLocal, Targets
  <2>2. call' \in [Actors -> CallRecords] /\ reply' \in Replies
    BY <1>3, <2>1, ReturnFacts DEF PublishLocal, RegCodes
  <2> QED
    BY <1>3, <2>1, <2>2 DEF PublishLocal, RegShape
<1>4. CASE HostCreate(a)
  <2>1. PICK h \in Handles, s \in {"created", "created_detached"} :
          /\ host' = [host EXCEPT ![h] = IF s = "created" THEN "running" ELSE "detached"]
          /\ Proceed(a, s, h)
    BY <1>4 DEF HostCreate
  <2>2. call' \in [Actors -> CallRecords] /\ reply' \in Replies
    BY <2>1, ProceedFacts, RecordFacts
  <2> QED
    BY <1>4, <2>1, <2>2 DEF HostCreate, RegShape
<1>5. CASE PublishNative(a)
  <2> DEFINE h == call[a].target
  <2>1. h \in Handles /\ h \in Targets
    BY <1>5 DEF PublishNative, Targets
  <2>2. call' \in [Actors -> CallRecords] /\ reply' \in Replies
    BY <1>5, <2>1, ReturnFacts DEF PublishNative, RegCodes
  <2>3. /\ native_detached' \in Cache /\ native_consumed' \in Cache
        /\ ND' = ND \ {h} /\ NC' = NC \ {h}
    BY <1>5, ForgetFacts DEF PublishNative, RegShape
  <2> QED
    BY <1>5, <2>1, <2>2, <2>3 DEF PublishNative, RegShape
<1> QED
  BY <1>1, <1>2, <1>3, <1>4, <1>5

LEMMA ConsumeShape ==
  ASSUME RegShape, NEW a \in Actors, NEW t \in Targets, Join(a, t) \/ Detach(a, t)
  PROVE  RegShape'
<1> USE DEF osVars, clientVars, localVars, nativeVars
<1>1. UNCHANGED <<osVars, clientVars>>
      /\ \/ \E c : Refused(a, t, c)
         \/ \E s : TakenLocal(a, t, s) \/ TakenNative(a, t, s)
         \/ Missed(a, t)
  BY LookUpOutcomes
<1>2. ASSUME NEW c, Refused(a, t, c)
      PROVE  RegShape'
  <2>1. call' \in [Actors -> CallRecords] /\ reply' \in Replies
    BY <1>2, ReturnFacts DEF Refused, Refuse, RegCodes
  <2> QED
    BY <1>1, <1>2, <2>1 DEF Refused, Refuse, RegShape, ND, NC
<1>3. ASSUME NEW s, TakenLocal(a, t, s)
      PROVE  RegShape'
  <2>1. t \in LocalIds
    BY <1>3 DEF TakenLocal, RegShape
  <2>2. call' \in [Actors -> CallRecords] /\ reply' \in Replies
    BY <1>3, <2>1, ProceedFacts, RecordFacts DEF TakenLocal, LocalClaims
  <2> QED
    BY <1>1, <1>3, <2>1, <2>2 DEF TakenLocal, RegShape, ND, NC
<1>4. ASSUME NEW s, TakenNative(a, t, s)
      PROVE  RegShape'
  <2>1. t \in Handles
    BY <1>4 DEF TakenNative, RegShape
  <2>2. call' \in [Actors -> CallRecords] /\ reply' \in Replies
    BY <1>4, <2>1, ProceedFacts, RecordFacts DEF TakenNative, TakeNative, NativeClaims
  <2>3. native_detached' \in Cache /\ ND' = ND \ {t} /\ native_consumed' = native_consumed
        /\ NC' = NC
    BY <1>4, ForgetFacts DEF TakenNative, TakeNative, RegShape, ND, NC
  <2> QED
    BY <1>1, <1>4, <2>1, <2>2, <2>3 DEF TakenNative, TakeNative, RegShape
<1>5. CASE Missed(a, t)
  <2>1. call' \in [Actors -> CallRecords] /\ reply' \in Replies
    BY <1>5, ProceedFacts, RecordFacts DEF Missed, FindNothing
  <2> QED
    BY <1>1, <1>5, <2>1 DEF Missed, FindNothing, RegShape, ND, NC
<1> QED
  BY <1>1, <1>2, <1>3, <1>4, <1>5

LEMMA FinishShape ==
  ASSUME RegShape, NEW a \in Actors,
         \/ FinishLocal(a) \/ HostJoin(a) \/ HostDetach(a)
         \/ HandleJoinResult(a) \/ HandleDetachResult(a) \/ RefuseUnknown(a)
  PROVE  RegShape'
<1> USE CallFacts DEF osVars, clientVars, localVars, nativeVars
<1>1. CASE FinishLocal(a)
  <2>1. call[a].target \in Targets
    BY <1>1 DEF FinishLocal
  <2>2. call' \in [Actors -> CallRecords] /\ reply' \in Replies
    BY <1>1, <2>1, ReturnFacts DEF FinishLocal, RegCodes
  <2> QED
    BY <1>1, <2>2 DEF FinishLocal, RegShape, ND, NC
<1>2. ASSUME NEW s, NEW c, NEW state, HostAnswer(a, s, c, state),
             call[a].target \in Handles,
             [step |-> s, target |-> call[a].target, code |-> c] \in CallRecords,
             state \in {"fresh", "running", "exited", "detached", "released"}
      PROVE  RegShape'
  <2>1. NoReply \in Replies
    BY DEF NoReply, Replies, RegCodes
  <2> QED
    BY <1>2, <2>1 DEF HostAnswer, RegShape, ND, NC
<1>3. CASE HostJoin(a)
  <2>1. call[a].target \in Handles
        /\ host[call[a].target] \in {"fresh", "running", "exited", "detached", "released"}
    BY <1>3 DEF HostJoin, NativeClaims, RegShape
  <2>2. \E c \in {"0", "EDEADLK", "EINVAL", "ESRCH"},
           state \in {"fresh", "running", "exited", "detached", "released"} :
          HostAnswer(a, "joined_native", c, state)
    BY <1>3, <2>1 DEF HostJoin
  <2> QED
    BY <1>2, <2>1, <2>2, RecordFacts
<1>4. CASE HostDetach(a)
  <2>1. call[a].target \in Handles
        /\ host[call[a].target] \in {"fresh", "running", "exited", "detached", "released"}
    BY <1>4 DEF HostDetach, NativeClaims, RegShape
  <2>2. \E c \in {"0", "EINVAL", "ESRCH"},
           state \in {"fresh", "running", "exited", "detached", "released"} :
          HostAnswer(a, "detached_native", c, state)
    BY <1>4, <2>1 DEF HostDetach
  <2> QED
    BY <1>2, <2>1, <2>2, RecordFacts
<1>5. ASSUME NEW t \in Targets, NEW c \in RegCodes, Return(a, t, c),
             \/ t \in Handles /\ MarkNativeDetached(t)
             \/ MarkNativeConsumed(t)
             \/ t \in Handles /\ RestoreNativeJoinable(t),
             UNCHANGED <<localVars, osVars, clientVars>>
      PROVE  RegShape'
  <2>1. call' \in [Actors -> CallRecords] /\ reply' \in Replies
    BY <1>5, ReturnFacts
  <2>2. /\ native_joinable' \subseteq native_joinable \cup (Handles \cap {t})
        /\ native_detached' \in Cache /\ native_consumed' \in Cache
        /\ ND' \subseteq Handles /\ ND' \cap NC' = {}
    BY <1>5, MarkFacts DEF RegShape
  <2> QED
    BY <1>5, <2>1, <2>2 DEF RegShape
<1>6. CASE HandleJoinResult(a) \/ HandleDetachResult(a)
  <2>1. /\ call[a].target \in Handles /\ call[a].target \in Targets /\ call[a].code \in RegCodes
        /\ Return(a, call[a].target, call[a].code)
        /\ UNCHANGED <<localVars, osVars, clientVars>>
    BY <1>6 DEF HandleJoinResult, HandleDetachResult, RegCodes, Targets
  <2>2. \/ MarkNativeDetached(call[a].target) \/ MarkNativeConsumed(call[a].target)
        \/ RestoreNativeJoinable(call[a].target)
    BY <1>6 DEF HandleJoinResult, HandleDetachResult
  <2> QED
    BY <1>5, <2>1, <2>2
<1>7. CASE RefuseUnknown(a)
  <2>1. "ESRCH" \in RegCodes /\ call[a].target \in Targets
    BY <1>7 DEF RefuseUnknown, RegCodes
  <2> QED
    BY <1>5, <1>7, <2>1 DEF RefuseUnknown
<1> QED
  BY <1>1, <1>3, <1>4, <1>6, <1>7

LEMMA InitShape == Init => RegShape
<1> SUFFICES ASSUME Init
             PROVE  RegShape
  OBVIOUS
<1>1. <<>> \in Cache /\ ToSet(<<>>) = {}
  BY RegCacheAssumption DEF Cache, IsInjective, ToSet
<1>2. NoReply \in Replies
  BY DEF NoReply, Replies, RegCodes
<1> QED
  BY <1>1, <1>2, RecordFacts, RegNamesAssumption DEF Init, RegShape, ND, NC

LEMMA StepShape == RegShape /\ [Next]_vars => RegShape'
<1> SUFFICES ASSUME RegShape, [Next]_vars
             PROVE  RegShape'
  OBVIOUS
<1> USE DEF osVars, clientVars, localVars, nativeVars
<1>0. NoReply \in Replies
  BY DEF NoReply, Replies, RegCodes
<1>1. ASSUME NEW id \in LocalIds, LocalThreadExit(id)
      PROVE  RegShape'
  BY <1>0, <1>1 DEF LocalThreadExit, RegShape, ND, NC
<1>2. ASSUME NEW h \in Handles, HostThreadExit(h)
      PROVE  RegShape'
  BY <1>0, <1>2 DEF HostThreadExit, RegShape, ND, NC
<1>3. CASE UNCHANGED vars
  BY <1>3 DEF vars, RegShape, ND, NC
<1> QED
  BY <1>1, <1>2, <1>3, CreateShape, ConsumeShape, FinishShape DEF Next, Client, Progress


---------------------------------------------------------------------------
(* Local threads.                                                          *)

(* A step of a call on a native handle says nothing of local threads.      *)
LEMMA OtherStepsKeepLocals ==
  ASSUME RegShape, LocalsAreTracked, NEW a \in Actors, NEW rec,
         call' = [call EXCEPT ![a] = rec],
         call[a].step \notin LocalSteps, rec.step \notin LocalSteps,
         UNCHANGED <<localVars, thread>>,
         published \subseteq published', published' \subseteq published \cup Handles,
         owned' \subseteq owned \cup Handles
  PROVE  LocalsAreTracked'
<1> USE RegNamesAssumption DEF LocalsAreTracked, localVars, LocalSteps
<1>1. NamesOfLocals'
  BY DEF NamesOfLocals, RegistryTracksThreads
<1>2. /\ call'[a].step \notin LocalSteps
      /\ \A b \in Actors \ {a} : call'[b] = call[b]
      /\ \A b \in Actors : call'[b].step \in LocalSteps => call'[b] = call[b] /\ b # a
  BY DEF RegShape
<1>3. CallsOnLocals'
  BY <1>2 DEF CallsOnLocals
<1>4. OneCallPerLocal'
  BY <1>2 DEF OneCallPerLocal
<1>5. OwnedLocals'
  <2> SUFFICES ASSUME NEW id \in owned' \cap LocalIds, id \notin joinable
               PROVE  \E b \in Actors : call'[b].step \in LocalClaims /\ call'[b].target = id
    BY DEF OwnedLocals
  <2>1. id \in owned
    BY RegNamesAssumption
  <2>2. PICK b \in Actors : call[b].step \in LocalClaims /\ call[b].target = id
    BY <2>1 DEF OwnedLocals
  <2> QED
    BY <1>2, <2>2
<1> QED
  BY <1>1, <1>3, <1>4, <1>5

LEMMA AllocateKeepsLocals ==
  ASSUME RegShape, LocalsAreTracked, NEW a \in Actors, AllocateThreadId(a)
  PROVE  LocalsAreTracked'
<1> USE DEF LocalsAreTracked, osVars, clientVars, LocalClaims
<1>1. PICK id \in next_id..MaxLocal :
        /\ ~IdInUse(id) /\ next_id' = id + 1 /\ local_pending' = local_pending \cup {id}
        /\ Proceed(a, "spawning", id)
  BY DEF AllocateThreadId
<1>2. /\ UNCHANGED <<joinable, detached, finished, thread, published, owned>>
      /\ call[a].step = "idle"
  BY DEF AllocateThreadId, MayCall
<1>3. /\ id \in LocalIds /\ next_id \in Nat /\ id \in Nat /\ next_id <= id
      /\ \A other \in LocalIds : other \in Nat
  BY <1>1, RegNamesAssumption DEF RegShape, LocalIds
<1>4. id \notin joinable \cup local_pending \cup published \cup detached /\ thread[id] = "none"
  BY <1>1, <1>3 DEF NamesOfLocals, IdInUse
<1>5. /\ call'[a] = [step |-> "spawning", target |-> id, code |-> "0"]
      /\ \A b \in Actors \ {a} : call'[b] = call[b]
  BY <1>1 DEF Proceed, RegShape
<1>6. NamesOfLocals'
  <2>1. RegistryTracksThreads'
    BY <1>1, <1>2, <1>4 DEF NamesOfLocals, RegistryTracksThreads
  <2>2. \A other \in (joinable \cup local_pending)' : other < next_id'
    BY <1>1, <1>2, <1>3 DEF NamesOfLocals, RegShape
  <2>3. ASSUME NEW other \in published' \cap LocalIds
        PROVE  other < next_id' /\ other \notin local_pending'
    <3>1. other < next_id /\ other \notin local_pending /\ other \in Nat
      BY <1>2, <1>3 DEF NamesOfLocals
    <3>2. other # id
      BY <1>2, <1>4
    <3> QED
      BY <1>1, <1>3, <3>1, <3>2
  <2>4. ASSUME NEW other \in LocalIds, other >= next_id'
        PROVE  thread'[other] = "none"
    <3>1. other >= next_id
      BY <1>1, <1>3, <2>4
    <3> QED
      BY <1>2, <3>1 DEF NamesOfLocals
  <2> QED
    BY <1>2, <2>1, <2>2, <2>3, <2>4 DEF NamesOfLocals
<1>7. CallsOnLocals'
  BY <1>1, <1>2, <1>4, <1>5 DEF CallsOnLocals
<1>8. OneCallPerLocal'
  <2>1. \A b \in Actors \ {a} : call[b].step \in {"spawning", "spawned"} => call[b].target # id
    BY <1>4 DEF CallsOnLocals
  <2> QED
    BY <1>5, <2>1 DEF OneCallPerLocal
<1>9. OwnedLocals'
  BY <1>2, <1>5 DEF OwnedLocals
<1> QED
  BY <1>6, <1>7, <1>8, <1>9

LEMMA SpawnKeepsLocals ==
  ASSUME RegShape, LocalsAreTracked, NEW a \in Actors, SpawnThread(a)
  PROVE  LocalsAreTracked'
<1> USE DEF LocalsAreTracked, clientVars, LocalClaims
<1> DEFINE id == call[a].target
<1>1. /\ call[a].step = "spawning" /\ id \in LocalIds /\ id \in local_pending
      /\ thread[id] = "none" /\ id \notin joinable \cup published /\ id < next_id
      /\ UNCHANGED <<next_id, joinable, detached, finished, published, owned>>
  BY CallFacts DEF SpawnThread, CallsOnLocals, NamesOfLocals
<1>2. \A b \in Actors \ {a} :
        call[b].step \in {"spawning", "spawned"} => call[b].target # id
  BY <1>1 DEF OneCallPerLocal
<1>3. \A b \in Actors : call[b].step \in LocalClaims => call[b].target # id
  BY <1>1 DEF CallsOnLocals
<1>4. CASE /\ thread' = [thread EXCEPT ![id] = "running"]
           /\ Proceed(a, "spawned", id) /\ UNCHANGED local_pending
  <2>1. /\ call'[a] = [step |-> "spawned", target |-> id, code |-> "0"]
        /\ \A b \in Actors \ {a} : call'[b] = call[b]
    BY <1>4 DEF Proceed, RegShape
  <2>2. thread'[id] = "running" /\ \A other \in LocalIds \ {id} : thread'[other] = thread[other]
    BY <1>1, <1>4 DEF RegShape
  <2>3. RegistryTracksThreads'
    BY <1>1, <1>4, <2>2 DEF NamesOfLocals, RegistryTracksThreads, RegShape
  <2>4. NamesOfLocals'
    <3>1. \A other \in LocalIds : other >= next_id => other # id
      BY <1>1, RegNamesAssumption DEF RegShape, LocalIds
    <3> QED
      BY <1>1, <1>4, <2>2, <2>3, <3>1 DEF NamesOfLocals, RegShape
  <2>5. CallsOnLocals'
    <3>1. \A b \in Actors \ {a} : call[b].step \in LocalSteps => call[b].target \in LocalIds \ {id}
      BY <1>2, <1>3, CallFacts DEF LocalSteps
    <3> QED
      BY <1>1, <1>4, <2>1, <2>2, <3>1 DEF CallsOnLocals, LocalSteps
  <2>6. OneCallPerLocal'
    BY <1>2, <2>1 DEF OneCallPerLocal
  <2>7. OwnedLocals'
    BY <1>1, <2>1 DEF OwnedLocals
  <2> QED
    BY <2>4, <2>5, <2>6, <2>7
<1>5. CASE /\ local_pending' = local_pending \ {id} /\ Return(a, id, "EAGAIN")
           /\ UNCHANGED thread
  <2>1. call'[a] = Idle /\ Idle.step = "idle" /\ \A b \in Actors \ {a} : call'[b] = call[b]
    BY <1>5, RecordFacts DEF Return, RegShape
  <2>2. NamesOfLocals'
    BY <1>1, <1>5 DEF NamesOfLocals, RegistryTracksThreads
  <2>3. CallsOnLocals'
    BY <1>1, <1>2, <1>5, <2>1 DEF CallsOnLocals
  <2>4. OneCallPerLocal'
    BY <2>1 DEF OneCallPerLocal
  <2>5. OwnedLocals'
    BY <1>1, <2>1 DEF OwnedLocals
  <2> QED
    BY <2>2, <2>3, <2>4, <2>5
<1> QED
  BY <1>4, <1>5 DEF SpawnThread

LEMMA PublishKeepsLocals ==
  ASSUME RegShape, LocalsAreTracked, NEW a \in Actors, PublishLocal(a)
  PROVE  LocalsAreTracked'
<1> USE DEF LocalsAreTracked, osVars, LocalClaims
<1> DEFINE id == call[a].target
<1>1. /\ call[a].step = "spawned" /\ id \in LocalIds /\ id \in local_pending
      /\ thread[id] # "none" /\ id \notin joinable \cup published /\ id < next_id
      /\ UNCHANGED <<next_id, detached, finished, thread>>
      /\ joinable' = joinable \cup {id} /\ local_pending' = local_pending \ {id}
      /\ published' = published \cup {id} /\ owned' = owned \cup {id}
  BY CallFacts DEF PublishLocal, CallsOnLocals, NamesOfLocals
<1>2. call'[a] = Idle /\ Idle.step = "idle" /\ \A b \in Actors \ {a} : call'[b] = call[b]
  BY RecordFacts DEF PublishLocal, Return, RegShape
<1>3. \A b \in Actors \ {a} :
        call[b].step \in {"spawning", "spawned"} => call[b].target # id
  BY <1>1 DEF OneCallPerLocal
<1>4. NamesOfLocals'
  BY <1>1 DEF NamesOfLocals, RegistryTracksThreads
<1>5. CallsOnLocals'
  BY <1>1, <1>2, <1>3 DEF CallsOnLocals
<1>6. OneCallPerLocal'
  BY <1>2 DEF OneCallPerLocal
<1>7. OwnedLocals'
  BY <1>1, <1>2 DEF OwnedLocals
<1> QED
  BY <1>4, <1>5, <1>6, <1>7

LEMMA ExitKeepsLocals ==
  ASSUME RegShape, LocalsAreTracked, NEW id \in LocalIds, LocalThreadExit(id)
  PROVE  LocalsAreTracked'
<1> USE DEF LocalsAreTracked, clientVars
<1>1. /\ thread[id] = "running" /\ thread' = [thread EXCEPT ![id] = "exited"]
      /\ detached' = detached \ {id}
      /\ finished' = IF id \notin detached /\ id \in joinable \cup local_pending
                       THEN finished \cup {id} ELSE finished
      /\ UNCHANGED <<next_id, joinable, local_pending, call, published, owned>>
  BY DEF LocalThreadExit
<1>2. thread'[id] = "exited" /\ \A other \in LocalIds \ {id} : thread'[other] = thread[other]
  BY <1>1 DEF RegShape
<1>3. RegistryTracksThreads'
  <2>1. finished' = {other \in joinable' \cup local_pending' : thread'[other] = "exited"}
    BY <1>1, <1>2 DEF NamesOfLocals, RegistryTracksThreads, RegShape
  <2>2. \A other \in detached' :
          thread'[other] = "running" /\ other \notin joinable' \cup local_pending'
    BY <1>1, <1>2 DEF NamesOfLocals, RegistryTracksThreads, RegShape
  <2> QED
    BY <2>1, <2>2 DEF RegistryTracksThreads
<1>4. NamesOfLocals'
  BY <1>1, <1>2, <1>3 DEF NamesOfLocals, RegShape
<1>5. CallsOnLocals'
  BY <1>1, <1>2, CallFacts DEF CallsOnLocals, LocalClaims
<1>6. OneCallPerLocal' /\ OwnedLocals'
  BY <1>1 DEF OneCallPerLocal, OwnedLocals
<1> QED
  BY <1>4, <1>5, <1>6

LEMMA TakeKeepsLocals ==
  ASSUME RegShape, LocalsAreTracked, NEW a \in Actors, NEW t, NEW s,
         call[a].step = "idle", TakenLocal(a, t, s), UNCHANGED <<osVars, clientVars>>
  PROVE  LocalsAreTracked'
<1> USE DEF LocalsAreTracked, osVars, clientVars, LocalClaims
<1>1. /\ s \in LocalClaims /\ t \in joinable /\ t \in LocalIds /\ t \in published
      /\ thread[t] # "none"
      /\ joinable' = joinable \ {t} /\ finished' = finished \ {t}
      /\ detached' \subseteq detached \cup {t} /\ (t \in detached' => t \notin finished)
      /\ UNCHANGED <<next_id, local_pending, thread, published, owned>>
      /\ t \notin local_pending
  BY DEF TakenLocal, NamesOfLocals, RegShape, RegistryTracksThreads
<1>2. /\ call'[a] = [step |-> s, target |-> t, code |-> "0"]
      /\ \A b \in Actors \ {a} : call'[b] = call[b]
  BY DEF TakenLocal, Proceed, RegShape
<1>3. \A b \in Actors : call[b].step \in LocalClaims => call[b].target # t
  BY <1>1 DEF CallsOnLocals
<1>4. NamesOfLocals'
  <2>1. t \notin finished => thread[t] = "running"
    BY <1>1 DEF NamesOfLocals, RegistryTracksThreads, RegShape
  <2>2. RegistryTracksThreads'
    BY <1>1, <2>1 DEF NamesOfLocals, RegistryTracksThreads
  <2> QED
    BY <1>1, <2>2 DEF NamesOfLocals
<1>5. CallsOnLocals'
  BY <1>1, <1>2 DEF CallsOnLocals
<1>6. OneCallPerLocal'
  BY <1>1, <1>2, <1>3 DEF OneCallPerLocal
<1>7. OwnedLocals'
  BY <1>1, <1>2 DEF OwnedLocals
<1> QED
  BY <1>4, <1>5, <1>6, <1>7

LEMMA FinishKeepsLocals ==
  ASSUME RegShape, LocalsAreTracked, NEW a \in Actors, FinishLocal(a)
  PROVE  LocalsAreTracked'
<1> USE DEF LocalsAreTracked, osVars, localVars, LocalClaims
<1> DEFINE id == call[a].target
<1>1. /\ call[a].step \in LocalClaims /\ owned' = owned \ {id}
      /\ UNCHANGED <<localVars, thread, published>>
  BY DEF FinishLocal
<1>2. call'[a] = Idle /\ Idle.step = "idle" /\ \A b \in Actors \ {a} : call'[b] = call[b]
  BY RecordFacts DEF FinishLocal, Return, RegShape
<1>3. NamesOfLocals' /\ CallsOnLocals' /\ OneCallPerLocal'
  BY <1>1, <1>2 DEF NamesOfLocals, RegistryTracksThreads, CallsOnLocals, OneCallPerLocal
<1>4. OwnedLocals'
  BY <1>1, <1>2 DEF OwnedLocals
<1> QED
  BY <1>3, <1>4

LEMMA InitLocals == Init => LocalsAreTracked
BY RecordFacts
DEF Init, LocalsAreTracked, NamesOfLocals, RegistryTracksThreads, CallsOnLocals, OneCallPerLocal,
    OwnedLocals, LocalClaims

LEMMA StepLocals ==
  ASSUME RegShape, LocalsAreTracked, [Next]_vars
  PROVE  LocalsAreTracked'
<1> USE DEF osVars, clientVars, localVars, nativeVars, LocalSteps, LocalClaims
<1>1. ASSUME NEW a \in Actors, NEW t \in Targets, Join(a, t) \/ Detach(a, t)
      PROVE  LocalsAreTracked'
  <2>1. /\ call[a].step = "idle" /\ UNCHANGED <<osVars, clientVars>>
        /\ \/ \E c : Refused(a, t, c)
           \/ \E s : TakenLocal(a, t, s) \/ TakenNative(a, t, s)
           \/ Missed(a, t)
    BY <1>1, LookUpOutcomes DEF MayCall
  <2>2. ASSUME NEW c, Refused(a, t, c)
        PROVE  LocalsAreTracked'
    BY <2>1, <2>2, OtherStepsKeepLocals, RecordFacts DEF Refused, Refuse, Return
  <2>3. ASSUME NEW s, TakenNative(a, t, s)
        PROVE  LocalsAreTracked'
    <3>1. /\ call' = [call EXCEPT ![a] = [step |-> s, target |-> t, code |-> "0"]]
          /\ [step |-> s, target |-> t, code |-> "0"].step \notin LocalSteps
          /\ UNCHANGED localVars
      BY <2>3 DEF TakenNative, TakeNative, Proceed, NativeClaims
    <3> QED
      BY <2>1, <3>1, OtherStepsKeepLocals
  <2>4. CASE Missed(a, t)
    <3>1. /\ call' = [call EXCEPT ![a] = [step |-> "unknown", target |-> t, code |-> "0"]]
          /\ [step |-> "unknown", target |-> t, code |-> "0"].step \notin LocalSteps
          /\ UNCHANGED localVars
      BY <2>4 DEF Missed, FindNothing, Proceed
    <3> QED
      BY <2>1, <3>1, OtherStepsKeepLocals
  <2> QED
    BY <2>1, <2>2, <2>3, <2>4, TakeKeepsLocals
<1>2. ASSUME NEW a \in Actors, HostCreate(a)
      PROVE  LocalsAreTracked'
  <2>1. PICK h \in Handles, s \in {"created", "created_detached"} : Proceed(a, s, h)
    BY <1>2 DEF HostCreate
  <2>2. /\ call' = [call EXCEPT ![a] = [step |-> s, target |-> h, code |-> "0"]]
        /\ [step |-> s, target |-> h, code |-> "0"].step \notin LocalSteps
        /\ call[a].step = "idle" /\ UNCHANGED <<localVars, thread, clientVars>>
    BY <1>2, <2>1 DEF HostCreate, Proceed, MayCall
  <2> QED
    BY <2>2, OtherStepsKeepLocals
<1>3. ASSUME NEW a \in Actors, PublishNative(a)
      PROVE  LocalsAreTracked'
  <2>1. call[a].step \notin LocalSteps /\ call[a].target \in Handles
    BY <1>3, CallFacts DEF PublishNative
  <2> QED
    BY <1>3, <2>1, OtherStepsKeepLocals, RecordFacts DEF PublishNative, Return
<1>4. ASSUME NEW a \in Actors, HostJoin(a) \/ HostDetach(a)
      PROVE  LocalsAreTracked'
  <2>1. PICK s \in {"joined_native", "detached_native"} : \E c, state : HostAnswer(a, s, c, state)
    BY <1>4 DEF HostJoin, HostDetach
  <2> PICK c, state : HostAnswer(a, s, c, state)
    BY <2>1
  <2>2. /\ call' = [call EXCEPT ![a] = [step |-> s, target |-> call[a].target, code |-> c]]
        /\ [step |-> s, target |-> call[a].target, code |-> c].step \notin LocalSteps
        /\ call[a].step \notin LocalSteps
        /\ UNCHANGED <<localVars, thread, published>> /\ owned' \subseteq owned
    BY <1>4, <2>1 DEF HostJoin, HostDetach, HostAnswer
  <2> QED
    BY <2>2, OtherStepsKeepLocals
<1>5. ASSUME NEW a \in Actors,
             HandleJoinResult(a) \/ HandleDetachResult(a) \/ RefuseUnknown(a)
      PROVE  LocalsAreTracked'
  <2>1. /\ call' = [call EXCEPT ![a] = Idle] /\ call[a].step \notin LocalSteps
        /\ UNCHANGED <<localVars, osVars, clientVars>>
    BY <1>5 DEF HandleJoinResult, HandleDetachResult, RefuseUnknown, Return
  <2> QED
    BY <2>1, OtherStepsKeepLocals, RecordFacts
<1>6. ASSUME NEW h \in Handles, HostThreadExit(h)
      PROVE  LocalsAreTracked'
  BY <1>6
  DEF HostThreadExit, LocalsAreTracked, NamesOfLocals, RegistryTracksThreads, CallsOnLocals,
      OneCallPerLocal, OwnedLocals
<1>7. CASE UNCHANGED vars
  BY <1>7
  DEF vars, LocalsAreTracked, NamesOfLocals, RegistryTracksThreads, CallsOnLocals,
      OneCallPerLocal, OwnedLocals
<1> QED
  BY <1>1, <1>2, <1>3, <1>4, <1>5, <1>6, <1>7, AllocateKeepsLocals, SpawnKeepsLocals,
     PublishKeepsLocals, ExitKeepsLocals, FinishKeepsLocals
  DEF Next, Client, Progress


---------------------------------------------------------------------------
(* Native threads whose handles are not given out again.                   *)

(* The host's view of a handle never goes back.                            *)
HostAdvances ==
  \A h \in Handles : /\ host[h] # "fresh" => host'[h] # "fresh"
                     /\ host[h] \in Settled => host'[h] \in Settled

(* A call may take a handle nobody holds, and its end may give it back.    *)
LEMMA HolderStep ==
  ASSUME RegShape, RegShape', HandlesHaveOneHolder, NEW a \in Actors, NEW rec,
         call' = [call EXCEPT ![a] = rec], program' = program,
         ~program.reuse => HostAdvances,
         \A h \in native_joinable' \ native_joinable : h = call[a].target /\ Holds(call[a]),
         ~program.reuse => \A h \in ND' \ ND : host'[h] \in Settled,
         ~program.reuse /\ Holds(rec) =>
           /\ host'[rec.target] # "fresh" /\ rec.target \notin native_joinable'
           /\ \A b \in Actors \ {a} : Holds(call[b]) => call[b].target # rec.target,
         ~program.reuse /\ SettledResult(rec) => host'[rec.target] \in Settled
  PROVE  HandlesHaveOneHolder'
<1> SUFFICES ASSUME ~program.reuse
             PROVE  /\ \A b, c \in Actors :
                         Holds(call'[b]) /\ Holds(call'[c]) /\ call'[b].target = call'[c].target
                           => b = c
                    /\ \A b \in Actors : Holds(call'[b]) =>
                         host'[call'[b].target] # "fresh"
                           /\ call'[b].target \notin native_joinable'
                    /\ \A h \in native_joinable' : host'[h] # "fresh"
                    /\ \A h \in ND' : host'[h] \in Settled
                    /\ \A b \in Actors :
                         SettledResult(call'[b]) => host'[call'[b].target] \in Settled
  BY DEF HandlesHaveOneHolder, Holds, SettledResult
<1>0. call'[a] = rec /\ \A b \in Actors \ {a} : call'[b] = call[b]
  BY DEF RegShape
<1>1. \A b \in Actors : Holds(call[b]) \/ SettledResult(call[b]) => call[b].target \in Handles
  BY CallFacts DEF Holds, SettledResult
<1>2. \A b, c \in Actors :
        Holds(call'[b]) /\ Holds(call'[c]) /\ call'[b].target = call'[c].target => b = c
  BY <1>0 DEF HandlesHaveOneHolder
<1>3. ASSUME NEW b \in Actors, Holds(call'[b])
      PROVE  host'[call'[b].target] # "fresh" /\ call'[b].target \notin native_joinable'
  <2>1. CASE b = a
    BY <1>0, <1>3, <2>1
  <2>2. CASE b # a
    <3>1. Holds(call[b]) /\ call'[b] = call[b] /\ call[b].target \in Handles
      BY <1>0, <1>1, <1>3, <2>2
    <3> QED
      BY <2>2, <3>1 DEF HandlesHaveOneHolder, HostAdvances
  <2> QED
    BY <2>1, <2>2
<1>4. \A h \in native_joinable' : host'[h] # "fresh"
  <2>1. native_joinable \subseteq Handles
    BY DEF RegShape
  <2> QED
    BY <1>1, <2>1 DEF HandlesHaveOneHolder, HostAdvances
<1>5. \A h \in ND' : host'[h] \in Settled
  <2>1. ND \subseteq Handles
    BY DEF RegShape
  <2> QED
    BY <2>1 DEF HandlesHaveOneHolder, HostAdvances
<1>6. \A b \in Actors : SettledResult(call'[b]) => host'[call'[b].target] \in Settled
  BY <1>0, <1>1 DEF HandlesHaveOneHolder, HostAdvances
<1> QED
  BY <1>2, <1>3, <1>4, <1>5, <1>6

LEMMA StepHolders ==
  ASSUME RegShape, RegShape', HandlesHaveOneHolder, [Next]_vars
  PROVE  HandlesHaveOneHolder'
<1> USE DEF osVars, clientVars, localVars, nativeVars
<1>0. /\ ~Holds(Idle) /\ ~SettledResult(Idle)
      /\ UNCHANGED host => HostAdvances
      /\ UNCHANGED native_detached => ND' = ND
  BY DEF Holds, SettledResult, Idle, NativeClaims, HostAdvances, ND
<1>1. ASSUME NEW a \in Actors, NEW rec, call' = [call EXCEPT ![a] = rec],
             ~Holds(rec) /\ ~SettledResult(rec),
             native_joinable' \subseteq native_joinable, ND' \subseteq ND,
             UNCHANGED <<host, program>>
      PROVE  HandlesHaveOneHolder'
  BY <1>0, <1>1, HolderStep
<1>2. ASSUME NEW a \in Actors,
             AllocateThreadId(a) \/ SpawnThread(a) \/ PublishLocal(a) \/ FinishLocal(a)
      PROVE  HandlesHaveOneHolder'
  <2>1. /\ UNCHANGED <<native_joinable, native_detached, host, program>>
        /\ \/ call' = [call EXCEPT ![a] = Idle]
           \/ \E s \in {"spawning", "spawned"} : \E t :
                call' = [call EXCEPT ![a] = [step |-> s, target |-> t, code |-> "0"]]
    BY <1>2 DEF AllocateThreadId, SpawnThread, PublishLocal, FinishLocal, Proceed, Return
  <2>2. \A s \in {"spawning", "spawned"} : \A t :
          /\ ~Holds([step |-> s, target |-> t, code |-> "0"])
          /\ ~SettledResult([step |-> s, target |-> t, code |-> "0"])
    BY DEF Holds, SettledResult, NativeClaims
  <2> QED
    BY <1>0, <1>1, <2>1, <2>2
<1>3. ASSUME NEW a \in Actors, NEW t \in Targets, Join(a, t) \/ Detach(a, t)
      PROVE  HandlesHaveOneHolder'
  <2>1. /\ UNCHANGED <<osVars, clientVars>>
        /\ \/ \E c : Refused(a, t, c)
           \/ \E s : TakenLocal(a, t, s) \/ TakenNative(a, t, s)
           \/ Missed(a, t)
    BY <1>3, LookUpOutcomes
  <2>2. ASSUME NEW c, Refused(a, t, c)
        PROVE  HandlesHaveOneHolder'
    BY <1>0, <1>1, <2>1, <2>2 DEF Refused, Refuse, Return
  <2>3. ASSUME NEW s, TakenLocal(a, t, s)
        PROVE  HandlesHaveOneHolder'
    <3> DEFINE rec == [step |-> s, target |-> t, code |-> "0"]
    <3>1. ~Holds(rec) /\ ~SettledResult(rec)
      BY <2>3 DEF TakenLocal, Holds, SettledResult, LocalClaims, NativeClaims
    <3>2. call' = [call EXCEPT ![a] = rec] /\ UNCHANGED nativeVars
      BY <2>3 DEF TakenLocal, Proceed
    <3> HIDE DEF rec
    <3> QED
      BY <1>0, <1>1, <2>1, <3>1, <3>2
  <2>4. CASE Missed(a, t)
    <3> DEFINE rec == [step |-> "unknown", target |-> t, code |-> "0"]
    <3>1. ~Holds(rec) /\ ~SettledResult(rec)
      BY DEF Holds, SettledResult, NativeClaims
    <3>2. call' = [call EXCEPT ![a] = rec] /\ UNCHANGED nativeVars
      BY <2>4 DEF Missed, FindNothing, Proceed
    <3> HIDE DEF rec
    <3> QED
      BY <1>0, <1>1, <2>1, <3>1, <3>2
  <2>5. ASSUME NEW s, TakenNative(a, t, s)
        PROVE  HandlesHaveOneHolder'
    <3> DEFINE rec == [step |-> s, target |-> t, code |-> "0"]
    <3>1. ~SettledResult(rec) /\ rec.target = t
      BY <2>5 DEF TakenNative, SettledResult, NativeClaims
    <3>2. /\ call' = [call EXCEPT ![a] = rec] /\ t \in native_joinable
          /\ native_joinable' = native_joinable \ {t} /\ ND' \subseteq ND
      BY <2>5, ForgetFacts DEF TakenNative, TakeNative, Proceed, ND, RegShape
    <3>3. ~program.reuse => /\ host[t] # "fresh"
                            /\ \A b \in Actors : Holds(call[b]) => call[b].target # t
      BY <3>2 DEF HandlesHaveOneHolder
    <3> HIDE DEF rec
    <3> QED
      BY <1>0, <2>1, <3>1, <3>2, <3>3, HolderStep
  <2> QED
    BY <2>1, <2>2, <2>3, <2>4, <2>5
<1>4. ASSUME NEW a \in Actors, HostCreate(a)
      PROVE  HandlesHaveOneHolder'
  <2>1. PICK h \in Handles, s \in {"created", "created_detached"} :
          /\ host[h] = "fresh" \/ (program.reuse /\ host[h] = "released")
          /\ host' = [host EXCEPT ![h] = IF s = "created" THEN "running" ELSE "detached"]
          /\ Proceed(a, s, h)
    BY <1>4 DEF HostCreate
  <2> DEFINE rec == [step |-> s, target |-> h, code |-> "0"]
  <2>2. ~SettledResult(rec) /\ rec.target = h
    BY <2>1 DEF SettledResult
  <2>3. call' = [call EXCEPT ![a] = rec] /\ UNCHANGED <<nativeVars, program>> /\ ND' = ND
    BY <1>0, <1>4, <2>1 DEF HostCreate, Proceed
  <2> HIDE DEF rec
  <2>4. ASSUME ~program.reuse
        PROVE  /\ host'[h] # "fresh" /\ h \notin native_joinable /\ HostAdvances
               /\ \A b \in Actors : Holds(call[b]) => call[b].target # h
    BY <2>1, <2>4 DEF HandlesHaveOneHolder, HostAdvances, RegShape, Settled
  <2> QED
    BY <2>2, <2>3, <2>4, HolderStep
<1>5. ASSUME NEW a \in Actors, PublishNative(a)
      PROVE  HandlesHaveOneHolder'
  <2>1. /\ call' = [call EXCEPT ![a] = Idle] /\ Holds(call[a])
        /\ native_joinable' = native_joinable \cup {call[a].target}
        /\ ND' \subseteq ND /\ UNCHANGED <<host, program>>
    BY <1>5, ForgetFacts DEF PublishNative, Return, Holds, ND, RegShape
  <2> QED
    BY <1>0, <2>1, HolderStep
<1>6. ASSUME NEW a \in Actors, HostJoin(a) \/ HostDetach(a)
      PROVE  HandlesHaveOneHolder'
  <2> DEFINE h == call[a].target
  <2>1. PICK s \in {"joined_native", "detached_native"} : \E c, state :
          /\ HostAnswer(a, s, c, state)
          /\ state = host[h] \/ (host[h] = "exited" /\ state = "released")
               \/ (host[h] = "running" /\ state = "detached")
          /\ c \in {"0", "EINVAL"} => state \in Settled
          /\ c \in {"0", "EINVAL", "ESRCH", "EDEADLK"}
    BY <1>6 DEF HostJoin, HostDetach, Settled
  <2>2. PICK c, state :
          /\ HostAnswer(a, s, c, state)
          /\ state = host[h] \/ (host[h] = "exited" /\ state = "released")
               \/ (host[h] = "running" /\ state = "detached")
          /\ c \in {"0", "EINVAL"} => state \in Settled
          /\ c \in {"0", "EINVAL", "ESRCH", "EDEADLK"}
    BY <2>1
  <2> DEFINE rec == [step |-> s, target |-> h, code |-> c]
  <2>3. rec.target = h /\ (SettledResult(rec) => state \in Settled) /\ h \in Handles
        /\ Holds(call[a])
    BY <1>6, <2>2, CallFacts DEF SettledResult, HostJoin, HostDetach, Holds, NativeClaims
  <2>4. /\ call' = [call EXCEPT ![a] = rec] /\ host' = [host EXCEPT ![h] = state]
        /\ UNCHANGED <<nativeVars, program>> /\ ND' = ND
    BY <1>0, <2>2 DEF HostAnswer
  <2> HIDE DEF rec
  <2>5. host'[h] = state /\ HostAdvances
    BY <2>2, <2>3, <2>4 DEF RegShape, HostAdvances, Settled
  <2>6. ~program.reuse => /\ host[h] # "fresh" /\ h \notin native_joinable
                          /\ \A b \in Actors \ {a} : Holds(call[b]) => call[b].target # h
    BY <2>3 DEF HandlesHaveOneHolder
  <2>7. ~program.reuse => host'[h] # "fresh"
    BY <2>3, <2>5, <2>6 DEF HostAdvances
  <2> QED
    BY <2>3, <2>4, <2>5, <2>6, <2>7, HolderStep
<1>7. ASSUME NEW a \in Actors, HandleJoinResult(a) \/ HandleDetachResult(a)
      PROVE  HandlesHaveOneHolder'
  <2> DEFINE h == call[a].target
  <2>1. /\ h \in Targets /\ call' = [call EXCEPT ![a] = Idle] /\ UNCHANGED <<host, program>>
        /\ \/ MarkNativeConsumed(h)
           \/ MarkNativeDetached(h) /\ (h \in ND \/ SettledResult(call[a]))
           \/ RestoreNativeJoinable(h) /\ Holds(call[a])
    BY <1>7, CallFacts DEF HandleJoinResult, HandleDetachResult, Return, SettledResult, Holds, ND
  <2>2. CASE MarkNativeConsumed(h)
    <3>1. native_joinable' \subseteq native_joinable /\ ND' \subseteq ND
      BY <2>1, <2>2, MarkFacts
    <3> QED
      BY <1>0, <1>1, <2>1, <3>1
  <2>3. CASE MarkNativeDetached(h) /\ (h \in ND \/ SettledResult(call[a]))
    <3>1. native_joinable' \subseteq native_joinable /\ ND' \subseteq ND \cup {h}
      BY <2>1, <2>3, MarkFacts
    <3>2. ~program.reuse => host[h] \in Settled
      BY <2>3 DEF HandlesHaveOneHolder
    <3> QED
      BY <1>0, <2>1, <3>1, <3>2, HolderStep
  <2>4. CASE RestoreNativeJoinable(h) /\ Holds(call[a])
    <3>1. native_joinable' \subseteq native_joinable \cup {h} /\ ND' = ND
      BY <2>1, <2>4, MarkFacts
    <3> QED
      BY <1>0, <2>1, <2>4, <3>1, HolderStep
  <2> QED
    BY <2>1, <2>2, <2>3, <2>4
<1>8. ASSUME NEW a \in Actors, RefuseUnknown(a)
      PROVE  HandlesHaveOneHolder'
  <2>1. /\ call[a].target \in Targets /\ call' = [call EXCEPT ![a] = Idle]
        /\ UNCHANGED <<host, program>> /\ MarkNativeConsumed(call[a].target)
    BY <1>8, CallFacts DEF RefuseUnknown, Return
  <2>2. native_joinable' \subseteq native_joinable /\ ND' \subseteq ND
    BY <2>1, MarkFacts
  <2> QED
    BY <1>0, <1>1, <2>1, <2>2
<1>9. ASSUME NEW id \in LocalIds, LocalThreadExit(id)
      PROVE  HandlesHaveOneHolder'
  BY <1>9 DEF LocalThreadExit, HandlesHaveOneHolder, ND
<1>10. ASSUME NEW h \in Handles, HostThreadExit(h)
       PROVE  HandlesHaveOneHolder'
  <2>1. HostAdvances /\ UNCHANGED <<nativeVars, call, program>> /\ ND' = ND
    BY <1>0, <1>10 DEF HostThreadExit, HostAdvances, Settled, RegShape
  <2>2. /\ \A b \in Actors : Holds(call[b]) \/ SettledResult(call[b]) => call[b].target \in Handles
        /\ native_joinable \subseteq Handles /\ ND \subseteq Handles
    BY CallFacts DEF Holds, SettledResult, RegShape
  <2> QED
    BY <2>1, <2>2 DEF HandlesHaveOneHolder, HostAdvances
<1>11. CASE UNCHANGED vars
  BY <1>11 DEF vars, HandlesHaveOneHolder, ND
<1> QED
  BY <1>2, <1>3, <1>4, <1>5, <1>6, <1>7, <1>8, <1>9, <1>10, <1>11 DEF Next, Client, Progress


---------------------------------------------------------------------------
(* Calls that consume.                                                     *)

LEMMA StepConsumers ==
  ASSUME RegShape, RegShape', ConsumersApart, [Next]_vars
  PROVE  ConsumersApart'
<1> USE DEF osVars, clientVars, localVars, nativeVars
<1>0. ~Consumes(Idle)
  BY DEF Consumes, Idle, LocalClaims, NativeClaims
<1>1. ASSUME NEW a \in Actors, NEW rec, call' = [call EXCEPT ![a] = rec], program' = program,
             \/ ~Consumes(rec)
             \/ Consumes(call[a]) /\ rec.target = call[a].target
             \/ program.discipline \in {"serial", "owner"} =>
                  \A b \in Actors : call[b].target # rec.target
      PROVE  ConsumersApart'
  <2>1. call'[a] = rec /\ \A b \in Actors \ {a} : call'[b] = call[b]
    BY <1>1 DEF RegShape
  <2> QED
    BY <1>1, <2>1 DEF ConsumersApart
<1>2. ASSUME NEW a \in Actors,
             \/ AllocateThreadId(a) \/ SpawnThread(a) \/ PublishLocal(a) \/ FinishLocal(a)
             \/ HostCreate(a) \/ PublishNative(a)
             \/ HandleJoinResult(a) \/ HandleDetachResult(a) \/ RefuseUnknown(a)
      PROVE  ConsumersApart'
  <2>1. /\ UNCHANGED program
        /\ \/ call' = [call EXCEPT ![a] = Idle]
           \/ \E s \in {"spawning", "spawned", "created", "created_detached"} : \E t :
                call' = [call EXCEPT ![a] = [step |-> s, target |-> t, code |-> "0"]]
    BY <1>2
    DEF AllocateThreadId, SpawnThread, PublishLocal, FinishLocal, HostCreate, PublishNative,
        HandleJoinResult, HandleDetachResult, RefuseUnknown, Proceed, Return
  <2>2. \A s \in {"spawning", "spawned", "created", "created_detached"} : \A t :
          ~Consumes([step |-> s, target |-> t, code |-> "0"])
    BY DEF Consumes, LocalClaims, NativeClaims
  <2> QED
    BY <1>0, <1>1, <2>1, <2>2
<1>3. ASSUME NEW a \in Actors, NEW t \in Targets, Join(a, t) \/ Detach(a, t)
      PROVE  ConsumersApart'
  <2>1. /\ MayName(t) /\ UNCHANGED program
        /\ \/ call' = [call EXCEPT ![a] = Idle]
           \/ \E s : call' = [call EXCEPT ![a] = [step |-> s, target |-> t, code |-> "0"]]
    BY <1>3, LookUpOutcomes
    DEF Refused, Refuse, Return, TakenLocal, TakenNative, TakeNative, Missed, FindNothing, Proceed
  <2>2. program.discipline \in {"serial", "owner"} => \A b \in Actors : call[b].target # t
    BY <2>1 DEF MayName
  <2>3. \A s : [step |-> s, target |-> t, code |-> "0"].target = t
    OBVIOUS
  <2> QED
    BY <1>0, <1>1, <2>1, <2>2, <2>3
<1>4. ASSUME NEW a \in Actors, HostJoin(a) \/ HostDetach(a)
      PROVE  ConsumersApart'
  <2>1. PICK s \in {"joined_native", "detached_native"} : \E c, state : HostAnswer(a, s, c, state)
    BY <1>4 DEF HostJoin, HostDetach
  <2> PICK c, state : HostAnswer(a, s, c, state)
    BY <2>1
  <2> DEFINE rec == [step |-> s, target |-> call[a].target, code |-> c]
  <2>2. /\ call' = [call EXCEPT ![a] = rec] /\ UNCHANGED program
        /\ rec.target = call[a].target
    BY DEF HostAnswer
  <2>3. Consumes(call[a])
    BY <1>4 DEF HostJoin, HostDetach, Consumes, NativeClaims
  <2> HIDE DEF rec
  <2> QED
    BY <1>1, <2>2, <2>3
<1>5. CASE \/ \E id \in LocalIds : LocalThreadExit(id)
           \/ \E h \in Handles : HostThreadExit(h)
           \/ UNCHANGED vars
  BY <1>5 DEF LocalThreadExit, HostThreadExit, vars, ConsumersApart
<1> QED
  BY <1>2, <1>3, <1>4, <1>5 DEF Next, Client, Progress

LEMMA StepMissed ==
  ASSUME RegShape, RegShape', LocalsAreTracked, MissedAreTaken, [Next]_vars
  PROVE  MissedAreTaken'
<1> USE RegNamesAssumption DEF osVars, clientVars, localVars, nativeVars
<1>0. /\ Idle.step # "unknown"
      /\ UNCHANGED native_consumed => NC' = NC
  BY DEF Idle, NC
<1>1. ASSUME NEW a \in Actors, NEW rec, call' = [call EXCEPT ![a] = rec], program' = program,
             published \subseteq published',
             \A id \in joinable' \ joinable : id \notin published,
             program.discipline # "any" /\ rec.step = "unknown" /\ rec.target \in LocalIds =>
               rec.target \in published \ joinable,
             \/ NC' \subseteq NC \cup Handles
             \/ call[a].step = "unknown" /\ NC' \subseteq NC \cup {call[a].target}
      PROVE  MissedAreTaken'
  <2>1. call'[a] = rec /\ \A b \in Actors \ {a} : call'[b] = call[b]
    BY <1>1 DEF RegShape
  <2> SUFFICES ASSUME program.discipline # "any"
               PROVE  /\ \A b \in Actors :
                           call'[b].step = "unknown" /\ call'[b].target \in LocalIds
                             => call'[b].target \in published' \ joinable'
                      /\ NC' \cap LocalIds \subseteq published' \ joinable'
    BY <1>1 DEF MissedAreTaken
  <2>2. ASSUME NEW b \in Actors, call'[b].step = "unknown", call'[b].target \in LocalIds
        PROVE  call'[b].target \in published' \ joinable'
    BY <1>1, <2>1, <2>2 DEF MissedAreTaken
  <2>3. NC' \cap LocalIds \subseteq published' \ joinable'
    BY <1>1 DEF MissedAreTaken
  <2> QED
    BY <2>2, <2>3
<1>2. ASSUME NEW a \in Actors,
             \/ AllocateThreadId(a) \/ SpawnThread(a) \/ FinishLocal(a)
             \/ HostCreate(a) \/ HostJoin(a) \/ HostDetach(a)
      PROVE  MissedAreTaken'
  <2>1. /\ UNCHANGED <<program, published, joinable, native_consumed>>
        /\ \/ call' = [call EXCEPT ![a] = Idle]
           \/ \E s \in {"spawning", "spawned", "created", "created_detached", "joined_native",
                        "detached_native"} : \E t, c :
                call' = [call EXCEPT ![a] = [step |-> s, target |-> t, code |-> c]]
    <3>1. CASE AllocateThreadId(a) \/ SpawnThread(a)
      BY <3>1 DEF AllocateThreadId, SpawnThread, Proceed, Return
    <3>2. CASE FinishLocal(a)
      BY <3>2 DEF FinishLocal, Proceed, Return
    <3>3. CASE HostCreate(a)
      BY <3>3 DEF HostCreate, Proceed, Return
    <3>4. CASE HostJoin(a) \/ HostDetach(a)
      BY <3>4 DEF HostJoin, HostDetach, HostAnswer, Proceed, Return
    <3> QED
      BY <1>2, <3>1, <3>2, <3>3, <3>4
  <2>2. CASE call' = [call EXCEPT ![a] = Idle]
    BY <1>0, <1>1, <2>1, <2>2
  <2>3. ASSUME NEW s \in {"spawning", "spawned", "created", "created_detached", "joined_native",
                        "detached_native"}, NEW t, NEW c,
               call' = [call EXCEPT ![a] = [step |-> s, target |-> t, code |-> c]]
        PROVE  MissedAreTaken'
    <3>1. [step |-> s, target |-> t, code |-> c].step # "unknown"
      OBVIOUS
    <3> QED
      BY <1>0, <1>1, <2>1, <2>3, <3>1
  <2> QED
    BY <2>1, <2>2, <2>3
<1>3. ASSUME NEW a \in Actors, PublishLocal(a)
      PROVE  MissedAreTaken'
  <2>1. call[a].target \notin published
    BY <1>3, CallFacts DEF PublishLocal, LocalsAreTracked, CallsOnLocals, NamesOfLocals
  <2> QED
    BY <1>0, <1>1, <1>3, <2>1 DEF PublishLocal, Return
<1>4. ASSUME NEW a \in Actors, NEW t \in Targets, Join(a, t) \/ Detach(a, t)
      PROVE  MissedAreTaken'
  <2>1. /\ UNCHANGED <<program, published>> /\ joinable' \subseteq joinable
        /\ native_consumed' = native_consumed
        /\ \/ call' = [call EXCEPT ![a] = Idle]
           \/ \E s \in LocalClaims \cup NativeClaims :
                call' = [call EXCEPT ![a] = [step |-> s, target |-> t, code |-> "0"]]
           \/ /\ t \notin joinable
              /\ call' = [call EXCEPT ![a] = [step |-> "unknown", target |-> t, code |-> "0"]]
    BY <1>4, LookUpOutcomes
    DEF Refused, Refuse, Return, TakenLocal, TakenNative, TakeNative, Missed, FindNothing, Proceed
  <2>2. program.discipline # "any" => t \in published
    <3>1. MayName(t)
      BY <1>4, LookUpOutcomes
    <3>2. program.discipline \in {"serial", "owner", "published", "any"} /\ owned \subseteq published
      BY RegClientAssumption DEF RegShape
    <3> QED
      BY <3>1, <3>2 DEF MayName
  <2>3. CASE call' = [call EXCEPT ![a] = Idle]
    BY <1>0, <1>1, <2>1, <2>3
  <2>4. ASSUME NEW s \in LocalClaims \cup NativeClaims,
               call' = [call EXCEPT ![a] = [step |-> s, target |-> t, code |-> "0"]]
        PROVE  MissedAreTaken'
    <3>1. [step |-> s, target |-> t, code |-> "0"].step # "unknown"
      BY DEF LocalClaims, NativeClaims
    <3> QED
      BY <1>0, <1>1, <2>1, <2>4, <3>1
  <2>5. CASE /\ t \notin joinable
             /\ call' = [call EXCEPT ![a] = [step |-> "unknown", target |-> t, code |-> "0"]]
    <3>1. [step |-> "unknown", target |-> t, code |-> "0"].target = t
      OBVIOUS
    <3> QED
      BY <1>0, <1>1, <2>1, <2>2, <2>5, <3>1
  <2> QED
    BY <2>1, <2>3, <2>4, <2>5
<1>5. ASSUME NEW a \in Actors, PublishNative(a)
      PROVE  MissedAreTaken'
  <2>1. NC' \subseteq NC
    BY <1>5, ForgetFacts DEF PublishNative, NC, RegShape
  <2> QED
    BY <1>0, <1>1, <1>5, <2>1 DEF PublishNative, Return
<1>6. ASSUME NEW a \in Actors,
             HandleJoinResult(a) \/ HandleDetachResult(a) \/ RefuseUnknown(a)
      PROVE  MissedAreTaken'
  <2> DEFINE t == call[a].target
  <2>1. /\ t \in Targets /\ (call[a].step # "unknown" => t \in Handles)
        /\ call' = [call EXCEPT ![a] = Idle] /\ UNCHANGED <<program, published, joinable>>
        /\ MarkNativeConsumed(t) \/ MarkNativeDetached(t) \/ RestoreNativeJoinable(t)
    BY <1>6, CallFacts DEF HandleJoinResult, HandleDetachResult, RefuseUnknown, Return
  <2>2. NC' \subseteq NC \cup {t}
    BY <2>1, MarkFacts
  <2> HIDE DEF t
  <2>3. NC' \subseteq NC \cup Handles \/ call[a].step = "unknown"
    BY <2>1, <2>2
  <2> QED
    BY <1>0, <1>1, <2>1, <2>2, <2>3 DEF t
<1>7. CASE \/ \E id \in LocalIds : LocalThreadExit(id)
           \/ \E h \in Handles : HostThreadExit(h)
           \/ UNCHANGED vars
  BY <1>7 DEF LocalThreadExit, HostThreadExit, vars, MissedAreTaken, NC
<1> QED
  BY <1>2, <1>3, <1>4, <1>5, <1>6, <1>7 DEF Next, Client, Progress


---------------------------------------------------------------------------
(* Replies.                                                                *)

(* A local thread that is not listed as joinable has its consumer.         *)
LEMMA UnlistedHasConsumer ==
  ASSUME RegShape, LocalsAreTracked, NEW t \in LocalIds, t \notin joinable
  PROVE  t \notin owned \/ Claimed(t)
BY DEF LocalsAreTracked, OwnedLocals, Claimed, Claims, LocalClaims

LEMMA StepReplies ==
  ASSUME RegShape, RegShape', LocalsAreTracked, LocalsAreTracked', MissedAreTaken,
         program.discipline # "any", RepliesAreTruthful, [Next]_vars
  PROVE  RepliesAreTruthful'
<1> USE DEF osVars, clientVars, localVars, nativeVars
<1>0. NoTarget \notin LocalIds
  BY RegNamesAssumption DEF Targets
<1>1. CASE \/ reply' = NoReply
           \/ \E a \in Actors, c \in {"0", "EAGAIN"} : \E t : Return(a, t, c)
           \/ \E a \in Actors, t \in Handles : \E c : Return(a, t, c)
  BY <1>0, <1>1, RegNamesAssumption DEF RepliesAreTruthful, NoReply, Return
<1>2. ASSUME NEW t \in LocalIds, t \notin joinable'
      PROVE  (t \notin owned \/ Claimed(t))'
  <2>1. RegShape /\ LocalsAreTracked => \A id \in LocalIds : id \notin joinable =>
          id \notin owned \/ Claimed(id)
    BY UnlistedHasConsumer
  <2>2. (\E a \in Actors : call[a].step \in LocalClaims /\ call[a].target = t)' => Claimed(t)'
    BY DEF Claimed, Claims, LocalClaims
  <2>3. t \in owned' => (\E a \in Actors : call[a].step \in LocalClaims /\ call[a].target = t)'
    BY <1>2 DEF LocalsAreTracked, OwnedLocals
  <2> QED
    BY <2>2, <2>3
<1>3. ASSUME NEW a \in Actors, NEW t \in Targets, Join(a, t) \/ Detach(a, t)
      PROVE  RepliesAreTruthful'
  <2>1. UNCHANGED <<osVars, clientVars>>
        /\ \/ \E c : Refused(a, t, c)
           \/ \E s : Proceed(a, s, t)
    BY <1>3, LookUpOutcomes DEF TakenLocal, TakenNative, TakeNative, Missed, FindNothing
  <2>2. ASSUME NEW c, Refused(a, t, c), t \in LocalIds
        PROVE  RepliesAreTruthful'
    <3>1. /\ reply' = [by |-> a, target |-> t, code |-> c]
          /\ joinable' = joinable /\ thread' = thread
      BY <2>1, <2>2 DEF Refused, Refuse, Return
    <3>2. c = "EDEADLK" => a = t
      BY <2>2 DEF Refused
    <3>3. c = "EINVAL" => thread[t] = "running" /\ t \notin joinable
      <4>1. t \notin ND
        BY <2>2, RegNamesAssumption DEF RegShape
      <4> QED
        BY <2>2, <4>1 DEF Refused, LocalsAreTracked, NamesOfLocals, RegistryTracksThreads
    <3>4. c = "ESRCH" => t \notin joinable
      BY <2>2 DEF Refused, MissedAreTaken
    <3> QED
      BY <1>2, <2>2, <3>1, <3>2, <3>3, <3>4 DEF RepliesAreTruthful
  <2>3. ASSUME NEW c, Refused(a, t, c), t \notin LocalIds
        PROVE  RepliesAreTruthful'
    BY <2>3 DEF Refused, Refuse, Return, RepliesAreTruthful
  <2>4. ASSUME NEW s, Proceed(a, s, t)
        PROVE  RepliesAreTruthful'
    BY <1>1, <2>4 DEF Proceed
  <2> QED
    BY <2>1, <2>2, <2>3, <2>4
<1>4. ASSUME NEW a \in Actors, RefuseUnknown(a)
      PROVE  RepliesAreTruthful'
  <2> DEFINE t == call[a].target
  <2>1. /\ reply' = [by |-> a, target |-> t, code |-> "ESRCH"] /\ joinable' = joinable
        /\ call[a].step = "unknown"
    BY <1>4 DEF RefuseUnknown, Return
  <2>2. t \in LocalIds => t \notin joinable
    BY <2>1 DEF MissedAreTaken
  <2> HIDE DEF t
  <2> QED
    BY <1>2, <2>1, <2>2 DEF RepliesAreTruthful
<1>5. ASSUME NEW a \in Actors, FinishLocal(a) \/ PublishLocal(a) \/ SpawnThread(a)
      PROVE  RepliesAreTruthful'
  BY <1>1, <1>5 DEF FinishLocal, PublishLocal, SpawnThread, Return, Proceed
<1>6. ASSUME NEW a \in Actors, HandleJoinResult(a) \/ HandleDetachResult(a) \/ PublishNative(a)
      PROVE  RepliesAreTruthful'
  <2>1. call[a].target \in Handles /\ \E c : Return(a, call[a].target, c)
    BY <1>6, CallFacts DEF HandleJoinResult, HandleDetachResult, PublishNative
  <2> QED
    BY <1>1, <2>1
<1>7. ASSUME NEW a \in Actors, AllocateThreadId(a) \/ HostCreate(a) \/ HostJoin(a) \/ HostDetach(a)
      PROVE  RepliesAreTruthful'
  BY <1>1, <1>7 DEF AllocateThreadId, HostCreate, HostJoin, HostDetach, HostAnswer, Proceed
<1>8. CASE \/ \E id \in LocalIds : LocalThreadExit(id)
           \/ \E h \in Handles : HostThreadExit(h)
  BY <1>1, <1>8 DEF LocalThreadExit, HostThreadExit
<1>9. CASE UNCHANGED vars
  BY <1>9 DEF vars, RepliesAreTruthful, Claimed
<1> QED
  BY <1>3, <1>4, <1>5, <1>6, <1>7, <1>8, <1>9 DEF Next, Client, Progress

---------------------------------------------------------------------------
(* Serial programs.                                                        *)

(* A thread that is owned and that no call names is listed as joinable.    *)
LEMMA SerialListed ==
  ASSUME RegShape, LocalsAreTracked, SerialOwned, NEW t \in owned,
         \A a \in Actors : call[a].target # t
  PROVE  t \in joinable \cup native_joinable
BY DEF RegShape, LocalsAreTracked, OwnedLocals, SerialOwned, Returning, Targets

(* A step that changes nothing of the native handles.                      *)
LEMMA SerialOtherStep ==
  ASSUME RegShape, SerialApart, SerialResults, SerialOwned, NEW a \in Actors, NEW rec,
         call' = [call EXCEPT ![a] = rec],
         rec.step \in LocalSteps \cup {"idle"} /\ (rec.step # "idle" => rec.target \in LocalIds),
         rec.code = "0", call[a].step \notin NativeClaims, call[a].code = "0",
         rec.step # "idle" =>
           \A b \in Actors \ {a} : call[b].step # "idle" => call[b].target # rec.target,
         owned' \cap Handles = owned \cap Handles,
         UNCHANGED <<native_joinable, native_detached, native_consumed, host>>
  PROVE  SerialApart' /\ SerialResults' /\ SerialOwned'
<1> USE RegNamesAssumption DEF LocalSteps, LocalClaims, NativeClaims
<1>1. call'[a] = rec /\ \A b \in Actors \ {a} : call'[b] = call[b]
  BY DEF RegShape
<1>2. SerialApart'
  BY <1>1 DEF SerialApart
<1>3. SerialResults'
  <2>1. ASSUME NEW b \in Actors \ {a}, call[b].step \in NativeClaims
                 \cup {"joined_native", "detached_native", "created"}
        PROVE  call[b].target \in Handles
    BY <2>1, CallFacts
  <2> QED
    BY <1>1, <2>1 DEF SerialResults
<1>4. SerialOwned'
  <2>1. \A h : Returning(h) => Returning(h)'
    BY <1>1 DEF Returning
  <2>2. ND' = ND /\ NC' = NC
    BY DEF ND, NC
  <2> QED
    BY <2>1, <2>2 DEF SerialOwned
<1> QED
  BY <1>2, <1>3, <1>4

(* Nothing changes at other handles, and the call fits what is true of its *)
(* handle after the step.                                                  *)
OnlyAt(h) ==
  \A g \in Handles \ {h} :
    /\ g \in owned' <=> g \in owned
    /\ host'[g] = host[g]
    /\ g \in native_joinable => g \in native_joinable'
    /\ g \in ND' \cup NC' => g \in ND \cup NC

FitsAt(h, rec) ==
  /\ rec.step \notin LocalSteps \cup {"unknown"}
  /\ rec = Idle \/ rec.target = h
  /\ rec.step \in NativeClaims => h \in owned'
  /\ rec.step = "joined_native" =>
       (rec.code = "0" /\ h \notin owned') \/ (rec.code = "EDEADLK" /\ h \in owned')
  /\ rec.step = "detached_native" => rec.code = "0" /\ h \notin owned'
  /\ rec.step = "created" => h \notin owned' /\ host'[h] \in {"running", "exited"}
  /\ h \in owned' =>
       /\ host'[h] \in {"running", "exited"} /\ h \notin ND' \cup NC'
       /\ \/ h \in native_joinable'
          \/ rec.target = h /\ (rec.step \in NativeClaims \/ rec.code = "EDEADLK")

(* A step that changes the registry, the host and the client's threads at  *)
(* one native handle only, which no other call names.                      *)
LEMMA SerialHandleStep ==
  ASSUME RegShape, SerialApart, SerialResults, SerialOwned,
         NEW a \in Actors, NEW h \in Handles, NEW rec,
         call' = [call EXCEPT ![a] = rec],
         call[a].step # "idle" => call[a].target = h,
         \A b \in Actors \ {a} : call[b].step # "idle" => call[b].target # h,
         OnlyAt(h), FitsAt(h, rec)
  PROVE  SerialApart' /\ SerialResults' /\ SerialOwned'
<1> USE RegNamesAssumption, RecordFacts DEF OnlyAt, FitsAt
<1>1. call'[a] = rec /\ \A b \in Actors \ {a} : call'[b] = call[b]
  BY DEF RegShape
<1>2. rec.step # "idle" => rec.target = h
  OBVIOUS
<1>3. SerialApart'
  BY <1>1, <1>2 DEF SerialApart
<1>4. SerialResults'
  <2>1. ASSUME NEW b \in Actors \ {a}
        PROVE  LET c == call'[b]
               IN /\ c.step # "unknown"
                  /\ c.step \in NativeClaims => c.target \in owned'
                  /\ c.step = "joined_native" =>
                       \/ c.code = "0" /\ c.target \notin owned'
                       \/ c.code = "EDEADLK" /\ c.target \in owned'
                  /\ c.step = "detached_native" => c.code = "0" /\ c.target \notin owned'
                  /\ c.step = "created" => c.target \notin owned' /\ host'[c.target] \in {"running", "exited"}
    <3>1. CASE call[b].step \in NativeClaims \cup {"joined_native", "detached_native", "created"}
      <4>1. call[b].target \in Handles \ {h}
        BY <3>1, CallFacts DEF NativeClaims
      <4> QED
        BY <1>1, <4>1 DEF SerialResults
    <3>2. CASE call[b].step \notin NativeClaims \cup {"joined_native", "detached_native", "created"}
      BY <1>1, <3>2 DEF SerialResults
    <3> QED
      BY <3>1, <3>2
  <2>2. /\ rec.step # "unknown"
        /\ rec.step \in NativeClaims => rec.target \in owned'
        /\ rec.step = "joined_native" =>
             \/ rec.code = "0" /\ rec.target \notin owned'
             \/ rec.code = "EDEADLK" /\ rec.target \in owned'
        /\ rec.step = "detached_native" => rec.code = "0" /\ rec.target \notin owned'
        /\ rec.step = "created" => rec.target \notin owned' /\ host'[rec.target] \in {"running", "exited"}
    BY <1>2 DEF NativeClaims
  <2> QED
    BY <1>1, <2>1, <2>2 DEF SerialResults
<1>5. SerialOwned'
  <2>1. ASSUME NEW g \in (owned' \cap Handles) \ {h}
        PROVE  /\ host'[g] \in {"running", "exited"} /\ g \notin ND' \cup NC'
               /\ g \in native_joinable' \/ Returning(g)'
    <3>1. Returning(g) => Returning(g)'
      <4>1. call[a].target = g => call[a].step = "idle"
        BY <2>1
      <4>2. call[a].step = "idle" => call[a].code = "0" /\ call[a].step \notin NativeClaims
        BY CallFacts DEF NativeClaims
      <4> QED
        BY <1>1, <4>1, <4>2 DEF Returning
    <3> QED
      BY <2>1, <3>1 DEF SerialOwned
  <2>2. rec.target = h /\ (rec.step \in NativeClaims \/ rec.code = "EDEADLK") => Returning(h)'
    BY <1>1 DEF Returning
  <2> QED
    BY <2>1, <2>2 DEF SerialOwned
<1> QED
  BY <1>3, <1>4, <1>5

(* The same for a call that returns.                                       *)
LEMMA SerialReturnStep ==
  ASSUME RegShape, SerialApart, SerialResults, SerialOwned,
         NEW a \in Actors, NEW h \in Handles,
         call' = [call EXCEPT ![a] = Idle],
         call[a].step # "idle", call[a].target = h, OnlyAt(h),
         h \in owned' =>
           /\ host'[h] \in {"running", "exited"} /\ h \notin ND' \cup NC'
           /\ h \in native_joinable'
  PROVE  SerialApart' /\ SerialResults' /\ SerialOwned'
<1>1. FitsAt(h, Idle)
  BY RecordFacts DEF FitsAt, LocalSteps, LocalClaims, NativeClaims
<1>2. \A b \in Actors \ {a} : call[b].step # "idle" => call[b].target # h
  BY DEF SerialApart
<1> QED
  BY ONLY <1>1, <1>2, RegShape, SerialApart, SerialResults, SerialOwned, a \in Actors, h \in Handles, call' = [call EXCEPT ![a] = Idle], call[a].target = h, OnlyAt(h), SerialHandleStep

LEMMA StepSerial ==
  ASSUME RegShape, RegShape', LocalsAreTracked, SerialCalls, [Next]_vars
  PROVE  SerialCalls'
<1> USE RecordFacts, RegNamesAssumption DEF osVars, clientVars, localVars, nativeVars
<1>0. UNCHANGED <<native_detached, native_consumed>> => ND' = ND /\ NC' = NC
  BY DEF ND, NC
<1>1. program' = program
  <2>1. CASE UNCHANGED vars
    BY <2>1 DEF vars
  <2>2. CASE \E a \in Actors : Client(a)
    BY <2>2 DEF Client, AllocateThreadId, HostCreate, Join, Detach
  <2>3. CASE \E a \in Actors : Progress(a)
    BY <2>3
    DEF Progress, SpawnThread, PublishLocal, PublishNative, FinishLocal, HostJoin, HostDetach,
        HostAnswer, HandleJoinResult, HandleDetachResult, RefuseUnknown
  <2>4. CASE (\E id \in LocalIds : LocalThreadExit(id)) \/ (\E h \in Handles : HostThreadExit(h))
    BY <2>4 DEF LocalThreadExit, HostThreadExit
  <2> QED
    BY <2>1, <2>2, <2>3, <2>4 DEF Next
<1> SUFFICES ASSUME program.discipline = "serial"
             PROVE  SerialApart' /\ SerialResults' /\ SerialOwned'
  BY <1>1 DEF SerialCalls
<1>2. SerialApart /\ SerialResults /\ SerialOwned
  BY DEF SerialCalls
<1>3. ASSUME NEW a \in Actors, call[a].step # "idle"
      PROVE  \A b \in Actors \ {a} : call[b].step # "idle" => call[b].target # call[a].target
  BY <1>2, <1>3 DEF SerialApart
<1>4. ASSUME NEW a \in Actors, AllocateThreadId(a)
      PROVE  SerialApart' /\ SerialResults' /\ SerialOwned'
  <2>1. PICK id \in next_id..MaxLocal : Proceed(a, "spawning", id)
    BY <1>4 DEF AllocateThreadId
  <2> DEFINE rec == [step |-> "spawning", target |-> id, code |-> "0"]
  <2>2. id \in LocalIds /\ id >= next_id
    BY DEF RegShape, LocalIds
  <2>3. ASSUME NEW b \in Actors \ {a}, call[b].step # "idle"
        PROVE  call[b].target # id
    <3>1. CASE call[b].step \in LocalSteps
      <4>1. call[b].target < next_id
        BY <3>1, CallFacts
        DEF LocalSteps, LocalsAreTracked, CallsOnLocals, NamesOfLocals
      <4> QED
        BY <2>2, <4>1 DEF LocalIds, RegShape
    <3>2. CASE call[b].step \notin LocalSteps
      <4>1. call[b].target \in Handles
        <5>1. call[b] \in CallRecords /\ call[b].step # "unknown"
          BY <1>2, CallFacts DEF SerialResults
        <5> QED
          BY <2>3, <3>2, <5>1 DEF CallRecords, LocalSteps, LocalClaims, Idle
      <4> QED
        BY <2>2, <4>1
    <3> QED
      BY <3>1, <3>2
  <2>4. /\ call' = [call EXCEPT ![a] = rec] /\ call[a].step = "idle"
        /\ UNCHANGED <<owned, native_joinable, native_detached, native_consumed, host>>
    BY <1>4, <2>1 DEF AllocateThreadId, MayCall, Proceed
  <2>5. rec.step = "spawning" /\ rec.target = id /\ rec.code = "0"
    OBVIOUS
  <2>6. call[a].code = "0"
    BY <2>4, CallFacts
  <2> HIDE DEF rec
  <2> QED
    BY <1>2, <2>2, <2>3, <2>4, <2>5, <2>6, SerialOtherStep DEF LocalSteps, NativeClaims
<1>5. ASSUME NEW a \in Actors, SpawnThread(a)
      PROVE  SerialApart' /\ SerialResults' /\ SerialOwned'
  <2> DEFINE rec == [step |-> "spawned", target |-> call[a].target, code |-> "0"]
  <2>1. /\ call[a].step = "spawning" /\ call[a].code = "0" /\ call[a].target \in LocalIds
        /\ UNCHANGED <<owned, native_joinable, native_detached, native_consumed, host>>
        /\ call' = [call EXCEPT ![a] = rec] \/ call' = [call EXCEPT ![a] = Idle]
    BY <1>5, CallFacts DEF SpawnThread, Proceed, Return
  <2>2. rec.step = "spawned" /\ rec.target = call[a].target /\ rec.code = "0"
    OBVIOUS
  <2> HIDE DEF rec
  <2>3. CASE call' = [call EXCEPT ![a] = rec]
    BY <1>2, <1>3, <2>1, <2>2, <2>3, SerialOtherStep DEF LocalSteps, NativeClaims
  <2>4. CASE call' = [call EXCEPT ![a] = Idle]
    BY <1>2, <2>1, <2>4, SerialOtherStep DEF LocalSteps, NativeClaims
  <2> QED
    BY <2>1, <2>3, <2>4
<1>6. ASSUME NEW a \in Actors, PublishLocal(a) \/ FinishLocal(a)
      PROVE  SerialApart' /\ SerialResults' /\ SerialOwned'
  <2>1. /\ call[a].step \in LocalSteps /\ call' = [call EXCEPT ![a] = Idle]
        /\ UNCHANGED <<native_joinable, native_detached, native_consumed, host>>
        /\ owned' \in {owned \cup {call[a].target}, owned \ {call[a].target}}
    BY <1>6 DEF PublishLocal, FinishLocal, Return, LocalSteps, LocalClaims
  <2>2. call[a].code = "0" /\ call[a].target \in LocalIds /\ call[a].step \notin NativeClaims
    BY <2>1, CallFacts DEF LocalSteps, LocalClaims, NativeClaims
  <2>3. owned' \cap Handles = owned \cap Handles
    BY <2>1, <2>2
  <2> QED
    BY <1>2, <2>1, <2>2, <2>3, SerialOtherStep
<1>7. ASSUME NEW a \in Actors, NEW t \in Targets, Join(a, t) \/ Detach(a, t)
      PROVE  SerialApart' /\ SerialResults' /\ SerialOwned'
  <2>1. /\ MayCall(a) /\ MayName(t) /\ UNCHANGED <<osVars, clientVars>>
        /\ \/ \E c : Refused(a, t, c)
           \/ \E s : TakenLocal(a, t, s) \/ TakenNative(a, t, s)
           \/ Missed(a, t)
    BY <1>7, LookUpOutcomes
  <2>2. t \in owned /\ \A b \in Actors : call[b].target # t
    BY <2>1 DEF MayName
  <2>3. t \in joinable \cup native_joinable
    BY <1>2, <2>2, SerialListed
  <2>4. call[a].step = "idle" /\ call[a].code = "0"
    BY <2>1, CallFacts DEF MayCall
  <2>5. ASSUME NEW c, Refused(a, t, c)
        PROVE  SerialApart' /\ SerialResults' /\ SerialOwned'
    <3>1. /\ call' = [call EXCEPT ![a] = Idle]
          /\ UNCHANGED <<owned, native_joinable, native_detached, native_consumed, host>>
      BY <2>1, <2>5 DEF Refused, Refuse, Return
    <3> QED
      BY <1>2, <2>4, <3>1, SerialOtherStep DEF NativeClaims
  <2>6. ASSUME NEW s, TakenLocal(a, t, s)
        PROVE  SerialApart' /\ SerialResults' /\ SerialOwned'
    <3> DEFINE rec == [step |-> s, target |-> t, code |-> "0"]
    <3>1. /\ call' = [call EXCEPT ![a] = rec] /\ s \in LocalSteps /\ t \in LocalIds
          /\ UNCHANGED <<owned, native_joinable, native_detached, native_consumed, host>>
      BY <2>1, <2>6 DEF TakenLocal, Proceed, RegShape, LocalSteps
    <3>2. rec.step = s /\ rec.target = t /\ rec.code = "0"
      OBVIOUS
    <3> HIDE DEF rec
    <3> QED
      BY <1>2, <2>2, <2>4, <3>1, <3>2, SerialOtherStep DEF NativeClaims
  <2>7. ASSUME NEW s, TakenNative(a, t, s)
        PROVE  SerialApart' /\ SerialResults' /\ SerialOwned'
    <3> DEFINE rec == [step |-> s, target |-> t, code |-> "0"]
    <3>1. /\ call' = [call EXCEPT ![a] = rec] /\ s \in NativeClaims /\ t \in Handles
          /\ native_joinable' = native_joinable \ {t}
          /\ ND' = ND \ {t} /\ NC' = NC
          /\ UNCHANGED <<owned, host>>
      BY <2>1, <2>7, ForgetFacts
      DEF TakenNative, TakeNative, Proceed, RegShape, ND, NC
    <3>2. rec.step = s /\ rec.target = t /\ rec.code = "0"
      OBVIOUS
    <3> HIDE DEF rec
    <3>3. host[t] \in {"running", "exited"} /\ t \notin ND \cup NC
      BY <1>2, <2>2, <3>1 DEF SerialOwned
    <3>4. s \notin LocalSteps \cup {"unknown", "joined_native", "detached_native", "created"}
      BY <3>1 DEF NativeClaims, LocalSteps, LocalClaims
    <3>5. FitsAt(t, rec)
      BY <2>2, <3>1, <3>2, <3>3, <3>4 DEF FitsAt
    <3>6. OnlyAt(t)
      BY <3>1 DEF OnlyAt
    <3> QED
      BY <1>2, <2>2, <2>4, <3>1, <3>5, <3>6, SerialHandleStep
  <2>8. CASE Missed(a, t)
    BY <2>3, <2>8 DEF Missed
  <2> QED
    BY <2>1, <2>5, <2>6, <2>7, <2>8
<1>8. ASSUME NEW a \in Actors, HostCreate(a)
      PROVE  SerialApart' /\ SerialResults' /\ SerialOwned'
  <2>1. PICK h \in Handles, s \in {"created", "created_detached"} :
          /\ host[h] = "fresh" \/ (program.reuse /\ host[h] = "released")
          /\ host' = [host EXCEPT ![h] = IF s = "created" THEN "running" ELSE "detached"]
          /\ Proceed(a, s, h)
    BY <1>8 DEF HostCreate
  <2> DEFINE rec == [step |-> s, target |-> h, code |-> "0"]
  <2>2. /\ call' = [call EXCEPT ![a] = rec] /\ call[a].step = "idle"
        /\ ND' = ND /\ NC' = NC /\ UNCHANGED <<owned, native_joinable>>
        /\ \A b \in Actors : call[b].target # h
    BY <1>0, <1>8, <2>1 DEF HostCreate, MayCall, MayCreateNative, Proceed
  <2>3. h \notin owned
    BY <1>2, <2>1 DEF SerialOwned
  <2>4. /\ \A g \in Handles \ {h} : host'[g] = host[g]
        /\ s = "created" => host'[h] = "running"
    BY <2>1 DEF RegShape
  <2>5. rec.step = s /\ rec.target = h /\ rec.code = "0"
    OBVIOUS
  <2> HIDE DEF rec
  <2>6. s \notin LocalSteps \cup NativeClaims \cup {"unknown", "joined_native", "detached_native"}
    BY <2>1 DEF NativeClaims, LocalSteps, LocalClaims
  <2>7. OnlyAt(h)
    BY <2>2, <2>4 DEF OnlyAt
  <2>8. FitsAt(h, rec)
    BY <2>2, <2>3, <2>4, <2>5, <2>6 DEF FitsAt
  <2> QED
    BY <1>2, <2>2, <2>7, <2>8, SerialHandleStep
<1>9. ASSUME NEW a \in Actors, PublishNative(a)
      PROVE  SerialApart' /\ SerialResults' /\ SerialOwned'
  <2> DEFINE h == call[a].target
  <2>1. /\ h \in Handles /\ call[a].step \in {"created", "created_detached"}
        /\ call' = [call EXCEPT ![a] = Idle] /\ UNCHANGED host
        /\ native_joinable' = native_joinable \cup {h}
        /\ ND' = ND \ {h} /\ NC' = NC \ {h}
        /\ owned' = IF call[a].step = "created" THEN owned \cup {h} ELSE owned
    BY <1>9, CallFacts, ForgetFacts DEF PublishNative, Return, RegShape, ND, NC
  <2>2. h \in owned' => host'[h] \in {"running", "exited"}
    BY <1>2, <2>1 DEF SerialOwned, SerialResults
  <2> HIDE DEF h
  <2>5. call[a].target = h
    BY DEF h
  <2>6. OnlyAt(h)
    BY <2>1 DEF OnlyAt
  <2>7. h \in native_joinable' /\ h \notin ND' \cup NC'
    BY <2>1
  <2> QED
    BY <1>2, <2>1, <2>2, <2>5, <2>6, <2>7, SerialReturnStep
<1>10. ASSUME NEW a \in Actors, HostJoin(a) \/ HostDetach(a)
       PROVE  SerialApart' /\ SerialResults' /\ SerialOwned'
  <2> DEFINE h == call[a].target
  <2>1. h \in Handles /\ call[a].step \in NativeClaims /\ h \in owned
    BY <1>2, <1>10, CallFacts DEF HostJoin, HostDetach, NativeClaims, SerialResults
  <2>2. host[h] \in {"running", "exited"} /\ h \notin ND \cup NC
    BY <1>2, <2>1 DEF SerialOwned
  <2>3. \/ HostAnswer(a, "joined_native", "EDEADLK", host[h])
        \/ \E s \in {"joined_native", "detached_native"} : \E state : HostAnswer(a, s, "0", state)
    BY <1>10, <2>2 DEF HostJoin, HostDetach
  <2>4. PICK s \in {"joined_native", "detached_native"} : \E c, state :
          /\ HostAnswer(a, s, c, state)
          /\ c = "0" \/ (c = "EDEADLK" /\ s = "joined_native" /\ state = host[h])
    BY <2>3
  <2>5. PICK c, state :
          /\ HostAnswer(a, s, c, state)
          /\ c = "0" \/ (c = "EDEADLK" /\ s = "joined_native" /\ state = host[h])
    BY <2>4
  <2> DEFINE rec == [step |-> s, target |-> h, code |-> c]
  <2>6. /\ call' = [call EXCEPT ![a] = rec] /\ host' = [host EXCEPT ![h] = state]
        /\ owned' = IF c = "0" THEN owned \ {h} ELSE owned
        /\ ND' = ND /\ NC' = NC /\ UNCHANGED native_joinable
    BY <1>0, <2>5 DEF HostAnswer
  <2>7. /\ \A g \in Handles \ {h} : host'[g] = host[g]
        /\ host'[h] = state
    BY <2>1, <2>6 DEF RegShape
  <2>8. rec.step = s /\ rec.target = h /\ rec.code = c
    OBVIOUS
  <2>9. \A b \in Actors \ {a} : call[b].step # "idle" => call[b].target # h
    BY <1>3, <2>1 DEF NativeClaims
  <2>10. s \notin LocalSteps \cup NativeClaims \cup {"unknown", "created"}
    BY DEF NativeClaims, LocalSteps, LocalClaims
  <2> HIDE DEF rec, h
  <2>11. call[a].target = h
    BY DEF h
  <2>12. c = "0" => h \notin owned'
    BY <2>6
  <2>13. c # "0" => h \in owned' /\ host'[h] \in {"running", "exited"} /\ h \notin ND' \cup NC'
    BY <2>1, <2>2, <2>5, <2>6, <2>7
  <2>14. OnlyAt(h)
    BY <2>6, <2>7 DEF OnlyAt
  <2>15. FitsAt(h, rec)
    BY <2>5, <2>8, <2>10, <2>12, <2>13 DEF FitsAt
  <2> QED
    BY <1>2, <2>1, <2>6, <2>9, <2>11, <2>14, <2>15, SerialHandleStep
<1>11. ASSUME NEW a \in Actors, HandleJoinResult(a) \/ HandleDetachResult(a)
       PROVE  SerialApart' /\ SerialResults' /\ SerialOwned'
  <2> DEFINE h == call[a].target
  <2>1. /\ h \in Handles /\ h \in Targets /\ call[a].step \in {"joined_native", "detached_native"}
        /\ call' = [call EXCEPT ![a] = Idle] /\ UNCHANGED <<host, owned>>
    BY <1>11, CallFacts DEF HandleJoinResult, HandleDetachResult, Return, Targets
  <2>2. \/ h \notin owned /\ (MarkNativeDetached(h) \/ MarkNativeConsumed(h))
        \/ h \in owned /\ RestoreNativeJoinable(h)
    BY <1>2, <1>11 DEF HandleJoinResult, HandleDetachResult, SerialResults
  <2> HIDE DEF h
  <2>5. call[a].target = h
    BY DEF h
  <2>6. CASE h \notin owned /\ (MarkNativeDetached(h) \/ MarkNativeConsumed(h))
    <3>1. /\ native_joinable' = native_joinable \ {h}
          /\ ND' \cup NC' \subseteq ND \cup NC \cup {h}
      BY <2>1, <2>6, MarkFacts
    <3>2. OnlyAt(h)
      BY <2>1, <3>1 DEF OnlyAt
    <3>3. h \notin owned'
      BY <2>1, <2>6
    <3> QED
      BY <1>2, <2>1, <2>5, <3>2, <3>3, SerialReturnStep
  <2>7. CASE h \in owned /\ RestoreNativeJoinable(h)
    <3>1. host[h] \in {"running", "exited"} /\ h \notin ND \cup NC
      BY <1>2, <2>1, <2>7 DEF SerialOwned
    <3>2. native_joinable' = native_joinable \cup {h} /\ ND' = ND /\ NC' = NC
      BY <2>1, <2>7, <3>1, MarkFacts
    <3>3. OnlyAt(h)
      BY <2>1, <3>2 DEF OnlyAt
    <3>4. h \in native_joinable' /\ h \notin ND' \cup NC' /\ host'[h] \in {"running", "exited"}
      BY <2>1, <3>1, <3>2
    <3> QED
      BY <1>2, <2>1, <2>5, <3>3, <3>4, SerialReturnStep
  <2> QED
    BY <2>2, <2>6, <2>7
<1>12. ASSUME NEW a \in Actors, RefuseUnknown(a)
       PROVE  FALSE
  BY <1>2, <1>12 DEF RefuseUnknown, SerialResults
<1>13. ASSUME NEW h \in Handles, HostThreadExit(h)
       PROVE  SerialApart' /\ SerialResults' /\ SerialOwned'
  <2>1. /\ UNCHANGED <<call, owned, native_joinable>> /\ ND' = ND /\ NC' = NC
        /\ \A g \in Handles : host[g] \in {"running", "exited"} => host'[g] \in {"running", "exited"}
    BY <1>0, <1>13 DEF HostThreadExit, RegShape
  <2>2. \A b \in Actors : call[b].step = "created" => call[b].target \in Handles
    BY CallFacts
  <2>3. SerialApart'
    BY <1>2, <2>1 DEF SerialApart
  <2>4. SerialResults'
    BY <1>2, <2>1, <2>2 DEF SerialResults
  <2>5. SerialOwned'
    BY <1>2, <2>1 DEF SerialOwned, Returning
  <2> QED
    BY <2>3, <2>4, <2>5
<1>14. CASE (\E id \in LocalIds : LocalThreadExit(id)) \/ UNCHANGED vars
  <2>1. UNCHANGED <<call, owned, native_joinable, host>> /\ ND' = ND /\ NC' = NC
    BY <1>0, <1>14 DEF LocalThreadExit, vars
  <2> QED
    BY <1>2, <2>1 DEF SerialApart, SerialResults, SerialOwned, Returning
<1> QED
  BY <1>4, <1>5, <1>6, <1>7, <1>8, <1>9, <1>10, <1>11, <1>12, <1>13, <1>14
  DEF Next, Client, Progress

---------------------------------------------------------------------------
(* The invariant holds, and what it says of the registry.                  *)
RegIInv ==
  /\ RegShape /\ LocalsAreTracked
  /\ HandlesHaveOneHolder /\ ConsumersApart
  /\ MissedAreTaken /\ SerialCalls

LEMMA InitInvariant == Init => RegIInv
<1> SUFFICES ASSUME Init
             PROVE  RegIInv
  OBVIOUS
<1>1. RegShape /\ LocalsAreTracked
  BY InitShape, InitLocals
<1>2. /\ \A a \in Actors : call[a] = Idle
      /\ native_joinable = {} /\ ND = {} /\ NC = {} /\ owned = {}
  BY DEF Init, ND, NC, ToSet
<1>3. ~Holds(Idle) /\ ~SettledResult(Idle) /\ ~Consumes(Idle)
  BY DEF Holds, SettledResult, Consumes, Idle, LocalClaims, NativeClaims
<1>4. HandlesHaveOneHolder /\ ConsumersApart
  BY <1>2, <1>3 DEF HandlesHaveOneHolder, ConsumersApart
<1>5. MissedAreTaken /\ SerialCalls
  BY <1>2, RecordFacts
  DEF MissedAreTaken, SerialCalls, SerialApart, SerialResults, SerialOwned, NativeClaims
<1> QED
  BY <1>1, <1>4, <1>5 DEF RegIInv

LEMMA StepInvariant == RegIInv /\ [Next]_vars => RegIInv'
<1> SUFFICES ASSUME RegIInv, [Next]_vars
             PROVE  RegIInv'
  OBVIOUS
<1>1. RegShape'
  BY StepShape DEF RegIInv
<1>2. LocalsAreTracked'
  BY <1>1, StepLocals DEF RegIInv
<1>3. HandlesHaveOneHolder' /\ ConsumersApart' /\ MissedAreTaken' /\ SerialCalls'
  BY <1>1, StepHolders, StepConsumers, StepMissed, StepSerial DEF RegIInv
<1> QED
  BY <1>1, <1>2, <1>3 DEF RegIInv

LEMMA RegInvariance == Spec => []RegIInv
BY InitInvariant, StepInvariant, PTL DEF Spec

LEMMA ShapeIsType == RegShape => RegTypeOK
<1> SUFFICES ASSUME RegShape
             PROVE  RegTypeOK
  OBVIOUS
<1>1. \A cache \in {native_detached, native_consumed} :
        Len(cache) <= CacheLimit /\ ToSet(cache) \subseteq Targets /\ IsInjective(cache)
  <2>1. \A c \in Seq(Targets) : ToSet(c) \subseteq Targets
    BY DEF ToSet
  <2> QED
    BY <2>1 DEF RegShape, Cache
<1>2. CallRecords \subseteq
        [step : CallSteps, target : Targets \cup {NoTarget}, code : RegCodes]
  BY DEF CallRecords, CallSteps, RegCodes, Targets, Idle, LocalClaims, NativeClaims
<1>3. call \in [Actors -> [step : CallSteps, target : Targets \cup {NoTarget}, code : RegCodes]]
  BY <1>2 DEF RegShape
<1> QED
  BY <1>1, <1>3 DEF RegShape, RegTypeOK, Replies

LEMMA DetachedAreSettled == RegShape /\ HandlesHaveOneHolder => NativeDetachedIsDetached
BY DEF RegShape, HandlesHaveOneHolder, NativeDetachedIsDetached, Settled, ND, NC

LEMMA ClaimsExclude ==
  ASSUME RegIInv, ~program.reuse \/ program.discipline \in {"serial", "owner"}
  PROVE  ClaimsAreExclusive
<1> SUFFICES ASSUME NEW a \in Actors, NEW b \in Actors,
                    call[a].step \in Claims, call[b].step \in Claims,
                    call[a].target = call[b].target
             PROVE  a = b
  BY DEF ClaimsAreExclusive
<1>1. CASE call[a].step \in LocalClaims /\ call[b].step \in LocalClaims
  BY <1>1 DEF RegIInv, LocalsAreTracked, OneCallPerLocal
<1>2. CASE call[a].step \in NativeClaims /\ call[b].step \in NativeClaims
  <2>1. Holds(call[a]) /\ Holds(call[b]) /\ Consumes(call[a]) /\ Consumes(call[b])
    BY <1>2 DEF Holds, Consumes
  <2> QED
    BY <2>1 DEF RegIInv, HandlesHaveOneHolder, ConsumersApart
<1>3. /\ \A c \in Actors : call[c].step \in LocalClaims => call[c].target \in LocalIds
      /\ \A c \in Actors : call[c].step \in NativeClaims => call[c].target \in Handles
  BY CallFacts DEF RegIInv
<1> QED
  BY <1>1, <1>2, <1>3, RegNamesAssumption DEF Claims, LocalClaims, NativeClaims

(* handle_local_thread_exit, spawn_local_thread and the consumers leave    *)
(* finished and detached exact for every local thread, and a handle kept   *)
(* as detached is detached at the host: whatever the clients name, whether *)
(* or not handles are given out again (there, of the first two only).      *)
THEOREM ThreadsAreTracked ==
  Spec => [](RegTypeOK /\ RegistryTracksThreads /\ NativeDetachedIsDetached)
<1>1. RegIInv => RegTypeOK /\ RegistryTracksThreads /\ NativeDetachedIsDetached
  BY ShapeIsType, DetachedAreSettled DEF RegIInv, LocalsAreTracked, NamesOfLocals
<1> QED
  BY <1>1, RegInvariance, PTL

(* The registry is sound, each thread with one consumer included, unless a *)
(* program goes on naming handles that it no longer owns while the host    *)
(* gives them out again.                                                   *)
THEOREM RegistrySound ==
  ASSUME \A p \in Programs : p.reuse => p.discipline \in {"serial", "owner"}
  PROVE  Spec => []RegistryIsSound
<1>1. RegIInv => RegistryIsSound
  <2> SUFFICES ASSUME RegIInv
               PROVE  RegistryIsSound
    OBVIOUS
  <2>1. program \in Programs /\ program.reuse \in BOOLEAN
    BY RegClientAssumption DEF RegIInv, RegShape
  <2>2. ~program.reuse \/ program.discipline \in {"serial", "owner"}
    BY <2>1
  <2> QED
    BY <2>2, ShapeIsType, DetachedAreSettled, ClaimsExclude
    DEF RegistryIsSound, RegIInv, LocalsAreTracked, NamesOfLocals
<1> QED
  BY <1>1, RegInvariance, PTL

(* What pthread_join and pthread_detach report of a local thread is so, in *)
(* every program that names only threads some pthread_create returned.     *)
THEOREM TruthfulReplies ==
  ASSUME \A p \in Programs : p.discipline # "any"
  PROVE  Spec => []RepliesAreTruthful
<1>1. Init => RepliesAreTruthful
  BY RegNamesAssumption DEF Init, NoReply, RepliesAreTruthful, Targets
<1>2. RegIInv /\ RegIInv' /\ RepliesAreTruthful /\ [Next]_vars => RepliesAreTruthful'
  BY StepReplies DEF RegIInv, RegShape
<1> QED
  BY <1>1, <1>2, RegInvariance, PTL DEF Spec

(* A thread that a serial program owns can be joined or detached, although *)
(* the host gives its handles out again.                                   *)
THEOREM SerialStaysJoinable == Spec => []DisciplinedStaysJoinable
<1>1. RegIInv => DisciplinedStaysJoinable
  <2> SUFFICES ASSUME RegIInv, program.discipline = "serial", NEW t \in owned
               PROVE  \/ Claimed(t)
                      \/ /\ t \in joinable \cup native_joinable
                         /\ t \notin detached \cup ToSet(native_detached) \cup ToSet(native_consumed)
    BY DEF DisciplinedStaysJoinable, OwnedStaysJoinable
  <2>1. CASE t \in LocalIds
    <3>1. CASE t \in joinable
      <4>1. t \notin detached
        BY <3>1 DEF RegIInv, LocalsAreTracked, NamesOfLocals, RegistryTracksThreads
      <4>2. t \notin ND
        BY <2>1, RegNamesAssumption DEF RegIInv, RegShape
      <4>3. t \notin NC
        BY <2>1, <3>1 DEF RegIInv, MissedAreTaken
      <4> QED
        BY <3>1, <4>1, <4>2, <4>3 DEF ND, NC
    <3>2. CASE t \notin joinable
      BY <2>1, <3>2, UnlistedHasConsumer DEF RegIInv
    <3> QED
      BY <3>1, <3>2
  <2>2. CASE t \in Handles
    <3>1. t \notin ND \cup NC /\ (t \in native_joinable \/ Returning(t))
      BY <2>2 DEF RegIInv, SerialCalls, SerialOwned
    <3>2. t \notin detached
      BY <2>2, RegNamesAssumption DEF RegIInv, RegShape
    <3>3. Returning(t) => Claimed(t)
      BY DEF Returning, Claimed, Claims, NativeClaims
    <3> QED
      BY <3>1, <3>2, <3>3 DEF ND, NC
  <2> QED
    BY <2>1, <2>2 DEF RegIInv, RegShape, Targets
<1> QED
  BY <1>1, RegInvariance, PTL
=============================================================================
