------------------------ MODULE PthreadRwlockProofs ------------------------
(* Theorems about PthreadRwlock, for every set of threads and every limit  *)
(* of the counts.                                                          *)
(*                                                                         *)
(* The inductive invariant IInv adds to the invariants the runs check what *)
(* a call in progress looks like (CallShape), that only registered waiters *)
(* of a state sleep on it, and that readers and a writer exclude each      *)
(* other in every state, the removed ones included.                        *)
EXTENDS PthreadRwlock, FiniteSetTheorems, TLAPS

CallShape ==
  \A t \in Threads :
    /\ pc[t] = "out" <=> arc[t] = NoState
    /\ pc[t] = "waiting" => op[t] \in {"rdlock", "wrlock"}
    /\ pc[t] = "notifying" => op[t] = "unlock"
    /\ pc[t] = "removing" => op[t] = "destroy" /\ destroyed[arc[t]]

SleepersWait ==
  \A s \in States : \A t \in sleepers[s] : arc[t] = s /\ pc[t] = "waiting"

ReadersExcludeWriter ==
  \A s \in States : writer_owner[s] # NoThread => total_readers[s] = 0

IInv ==
  /\ RwTypeOK
  /\ OwnersMatchClients
  /\ DestroyedIsUnused
  /\ WaitersAreCounted
  /\ NoLostWakeup
  /\ CallShape
  /\ SleepersWait
  /\ ReadersExcludeWriter

---------------------------------------------------------------------------
(* What the two cardinalities say, in the ways a step changes the sets.    *)
LEMMA WaitersFinite ==
  ASSUME NEW s, NEW f
  PROVE  IsFiniteSet(Waiters(s, f)) /\ Cardinality(Waiters(s, f)) \in Nat
<1>1. Waiters(s, f) \in SUBSET Threads
  BY DEF Waiters
<1>2. IsFiniteSet(Waiters(s, f))
  BY <1>1, RwThreadsAssumption, FS_Subset
<1> QED
  BY <1>2, FS_CardinalityType

LEMMA AcquisitionsFinite ==
  ASSUME NEW s
  PROVE  IsFiniteSet(Acquisitions(s)) /\ Cardinality(Acquisitions(s)) \in Nat
<1>1. IsFiniteSet(1..MaxCount)
  BY RwCountAssumption, FS_Interval
<1>2. IsFiniteSet(Threads \X (1..MaxCount))
  BY <1>1, RwThreadsAssumption, FS_Product
<1>3. Acquisitions(s) \in SUBSET (Threads \X (1..MaxCount))
  BY DEF Acquisitions
<1>4. IsFiniteSet(Acquisitions(s))
  BY <1>2, <1>3, FS_Subset
<1> QED
  BY <1>4, FS_CardinalityType

LEMMA AcquisitionsGrow ==
  ASSUME RwTypeOK, NEW s \in States, NEW t \in Threads,
         reader_owners[s][t] # MaxCount,
         reader_owners' = [reader_owners EXCEPT ![s][t] = @ + 1]
  PROVE  /\ Cardinality(Acquisitions(s)') = Cardinality(Acquisitions(s)) + 1
         /\ \A r \in States \ {s} : Acquisitions(r)' = Acquisitions(r)
<1> DEFINE a == <<t, reader_owners[s][t] + 1>>
<1>0. reader_owners[s][t] \in 0..MaxCount
  BY DEF RwTypeOK
<1>1. reader_owners[s][t] \in 0..MaxCount /\ reader_owners[s][t] + 1 \in 1..MaxCount
  BY <1>0, RwCountAssumption
<1>2. a \notin Acquisitions(s)
  BY <1>1, RwCountAssumption DEF Acquisitions
<1>3. Acquisitions(s)' = Acquisitions(s) \cup {a}
  <2>1. \A u \in Threads : reader_owners'[s][u] =
          IF u = t THEN reader_owners[s][t] + 1 ELSE reader_owners[s][u]
    BY DEF RwTypeOK
  <2>2. \A u \in Threads, n \in 1..MaxCount :
          n <= reader_owners'[s][u] <=> n <= reader_owners[s][u] \/ <<u, n>> = a
    BY <1>1, <2>1, RwCountAssumption
  <2>3. \A b \in Threads \X (1..MaxCount) :
          b \in Acquisitions(s)' <=> b \in Acquisitions(s) \/ b = a
    BY <2>2 DEF Acquisitions
  <2>4. a \in Threads \X (1..MaxCount)
    BY <1>1
  <2>5. Acquisitions(s)' \subseteq Threads \X (1..MaxCount)
    BY DEF Acquisitions
  <2>6. Acquisitions(s) \subseteq Threads \X (1..MaxCount)
    BY DEF Acquisitions
  <2> HIDE DEF a
  <2> QED
    BY <2>3, <2>4, <2>5, <2>6
<1>4. \A r \in States \ {s} : Acquisitions(r)' = Acquisitions(r)
  BY DEF Acquisitions, RwTypeOK
<1> HIDE DEF a
<1> QED
  BY <1>2, <1>3, <1>4, AcquisitionsFinite, FS_AddElement

LEMMA AcquisitionsShrink ==
  ASSUME RwTypeOK, NEW s \in States, NEW t \in Threads,
         reader_owners[s][t] > 0,
         reader_owners' = [reader_owners EXCEPT ![s][t] = @ - 1]
  PROVE  /\ Cardinality(Acquisitions(s)') = Cardinality(Acquisitions(s)) - 1
         /\ Cardinality(Acquisitions(s)) > 0
         /\ \A r \in States \ {s} : Acquisitions(r)' = Acquisitions(r)
<1> DEFINE a == <<t, reader_owners[s][t]>>
<1>0. reader_owners[s][t] \in 0..MaxCount
  BY DEF RwTypeOK
<1>1. reader_owners[s][t] \in 1..MaxCount
  BY <1>0, RwCountAssumption
<1>2. a \in Acquisitions(s)
  BY <1>1, RwCountAssumption DEF Acquisitions
<1>3. Acquisitions(s)' = Acquisitions(s) \ {a}
  <2>1. \A u \in Threads : reader_owners'[s][u] =
          IF u = t THEN reader_owners[s][t] - 1 ELSE reader_owners[s][u]
    BY DEF RwTypeOK
  <2>2. \A u \in Threads, n \in 1..MaxCount :
          n <= reader_owners'[s][u] <=> n <= reader_owners[s][u] /\ <<u, n>> # a
    BY <1>1, <2>1, RwCountAssumption
  <2>3. \A b \in Threads \X (1..MaxCount) :
          b \in Acquisitions(s)' <=> b \in Acquisitions(s) /\ b # a
    BY <2>2 DEF Acquisitions
  <2>4. Acquisitions(s)' \subseteq Threads \X (1..MaxCount)
    BY DEF Acquisitions
  <2>5. Acquisitions(s) \subseteq Threads \X (1..MaxCount)
    BY DEF Acquisitions
  <2> HIDE DEF a
  <2> QED
    BY <2>3, <2>4, <2>5
<1>4. \A r \in States \ {s} : Acquisitions(r)' = Acquisitions(r)
  BY DEF Acquisitions, RwTypeOK
<1> HIDE DEF a
<1>5. Cardinality(Acquisitions(s)) # 0
  BY <1>2, AcquisitionsFinite, FS_EmptySet
<1>6. Cardinality(Acquisitions(s)') = Cardinality(Acquisitions(s)) - 1
  BY <1>2, <1>3, AcquisitionsFinite, FS_RemoveElement
<1>7. Cardinality(Acquisitions(s)) > 0
  BY <1>5, AcquisitionsFinite
<1> QED
  BY <1>4, <1>6, <1>7

LEMMA NoAcquisitions ==
  ASSUME RwTypeOK, NEW s \in States, Cardinality(Acquisitions(s)) = 0
  PROVE  reader_owners[s] = Nobody
<1>1. Acquisitions(s) = {}
  BY AcquisitionsFinite, FS_EmptySet
<1>2. ASSUME NEW t \in Threads
      PROVE  reader_owners[s][t] = 0
  <2>1. reader_owners[s][t] \in 0..MaxCount
    BY DEF RwTypeOK
  <2>2. <<t, reader_owners[s][t]>> \notin Acquisitions(s)
    BY <1>1
  <2> QED
    BY <2>1, <2>2, RwCountAssumption DEF Acquisitions
<1>3. reader_owners[s] \in [Threads -> 0..MaxCount]
  BY DEF RwTypeOK
<1> QED
  BY <1>2, <1>3 DEF Nobody

LEMMA NobodyAcquired ==
  ASSUME NEW s, reader_owners[s] = Nobody
  PROVE  Cardinality(Acquisitions(s)) = 0
<1>1. Acquisitions(s) = {}
  BY RwCountAssumption DEF Acquisitions, Nobody
<1> QED
  BY <1>1, FS_EmptySet

---------------------------------------------------------------------------
(* Steps of a thread that leave the lock states alone: only pc, op, arc    *)
(* and the result of that thread change, and it is no waiter, no notifier  *)
(* and about to remove nothing.                                            *)
LEMMA OutsidePreserves ==
  ASSUME IInv, NEW t \in Threads,
         pc[t] \in {"out", "entered"},
         NEW p \in {"out", "entered"}, NEW f \in Ops,
         NEW x \in States \cup {NoState},
         p = "out" <=> x = NoState,
         x = NoState \/ x = entry,
         pc' = [pc EXCEPT ![t] = p],
         op' = [op EXCEPT ![t] = f],
         arc' = [arc EXCEPT ![t] = x],
         rw_result' \in RwCodes,
         UNCHANGED <<entry, ownerVars, waitVars, destroyed, heldVars>>
  PROVE  IInv'
<1> USE DEF IInv, ownerVars, waitVars, heldVars
<1>1. RwTypeOK'
  BY DEF RwTypeOK, RwPlaces
<1>2. OwnersMatchClients'
  BY DEF OwnersMatchClients, Acquisitions
<1>3. DestroyedIsUnused'
  BY RwStatesAssumption DEF DestroyedIsUnused, Unreferenced, RwTypeOK
<1>4. \A s \in States : \A g : Waiters(s, g)' = Waiters(s, g)
  BY DEF Waiters, RwTypeOK
<1>5. WaitersAreCounted'
  BY <1>4 DEF WaitersAreCounted, Live
<1>6. CallShape'
  BY DEF CallShape, RwTypeOK
<1>7. SleepersWait'
  BY DEF SleepersWait, RwTypeOK
<1>8. NoLostWakeup'
  <2> SUFFICES ASSUME NEW s \in States, NEW u \in sleepers[s], Admissible(u, s)'
               PROVE  \E v \in Threads : pc'[v] = "notifying" /\ arc'[v] = s
    BY DEF NoLostWakeup
  <2>1. u # t /\ u \in Threads
    BY DEF SleepersWait, RwTypeOK
  <2>2. Admissible(u, s)
    BY <2>1 DEF Admissible, MayRead, MayWrite, RwTypeOK
  <2>3. PICK v \in Threads : pc[v] = "notifying" /\ arc[v] = s
    BY <2>2 DEF NoLostWakeup
  <2> QED
    BY <2>3 DEF RwTypeOK
<1>9. ReadersExcludeWriter'
  BY DEF ReadersExcludeWriter
<1> QED
  BY <1>1, <1>2, <1>3, <1>5, <1>6, <1>7, <1>8, <1>9

LEMMA RefusePreserves ==
  ASSUME IInv, NEW t \in Threads, pc[t] = "entered", NEW code \in RwCodes,
         Refuse(t, code), UNCHANGED waitVars
  PROVE  IInv'
<1>1. "unlock" \in Ops
  BY DEF Ops
<1> QED
  BY <1>1, OutsidePreserves DEF Refuse, Return

LEMMA EnterPreserves ==
  ASSUME IInv, NEW t \in Threads, NEW f \in Ops, Enter(t, f)
  PROVE  IInv'
<1>1. CASE entry = NoState
  <2>1. arc[t] = NoState /\ op[t] \in Ops /\ pc[t] = "out"
    BY DEF Enter, IInv, CallShape, RwTypeOK
  <2>2. /\ pc' = [pc EXCEPT ![t] = "out"]
        /\ op' = [op EXCEPT ![t] = op[t]]
        /\ arc' = [arc EXCEPT ![t] = NoState]
    BY <1>1, <2>1 DEF Enter, IInv, RwTypeOK
  <2> QED
    BY <1>1, <2>1, <2>2, OutsidePreserves DEF Enter, RwCodes
<1>2. CASE entry # NoState
  <2>1. entry \in States /\ rw_result \in RwCodes
    BY <1>2 DEF IInv, RwTypeOK
  <2> QED
    BY <1>2, <2>1, OutsidePreserves DEF Enter
<1> QED
  BY <1>1, <1>2

LEMMA InitRwlockPreserves ==
  ASSUME IInv, NEW t \in Threads, InitRwlock(t)
  PROVE  IInv'
<1> USE DEF IInv
<1>1. CASE entry # NoState
  <2>1. UNCHANGED <<entry, ownerVars, waitVars, destroyed, arc, op, pc, heldVars>>
    BY <1>1 DEF InitRwlock
  <2>2. rw_result' \in RwCodes
    BY <1>1 DEF InitRwlock, RwCodes
  <2>3. arc[t] = NoState /\ op[t] \in Ops /\ pc[t] = "out"
    BY DEF InitRwlock, CallShape, RwTypeOK
  <2>4. /\ pc' = [pc EXCEPT ![t] = "out"]
        /\ op' = [op EXCEPT ![t] = op[t]]
        /\ arc' = [arc EXCEPT ![t] = NoState]
    BY <2>1, <2>3 DEF RwTypeOK
  <2> QED
    BY <2>1, <2>2, <2>3, <2>4, OutsidePreserves
<1>2. CASE entry = NoState
  <2>1. PICK s \in States :
             /\ Unreferenced(s)
             /\ entry' = s
             /\ reader_owners' = [reader_owners EXCEPT ![s] = Nobody]
             /\ total_readers' = [total_readers EXCEPT ![s] = 0]
             /\ writer_owner' = [writer_owner EXCEPT ![s] = NoThread]
             /\ waiting_readers' = [waiting_readers EXCEPT ![s] = 0]
             /\ waiting_writers' = [waiting_writers EXCEPT ![s] = 0]
             /\ destroyed' = [destroyed EXCEPT ![s] = FALSE]
             /\ sleepers' = [sleepers EXCEPT ![s] = {}]
    BY <1>2 DEF InitRwlock
  <2>2. UNCHANGED <<arc, op, pc, reads, writes>> /\ rw_result' = "OK"
    BY <1>2 DEF InitRwlock, heldVars
  <2> USE <2>1, <2>2
  <2>3. Nobody \in [Threads -> 0..MaxCount]
    BY RwCountAssumption DEF Nobody
  <2>4. RwTypeOK'
    <3>1. 0 \in 0..MaxCount
      BY RwCountAssumption
    <3> QED
      BY <2>3, <3>1 DEF RwTypeOK, RwCodes
  <2>5. s # NoState
    BY RwStatesAssumption
  <2>6. OwnersMatchClients'
    <3>1. \A u \in Threads : /\ reads'[u] = reader_owners'[entry'][u]
                             /\ writes'[u] <=> writer_owner'[entry'] = u
      BY <1>2, RwThreadsAssumption DEF OwnersMatchClients, RwTypeOK, Nobody
    <3>2. reader_owners'[s] = Nobody /\ total_readers'[s] = 0
      BY DEF RwTypeOK
    <3>3. \A r \in States \ {s} : /\ Acquisitions(r)' = Acquisitions(r)
                                  /\ total_readers'[r] = total_readers[r]
      BY DEF Acquisitions, RwTypeOK
    <3>4. Acquisitions(s)' = {}
      BY <3>2, RwCountAssumption DEF Acquisitions, Nobody
    <3>5. total_readers'[s] = Cardinality(Acquisitions(s)')
      BY <3>2, <3>4, FS_EmptySet
    <3>6. \A r \in States : total_readers'[r] = Cardinality(Acquisitions(r)')
      BY <3>3, <3>5 DEF OwnersMatchClients
    <3> QED
      BY <2>5, <3>1, <3>6 DEF OwnersMatchClients
  <2>7. DestroyedIsUnused'
    BY <1>2, RwStatesAssumption DEF DestroyedIsUnused, Unreferenced, RwTypeOK
  <2>8. \A r \in States : \A g : Waiters(r, g)' = Waiters(r, g)
    BY DEF Waiters
  <2>9. \A g : Waiters(s, g) = {}
    BY DEF Waiters, Unreferenced
  <2>10. WaitersAreCounted'
    <3>1. \A r \in States \ {s} : sleepers[r] = {}
      BY <1>2, RwStatesAssumption DEF WaitersAreCounted, Live
    <3>2. \A r \in States : sleepers'[r] = {}
      BY <3>1 DEF RwTypeOK
    <3>3. /\ waiting_readers'[s] = Cardinality(Waiters(s, "rdlock")')
          /\ waiting_writers'[s] = Cardinality(Waiters(s, "wrlock")')
      BY <2>8, <2>9, FS_EmptySet DEF RwTypeOK
    <3>4. ASSUME NEW r \in States \ {s}
          PROVE  /\ waiting_readers'[r] = Cardinality(Waiters(r, "rdlock")')
                 /\ waiting_writers'[r] = Cardinality(Waiters(r, "wrlock")')
      BY <2>8 DEF WaitersAreCounted, RwTypeOK
    <3> QED
      BY <3>2, <3>3, <3>4 DEF WaitersAreCounted
  <2>11. CallShape'
    BY DEF CallShape, Unreferenced, RwTypeOK
  <2>12. \A r \in States : sleepers'[r] = {}
    BY <1>2, RwStatesAssumption DEF WaitersAreCounted, Live, RwTypeOK
  <2>13. SleepersWait' /\ NoLostWakeup'
    BY <2>12 DEF SleepersWait, NoLostWakeup
  <2>14. ReadersExcludeWriter'
    BY DEF ReadersExcludeWriter, RwTypeOK
  <2> QED
    BY <2>4, <2>6, <2>7, <2>10, <2>11, <2>13, <2>14
<1> QED
  BY <1>1, <1>2

---------------------------------------------------------------------------
(* One pass of the loops of rwlock_rdlock_internal and of                  *)
(* rwlock_wrlock_internal by a thread that is not asleep.                  *)
LEMMA LoopCall ==
  ASSUME IInv, NEW t \in Threads, pc[t] \in {"entered", "waiting"}
  PROVE  /\ arc[t] \in States
         /\ ~destroyed[arc[t]] => entry = arc[t]
         /\ pc[t] = "waiting" => ~destroyed[arc[t]]
<1>1. arc[t] \in States
  BY DEF IInv, CallShape, RwTypeOK
<1> QED
  BY <1>1 DEF IInv, DestroyedIsUnused, Unreferenced

(* A call that returns is taken off the count of the loop it was in, if it *)
(* had put itself on it.                                                   *)
LEMMA LeaveIsCounted ==
  ASSUME IInv, NEW t \in Threads, pc[t] \in {"entered", "waiting"},
         NEW code \in RwCodes, Return(t, code), UNCHANGED sleepers,
         \/ /\ op[t] \in {"rdlock", "tryrdlock"}
            /\ Unregister(t, waiting_readers, arc[t])
            /\ UNCHANGED waiting_writers
         \/ /\ op[t] \in {"wrlock", "trywrlock"}
            /\ Unregister(t, waiting_writers, arc[t])
            /\ UNCHANGED waiting_readers
  PROVE  /\ WaitersAreCounted'
         /\ waiting_readers' \in [States -> Nat]
         /\ waiting_writers' \in [States -> Nat]
<1> USE DEF IInv
<1>1. PICK s \in States : s = arc[t]
  BY LoopCall
<1>2. \A r \in States : \A g : Waiters(r, g)' = Waiters(r, g) \ {t}
  BY RwStatesAssumption DEF Waiters, Return, RwTypeOK
<1>3. \A r \in States : (sleepers[r] = {} \/ Live(r))'
  BY DEF WaitersAreCounted, Live, Return
<1>4. CASE pc[t] = "entered"
  <2>1. UNCHANGED <<waiting_readers, waiting_writers>>
    BY <1>4 DEF Unregister
  <2>2. \A r \in States : \A g : Waiters(r, g)' = Waiters(r, g)
    BY <1>2, <1>4 DEF Waiters
  <2> QED
    BY <1>3, <2>1, <2>2 DEF WaitersAreCounted, RwTypeOK
<1>5. CASE pc[t] = "waiting"
  <2>1. op[t] \in {"rdlock", "wrlock"}
    BY <1>5 DEF CallShape
  <2>2. \A r \in States : \A g :
          Waiters(r, g)' = IF r = s /\ g = op[t] THEN Waiters(r, g) \ {t}
                                                 ELSE Waiters(r, g)
    BY <1>1, <1>2, <1>5 DEF Waiters
  <2>3. ASSUME NEW g, g = op[t]
        PROVE  /\ SatSub(Cardinality(Waiters(s, g))) = Cardinality(Waiters(s, g)')
               /\ SatSub(Cardinality(Waiters(s, g))) \in Nat
    <3>1. t \in Waiters(s, g)
      BY <1>1, <1>5, <2>3 DEF Waiters
    <3>2. /\ Cardinality(Waiters(s, g)) # 0
          /\ Cardinality(Waiters(s, g) \ {t}) = Cardinality(Waiters(s, g)) - 1
      BY <3>1, WaitersFinite, FS_EmptySet, FS_RemoveElement
    <3>3. Waiters(s, g)' = Waiters(s, g) \ {t}
      BY <1>2
    <3> QED
      BY <3>2, <3>3, WaitersFinite DEF SatSub
  <2>6. CASE op[t] = "rdlock"
    <3>1. /\ waiting_readers' = [waiting_readers EXCEPT ![s] = SatSub(@)]
          /\ UNCHANGED waiting_writers
      BY <1>1, <1>5, <2>6 DEF Unregister
    <3>2. waiting_readers[s] = Cardinality(Waiters(s, "rdlock"))
      BY DEF WaitersAreCounted
    <3>3. /\ waiting_readers'[s] = Cardinality(Waiters(s, "rdlock")')
          /\ waiting_readers'[s] \in Nat
      BY <2>3, <2>6, <3>1, <3>2 DEF RwTypeOK
    <3>4. \A r \in States \ {s} : waiting_readers'[r] = Cardinality(Waiters(r, "rdlock")')
      BY <2>2, <3>1 DEF WaitersAreCounted, RwTypeOK
    <3>5. \A r \in States : waiting_writers'[r] = Cardinality(Waiters(r, "wrlock")')
      BY <2>2, <2>6, <3>1 DEF WaitersAreCounted
    <3>6. waiting_readers' \in [States -> Nat] /\ waiting_writers' \in [States -> Nat]
      BY <3>1, <3>3 DEF RwTypeOK
    <3> QED
      BY <1>3, <3>3, <3>4, <3>5, <3>6 DEF WaitersAreCounted
  <2>7. CASE op[t] = "wrlock"
    <3>1. /\ waiting_writers' = [waiting_writers EXCEPT ![s] = SatSub(@)]
          /\ UNCHANGED waiting_readers
      BY <1>1, <1>5, <2>7 DEF Unregister
    <3>2. waiting_writers[s] = Cardinality(Waiters(s, "wrlock"))
      BY DEF WaitersAreCounted
    <3>3. /\ waiting_writers'[s] = Cardinality(Waiters(s, "wrlock")')
          /\ waiting_writers'[s] \in Nat
      BY <2>3, <2>7, <3>1, <3>2 DEF RwTypeOK
    <3>4. \A r \in States \ {s} : waiting_writers'[r] = Cardinality(Waiters(r, "wrlock")')
      BY <2>2, <3>1 DEF WaitersAreCounted, RwTypeOK
    <3>5. \A r \in States : waiting_readers'[r] = Cardinality(Waiters(r, "rdlock")')
      BY <2>2, <2>7, <3>1 DEF WaitersAreCounted
    <3>6. waiting_readers' \in [States -> Nat] /\ waiting_writers' \in [States -> Nat]
      BY <3>1, <3>3 DEF RwTypeOK
    <3> QED
      BY <1>3, <3>3, <3>4, <3>5, <3>6 DEF WaitersAreCounted
  <2> QED
    BY <2>1, <2>6, <2>7
<1> QED
  BY <1>4, <1>5

(* What every way out of the loop has in common, whatever it does to the   *)
(* owners: it admits no sleeper that was not admissible before.            *)
LEMMA ReturnPreserves ==
  ASSUME IInv, NEW t \in Threads, pc[t] \in {"entered", "waiting"},
         t \notin sleepers[arc[t]],
         NEW code \in RwCodes, Return(t, code), UNCHANGED sleepers,
         RwTypeOK', OwnersMatchClients', WaitersAreCounted', ReadersExcludeWriter',
         \A r \in States :
           destroyed[r] => UNCHANGED <<writer_owner[r], reader_owners[r]>>,
         \A r \in States : \A u \in sleepers[r] \ {t} :
           Admissible(u, r)' => Admissible(u, r)
  PROVE  IInv'
<1> USE DEF IInv, Return
<1>1. \A r \in States : t \notin sleepers[r]
  BY DEF SleepersWait
<1>2. DestroyedIsUnused'
  BY RwStatesAssumption DEF DestroyedIsUnused, Unreferenced, RwTypeOK
<1>3. CallShape'
  BY DEF CallShape, RwTypeOK
<1>4. SleepersWait'
  BY <1>1 DEF SleepersWait, RwTypeOK
<1>5. NoLostWakeup'
  <2> SUFFICES ASSUME NEW r \in States, NEW u \in sleepers[r], Admissible(u, r)'
               PROVE  \E v \in Threads : pc'[v] = "notifying" /\ arc'[v] = r
    BY DEF NoLostWakeup
  <2>1. Admissible(u, r)
    BY <1>1
  <2>2. PICK v \in Threads : pc[v] = "notifying" /\ arc[v] = r
    BY <2>1 DEF NoLostWakeup
  <2> QED
    BY <2>2 DEF RwTypeOK
<1> QED
  BY <1>2, <1>3, <1>4, <1>5

LEMMA LeavePreserves ==
  ASSUME IInv, NEW t \in Threads, pc[t] \in {"entered", "waiting"},
         t \notin sleepers[arc[t]],
         NEW code \in RwCodes, Refuse(t, code), UNCHANGED sleepers,
         \/ /\ op[t] \in {"rdlock", "tryrdlock"}
            /\ Unregister(t, waiting_readers, arc[t])
            /\ UNCHANGED waiting_writers
         \/ /\ op[t] \in {"wrlock", "trywrlock"}
            /\ Unregister(t, waiting_writers, arc[t])
            /\ UNCHANGED waiting_readers,
         \/ UNCHANGED waiting_writers
         \/ pc[t] = "waiting" /\ writer_owner[arc[t]] # NoThread
  PROVE  IInv'
<1> USE DEF IInv, Refuse, Return, ownerVars, heldVars
<1>1. /\ WaitersAreCounted'
      /\ waiting_readers' \in [States -> Nat]
      /\ waiting_writers' \in [States -> Nat]
  BY LeaveIsCounted
<1>2. RwTypeOK'
  BY <1>1 DEF RwTypeOK, RwPlaces, Ops
<1>3. OwnersMatchClients' /\ ReadersExcludeWriter'
  BY DEF OwnersMatchClients, ReadersExcludeWriter, Acquisitions
<1>4. ASSUME NEW r \in States, NEW u \in sleepers[r] \ {t}, Admissible(u, r)'
      PROVE  Admissible(u, r)
  <2>1. u \in Threads /\ op'[u] = op[u]
    BY DEF RwTypeOK
  <2>2. waiting_writers'[r] = waiting_writers[r] \/ writer_owner[r] # NoThread
    BY LoopCall DEF Unregister, RwTypeOK
  <2> QED
    BY <1>4, <2>1, <2>2 DEF Admissible, MayRead, MayWrite
<1> QED
  BY <1>1, <1>2, <1>3, <1>4, ReturnPreserves

LEMMA TakeReadPreserves ==
  ASSUME IInv, NEW t \in Threads, NEW s \in States, arc[t] = s,
         pc[t] \in {"entered", "waiting"}, t \notin sleepers[s],
         op[t] \in {"rdlock", "tryrdlock"}, ~destroyed[s], TakeRead(t, s),
         Unregister(t, waiting_readers, s), UNCHANGED <<waiting_writers, sleepers>>
  PROVE  IInv'
<1> USE DEF IInv
<1>1. CASE reader_owners[s][t] = MaxCount \/ total_readers[s] = MaxCount
  <2>1. Refuse(t, "EAGAIN") /\ "EAGAIN" \in RwCodes
    BY <1>1 DEF TakeRead, RwCodes
  <2> QED
    BY <2>1, LeavePreserves
<1>2. CASE ~(reader_owners[s][t] = MaxCount \/ total_readers[s] = MaxCount)
  <2>1. /\ reader_owners' = [reader_owners EXCEPT ![s][t] = @ + 1]
        /\ total_readers' = [total_readers EXCEPT ![s] = @ + 1]
        /\ reads' = [reads EXCEPT ![t] = @ + 1]
        /\ Return(t, "OK")
        /\ UNCHANGED <<writer_owner, writes>>
        /\ MayRead(t, s)
    BY <1>2 DEF TakeRead
  <2> USE <2>1
  <2>2. "OK" \in RwCodes
    BY DEF RwCodes
  <2>3. /\ WaitersAreCounted'
        /\ waiting_readers' \in [States -> Nat]
        /\ waiting_writers' \in [States -> Nat]
    BY <2>2, LeaveIsCounted
  <2>4. /\ reader_owners[s][t] \in 0..MaxCount /\ reader_owners[s][t] + 1 \in 0..MaxCount
        /\ total_readers[s] \in 0..MaxCount /\ total_readers[s] + 1 \in 0..MaxCount
    <3>1. reader_owners[s][t] \in 0..MaxCount /\ total_readers[s] \in 0..MaxCount
      BY DEF RwTypeOK
    <3> QED
      BY <1>2, <3>1, RwCountAssumption
  <2>5. RwTypeOK'
    <3>1. reader_owners' \in [States -> [Threads -> 0..MaxCount]]
      BY <2>4 DEF RwTypeOK
    <3>2. total_readers' \in [States -> 0..MaxCount]
      BY <2>4 DEF RwTypeOK
    <3>3. reads' \in [Threads -> Nat]
      BY DEF RwTypeOK
    <3> QED
      BY <2>3, <3>1, <3>2, <3>3 DEF RwTypeOK, RwPlaces, Ops, RwCodes, Return
  <2>6. entry = s /\ s # NoState
    BY LoopCall, RwStatesAssumption
  <2>7. OwnersMatchClients'
    <3>1. \A u \in Threads : /\ reads'[u] = reader_owners'[s][u]
                             /\ writes'[u] <=> writer_owner'[s] = u
      BY <2>6 DEF OwnersMatchClients, RwTypeOK
    <3>2. \A r \in States : total_readers'[r] = Cardinality(Acquisitions(r)')
      <4>1. /\ Cardinality(Acquisitions(s)') = Cardinality(Acquisitions(s)) + 1
            /\ \A r \in States \ {s} : Acquisitions(r)' = Acquisitions(r)
        BY <1>2, AcquisitionsGrow
      <4>2. total_readers'[s] = Cardinality(Acquisitions(s)')
        BY <4>1 DEF OwnersMatchClients, RwTypeOK
      <4>3. \A r \in States \ {s} : total_readers'[r] = Cardinality(Acquisitions(r)')
        BY <4>1 DEF OwnersMatchClients, RwTypeOK
      <4> QED
        BY <4>2, <4>3
    <3> QED
      BY <2>6, <3>1, <3>2 DEF OwnersMatchClients, Return
  <2>8. ReadersExcludeWriter'
    BY DEF ReadersExcludeWriter, MayRead, RwTypeOK
  <2>9. \A r \in States : destroyed[r] => UNCHANGED <<writer_owner[r], reader_owners[r]>>
    BY DEF RwTypeOK
  <2>10. ASSUME NEW r \in States, NEW u \in sleepers[r] \ {t}, Admissible(u, r)'
         PROVE  Admissible(u, r)
    <3>1. u \in Threads /\ op'[u] = op[u] /\ u # t
      BY DEF RwTypeOK, Return
    <3>2. reader_owners'[r][u] = reader_owners[r][u]
      BY <3>1 DEF RwTypeOK
    <3>3. total_readers'[r] = 0 => total_readers[r] = 0
      BY <2>4 DEF RwTypeOK
    <3> QED
      BY <2>10, <3>1, <3>2, <3>3 DEF Admissible, MayRead, MayWrite
  <2> QED
    BY <2>2, <2>3, <2>5, <2>7, <2>8, <2>9, <2>10, ReturnPreserves
<1> QED
  BY <1>1, <1>2

LEMMA TakeWritePreserves ==
  ASSUME IInv, NEW t \in Threads, NEW s \in States, arc[t] = s,
         pc[t] \in {"entered", "waiting"}, t \notin sleepers[s],
         op[t] \in {"wrlock", "trywrlock"}, ~destroyed[s], TakeWrite(t, s),
         Unregister(t, waiting_writers, s), UNCHANGED <<waiting_readers, sleepers>>
  PROVE  IInv'
<1> USE DEF IInv, TakeWrite
<1>1. "OK" \in RwCodes
  BY DEF RwCodes
<1>2. /\ WaitersAreCounted'
      /\ waiting_readers' \in [States -> Nat]
      /\ waiting_writers' \in [States -> Nat]
  BY <1>1, LeaveIsCounted
<1>3. RwTypeOK'
  BY <1>2 DEF RwTypeOK, RwPlaces, Ops, RwCodes, Return
<1>4. entry = s /\ s # NoState
  BY LoopCall, RwStatesAssumption
<1>5. OwnersMatchClients'
  BY <1>4, RwThreadsAssumption
  DEF OwnersMatchClients, Acquisitions, MayWrite, Return, RwTypeOK
<1>6. ReadersExcludeWriter'
  BY DEF ReadersExcludeWriter, MayWrite, RwTypeOK
<1>7. \A r \in States : destroyed[r] => UNCHANGED <<writer_owner[r], reader_owners[r]>>
  BY DEF RwTypeOK
<1>8. ASSUME NEW r \in States, NEW u \in sleepers[r] \ {t}, Admissible(u, r)'
      PROVE  Admissible(u, r)
  <2>1. u \in Threads /\ op'[u] = op[u]
    BY DEF RwTypeOK, Return
  <2>2. writer_owner'[r] = NoThread => r # s
    BY RwThreadsAssumption DEF RwTypeOK
  <2>3. r # s => /\ waiting_writers'[r] = waiting_writers[r]
                 /\ writer_owner'[r] = writer_owner[r]
    BY DEF Unregister, RwTypeOK
  <2> QED
    BY <1>8, <2>1, <2>2, <2>3 DEF Admissible, MayRead, MayWrite
<1> QED
  BY <1>1, <1>2, <1>3, <1>5, <1>6, <1>7, <1>8, ReturnPreserves

(* A thread that goes to sleep, for the first time or again, is refused by *)
(* the state it sleeps on.                                                 *)
LEMMA SleepPreserves ==
  ASSUME IInv, NEW t \in Threads, NEW s \in States, arc[t] = s,
         pc[t] \in {"entered", "waiting"}, t \notin sleepers[s], ~destroyed[s],
         \/ /\ op[t] = "rdlock" /\ ~MayRead(t, s)
            /\ Register(t, waiting_readers, s) /\ UNCHANGED waiting_writers
         \/ /\ op[t] = "wrlock" /\ ~MayWrite(s)
            /\ Register(t, waiting_writers, s) /\ UNCHANGED waiting_readers,
         Sleep(t, s)
  PROVE  IInv'
<1> USE DEF IInv, Sleep, ownerVars, heldVars
<1>1. entry = s /\ s # NoState
  BY LoopCall, RwStatesAssumption
<1>2. \A r \in States : \A g :
        Waiters(r, g)' = IF r = s /\ g = op[t] THEN Waiters(r, g) \cup {t}
                                               ELSE Waiters(r, g)
  BY DEF Waiters, RwTypeOK
<1>3. ASSUME NEW waiting, NEW g \in {"rdlock", "wrlock"}, op[t] = g,
             waiting = Cardinality(Waiters(s, g))
      PROVE  Cardinality(Waiters(s, g)') = IF pc[t] = "waiting" THEN waiting
                                                                ELSE waiting + 1
  <2>1. t \in Waiters(s, g) <=> pc[t] = "waiting"
    BY <1>3 DEF Waiters
  <2>2. Waiters(s, g)' = Waiters(s, g) \cup {t}
    BY <1>2, <1>3
  <2>3. Cardinality(Waiters(s, g) \cup {t}) =
          IF t \in Waiters(s, g) THEN Cardinality(Waiters(s, g))
                                 ELSE Cardinality(Waiters(s, g)) + 1
    BY WaitersFinite, FS_AddElement
  <2> QED
    BY <1>3, <2>1, <2>2, <2>3
<1>0. waiting_readers \in [States -> Nat] /\ waiting_writers \in [States -> Nat]
  BY DEF RwTypeOK
<1>4. /\ \A r \in States : waiting_readers'[r] = Cardinality(Waiters(r, "rdlock")')
      /\ waiting_readers' \in [States -> Nat]
      /\ \A r \in States : waiting_writers'[r] = Cardinality(Waiters(r, "wrlock")')
      /\ waiting_writers' \in [States -> Nat]
  <2>1. CASE op[t] = "rdlock"
    <3>0. \/ waiting_readers' = [waiting_readers EXCEPT ![s] = @ + 1]
          \/ UNCHANGED waiting_readers
      BY <2>1 DEF Register
    <3>1. /\ Register(t, waiting_readers, s)
          /\ UNCHANGED waiting_writers
      BY <2>1
    <3>2. waiting_readers'[s] = Cardinality(Waiters(s, "rdlock")')
      BY <1>3, <2>1, <3>1 DEF Register, WaitersAreCounted, RwTypeOK
    <3>3. \A r \in States \ {s} : waiting_readers'[r] = Cardinality(Waiters(r, "rdlock")')
      BY <1>2, <3>1 DEF Register, WaitersAreCounted, RwTypeOK
    <3>4. \A r \in States : waiting_writers'[r] = Cardinality(Waiters(r, "wrlock")')
      BY <1>2, <2>1, <3>1 DEF WaitersAreCounted
    <3>5. waiting_readers' \in [States -> Nat] /\ waiting_writers' \in [States -> Nat]
      BY <1>0, <3>0, <3>1
    <3> QED
      BY <3>2, <3>3, <3>4, <3>5
  <2>2. CASE op[t] = "wrlock"
    <3>0. \/ waiting_writers' = [waiting_writers EXCEPT ![s] = @ + 1]
          \/ UNCHANGED waiting_writers
      BY <2>2 DEF Register
    <3>1. /\ Register(t, waiting_writers, s)
          /\ UNCHANGED waiting_readers
      BY <2>2
    <3>2. waiting_writers'[s] = Cardinality(Waiters(s, "wrlock")')
      BY <1>3, <2>2, <3>1 DEF Register, WaitersAreCounted, RwTypeOK
    <3>3. \A r \in States \ {s} : waiting_writers'[r] = Cardinality(Waiters(r, "wrlock")')
      BY <1>2, <3>1 DEF Register, WaitersAreCounted, RwTypeOK
    <3>4. \A r \in States : waiting_readers'[r] = Cardinality(Waiters(r, "rdlock")')
      BY <1>2, <2>2, <3>1 DEF WaitersAreCounted
    <3>5. waiting_readers' \in [States -> Nat] /\ waiting_writers' \in [States -> Nat]
      BY <1>0, <3>0, <3>1
    <3> QED
      BY <3>2, <3>3, <3>4, <3>5
  <2> QED
    BY <2>1, <2>2
<1>5. RwTypeOK'
  <2>1. sleepers' \in [States -> SUBSET Threads] /\ pc' \in [Threads -> RwPlaces]
    BY DEF RwTypeOK, RwPlaces
  <2> QED
    BY <1>4, <2>1 DEF RwTypeOK
<1>6. OwnersMatchClients' /\ ReadersExcludeWriter'
  BY DEF OwnersMatchClients, ReadersExcludeWriter, Acquisitions
<1>7. DestroyedIsUnused'
  BY DEF DestroyedIsUnused, Unreferenced, RwTypeOK
<1>8. \A r \in States : (sleepers[r] = {} \/ Live(r))'
  BY <1>1 DEF WaitersAreCounted, Live, RwTypeOK
<1>9. CallShape'
  BY <1>1 DEF CallShape, RwTypeOK
<1>10. SleepersWait'
  BY DEF SleepersWait, RwTypeOK
<1>11. NoLostWakeup'
  <2> SUFFICES ASSUME NEW r \in States, NEW u \in sleepers'[r], Admissible(u, r)'
               PROVE  \E v \in Threads : pc'[v] = "notifying" /\ arc'[v] = r
    BY DEF NoLostWakeup
  <2>1. u \in Threads /\ (u = t => r = s) /\ (u # t => u \in sleepers[r])
    BY DEF RwTypeOK, SleepersWait
  <2>2. waiting_writers'[r] = 0 => waiting_writers[r] = 0
    BY DEF Register, RwTypeOK
  <2>3. Admissible(u, r)
    BY <2>1, <2>2 DEF Admissible, MayRead, MayWrite
  <2>4. u # t
    BY <2>1, <2>3 DEF Admissible
  <2>5. PICK v \in Threads : pc[v] = "notifying" /\ arc[v] = r
    BY <2>1, <2>3, <2>4 DEF NoLostWakeup
  <2> QED
    BY <2>5 DEF RwTypeOK
<1> QED
  BY <1>4, <1>5, <1>6, <1>7, <1>8, <1>9, <1>10, <1>11 DEF WaitersAreCounted

LEMMA LockPassPreserves ==
  ASSUME IInv, NEW t \in Threads, LockPass(t)
  PROVE  IInv'
<1>1. pc[t] \in {"entered", "waiting"} /\ t \notin sleepers[arc[t]]
  BY DEF LockPass, IInv, SleepersWait, CallShape, RwTypeOK
<1>2. PICK s \in States : s = arc[t]
  BY <1>1, LoopCall
<1>3. ASSUME NEW try_only \in BOOLEAN, ReadPass(t, s, try_only),
             op[t] = IF try_only THEN "tryrdlock" ELSE "rdlock"
      PROVE  IInv'
  <2>1. CASE ~destroyed[s] /\ TakeRead(t, s) /\ Unregister(t, waiting_readers, s)
             /\ UNCHANGED <<waiting_writers, sleepers>>
    BY <1>1, <1>2, <1>3, <2>1, TakeReadPreserves
  <2>2. CASE /\ \E code \in RwCodes : Refuse(t, code)
             /\ Unregister(t, waiting_readers, s)
             /\ UNCHANGED <<waiting_writers, sleepers>>
    BY <1>1, <1>2, <1>3, <2>2, LeavePreserves
  <2>3. CASE try_only /\ Refuse(t, "EBUSY") /\ UNCHANGED waitVars
    <3>1. pc[t] = "entered"
      BY <1>1, <1>3, <2>3 DEF IInv, CallShape
    <3> QED
      BY <2>3, <3>1, RefusePreserves DEF RwCodes
  <2>4. CASE /\ ~try_only /\ ~destroyed[s] /\ ~MayRead(t, s)
             /\ Register(t, waiting_readers, s) /\ Sleep(t, s)
             /\ UNCHANGED waiting_writers
    BY <1>1, <1>2, <1>3, <2>4, SleepPreserves
  <2> QED
    BY <1>3, <2>1, <2>2, <2>3, <2>4 DEF ReadPass, RwCodes
<1>4. ASSUME NEW try_only \in BOOLEAN, WritePass(t, s, try_only),
             op[t] = IF try_only THEN "trywrlock" ELSE "wrlock"
      PROVE  IInv'
  <2>1. CASE ~destroyed[s] /\ TakeWrite(t, s) /\ Unregister(t, waiting_writers, s)
             /\ UNCHANGED <<waiting_readers, sleepers>>
    BY <1>1, <1>2, <1>4, <2>1, TakeWritePreserves
  <2>2. CASE /\ \E code \in RwCodes : Refuse(t, code)
             /\ destroyed[s] \/ writer_owner[s] = t
             /\ Unregister(t, waiting_writers, s)
             /\ UNCHANGED <<waiting_readers, sleepers>>
    <3>1. \/ UNCHANGED waiting_writers
          \/ pc[t] = "waiting" /\ writer_owner[s] # NoThread
      BY <1>1, <1>2, <2>2, LoopCall, RwThreadsAssumption DEF Unregister
    <3> QED
      BY <1>1, <1>2, <1>4, <2>2, <3>1, LeavePreserves
  <2>3. CASE try_only /\ Refuse(t, "EBUSY") /\ UNCHANGED waitVars
    <3>1. pc[t] = "entered"
      BY <1>1, <1>4, <2>3 DEF IInv, CallShape
    <3> QED
      BY <2>3, <3>1, RefusePreserves DEF RwCodes
  <2>4. CASE /\ ~try_only /\ ~destroyed[s] /\ ~MayWrite(s)
             /\ Register(t, waiting_writers, s) /\ Sleep(t, s)
             /\ UNCHANGED waiting_readers
    BY <1>1, <1>2, <1>4, <2>4, SleepPreserves
  <2> QED
    BY <1>4, <2>1, <2>2, <2>3, <2>4 DEF WritePass, RwCodes
<1> QED
  BY <1>2, <1>3, <1>4 DEF LockPass

LEMMA SpuriousWakePreserves ==
  ASSUME IInv, NEW t \in Threads, SpuriousWake(t)
  PROVE  IInv'
<1> USE DEF IInv, SpuriousWake, ownerVars, heldVars
<1>1. \A r \in States : sleepers'[r] \subseteq sleepers[r]
  BY DEF RwTypeOK
<1>2. RwTypeOK'
  BY DEF RwTypeOK
<1>3. OwnersMatchClients' /\ DestroyedIsUnused' /\ CallShape' /\ ReadersExcludeWriter'
  BY DEF OwnersMatchClients, Acquisitions, DestroyedIsUnused, Unreferenced,
         CallShape, ReadersExcludeWriter
<1>4. WaitersAreCounted'
  BY <1>1 DEF WaitersAreCounted, Waiters, Live
<1>5. SleepersWait' /\ NoLostWakeup'
  BY <1>1 DEF SleepersWait, NoLostWakeup, Admissible, MayRead, MayWrite
<1> QED
  BY <1>2, <1>3, <1>4, <1>5

---------------------------------------------------------------------------
(* rwlock_unlock_internal.                                                 *)
(* A thread that is in no wait loop, before or after, changes no count.    *)
LEMMA WaitersStay ==
  ASSUME IInv, NEW t \in Threads, pc[t] # "waiting", NEW p \in RwPlaces,
         p # "waiting", pc' = [pc EXCEPT ![t] = p],
         \A u \in Threads \ {t} : UNCHANGED <<arc[u], op[u]>>
  PROVE  \A r \in States : \A g : Waiters(r, g)' = Waiters(r, g)
BY DEF IInv, RwTypeOK, Waiters

LEMMA UnlockPassPreserves ==
  ASSUME IInv, NEW t \in Threads, UnlockPass(t)
  PROVE  IInv'
<1> USE DEF IInv
<1>0. pc[t] = "entered" /\ op[t] = "unlock" /\ UNCHANGED waitVars
  BY DEF UnlockPass
<1>1. PICK s \in States : s = arc[t]
  BY <1>0, LoopCall
<1>2. CASE \E code \in RwCodes : Refuse(t, code)
  BY <1>0, <1>2, RefusePreserves
<1>3. ASSUME ~destroyed[s], UnlockWriter(t, s) \/ UnlockReader(t, s)
      PROVE  IInv'
  <2>1. entry = s /\ s # NoState
    BY <1>0, <1>1, <1>3, LoopCall, RwStatesAssumption
  <2>2. /\ UNCHANGED <<entry, destroyed, sleepers, waiting_readers, waiting_writers>>
        /\ pc' \in {[pc EXCEPT ![t] = "notifying"], [pc EXCEPT ![t] = "out"]}
        /\ \A u \in Threads \ {t} : UNCHANGED <<arc[u], op[u]>>
        /\ pc'[t] = "notifying" => UNCHANGED <<arc, op>>
        /\ pc'[t] = "out" => arc'[t] = NoState
        /\ op' \in [Threads -> Ops] /\ arc' \in [Threads -> States \cup {NoState}]
        /\ rw_result' \in RwCodes
    BY <1>0, <1>3 DEF UnlockWriter, UnlockReader, Return, waitVars, RwTypeOK, Ops, RwCodes
  <2>3. \A u \in Threads : t \notin sleepers[s] /\ (u # t => pc'[u] = pc[u])
    BY <1>0, <2>2 DEF SleepersWait, RwTypeOK
  <2>4. \A r \in States : \A g : Waiters(r, g)' = Waiters(r, g)
    BY <1>0, <2>2, WaitersStay DEF RwPlaces
  <2>5. WaitersAreCounted'
    BY <2>2, <2>4 DEF WaitersAreCounted, Live
  <2>6. CallShape'
    BY <1>0, <1>1, <2>1, <2>2 DEF CallShape, RwTypeOK
  <2>7. SleepersWait'
    BY <1>0, <2>2 DEF SleepersWait, RwTypeOK
  <2>8. ASSUME NEW r \in States
        PROVE  destroyed[r] => r # s
    BY <1>3
  <2>9. CASE UnlockWriter(t, s)
    <3> USE <2>9 DEF UnlockWriter
    <3>1. RwTypeOK'
      BY <2>2 DEF RwTypeOK, RwPlaces
    <3>2. OwnersMatchClients'
      BY <2>1, RwThreadsAssumption DEF OwnersMatchClients, Acquisitions, RwTypeOK
    <3>3. ReadersExcludeWriter'
      BY RwThreadsAssumption DEF ReadersExcludeWriter, RwTypeOK
    <3>4. DestroyedIsUnused'
      BY <2>1, <2>2, <2>8, RwStatesAssumption
      DEF DestroyedIsUnused, Unreferenced, RwTypeOK
    <3>5. NoLostWakeup'
      <4> SUFFICES ASSUME NEW r \in States, NEW u \in sleepers[r], Admissible(u, r)'
                   PROVE  \E v \in Threads : pc'[v] = "notifying" /\ arc'[v] = r
        BY <2>2 DEF NoLostWakeup
      <4>1. CASE r = s
        BY <1>1, <4>1 DEF RwTypeOK
      <4>2. CASE r # s
        <5>1. Admissible(u, r)
          BY <2>2, <4>2 DEF Admissible, MayRead, MayWrite, RwTypeOK
        <5>2. PICK v \in Threads : pc[v] = "notifying" /\ arc[v] = r
          BY <5>1 DEF NoLostWakeup
        <5> QED
          BY <1>0, <5>2 DEF RwTypeOK
      <4> QED
        BY <4>1, <4>2
    <3> QED
      BY <2>5, <2>6, <2>7, <3>1, <3>2, <3>3, <3>4, <3>5
  <2>10. CASE UnlockReader(t, s)
    <3> USE <2>10 DEF UnlockReader
    <3>0. /\ reader_owners[s][t] \in 1..MaxCount
          /\ total_readers[s] \in 1..MaxCount
      <4>1. reader_owners[s][t] \in 0..MaxCount /\ total_readers[s] \in 0..MaxCount
        BY DEF RwTypeOK
      <4>2. total_readers[s] > 0
        BY AcquisitionsShrink DEF OwnersMatchClients
      <4> QED
        BY <4>1, <4>2, RwCountAssumption
    <3>1. RwTypeOK'
      <4>1. /\ reader_owners[s][t] - 1 \in 0..MaxCount
            /\ total_readers[s] - 1 \in 0..MaxCount
        BY <3>0, RwCountAssumption
      <4>2. reader_owners' \in [States -> [Threads -> 0..MaxCount]]
        BY <4>1 DEF RwTypeOK
      <4>3. total_readers' \in [States -> 0..MaxCount]
        BY <4>1 DEF RwTypeOK
      <4>4. reads[t] = reader_owners[s][t]
        BY <2>1 DEF OwnersMatchClients
      <4>5. reads[t] - 1 \in Nat
        BY <3>0, <4>4, RwCountAssumption
      <4>6. reads' \in [Threads -> Nat]
        BY <4>5 DEF RwTypeOK
      <4> QED
        BY <2>2, <4>2, <4>3, <4>6 DEF RwTypeOK, RwPlaces
    <3>2. OwnersMatchClients'
      <4>1. \A u \in Threads : /\ reads'[u] = reader_owners'[s][u]
                               /\ writes'[u] <=> writer_owner'[s] = u
        BY <2>1 DEF OwnersMatchClients, RwTypeOK
      <4>2. /\ Cardinality(Acquisitions(s)') = Cardinality(Acquisitions(s)) - 1
            /\ \A r \in States \ {s} : Acquisitions(r)' = Acquisitions(r)
        BY AcquisitionsShrink
      <4>3. total_readers'[s] = Cardinality(Acquisitions(s)')
        BY <4>2 DEF OwnersMatchClients, RwTypeOK
      <4>4. \A r \in States \ {s} : total_readers'[r] = Cardinality(Acquisitions(r)')
        BY <4>2 DEF OwnersMatchClients, RwTypeOK
      <4> QED
        BY <2>1, <2>2, <4>1, <4>3, <4>4 DEF OwnersMatchClients
    <3>3. writer_owner[s] = NoThread
      BY <3>0, RwCountAssumption DEF ReadersExcludeWriter
    <3>4. ReadersExcludeWriter'
      BY <3>3 DEF ReadersExcludeWriter, RwTypeOK
    <3>5. DestroyedIsUnused'
      <4>1. \A u \in Threads : /\ arc'[u] \in {arc[u], NoState}
                               /\ pc'[u] = "waiting" => pc[u] = "waiting"
        BY <2>2 DEF RwTypeOK
      <4>2. \A r \in States \ {s} : reader_owners'[r] = reader_owners[r]
        BY DEF RwTypeOK
      <4> QED
        BY <2>1, <2>2, <2>8, <4>1, <4>2, RwStatesAssumption
        DEF DestroyedIsUnused, Unreferenced
    <3>6. NoLostWakeup'
      <4> SUFFICES ASSUME NEW r \in States, NEW u \in sleepers[r], Admissible(u, r)'
                   PROVE  \E v \in Threads : pc'[v] = "notifying" /\ arc'[v] = r
        BY <2>2 DEF NoLostWakeup
      <4>1. CASE r = s /\ total_readers'[s] = 0
        <5>1. pc' = [pc EXCEPT ![t] = "notifying"] /\ UNCHANGED arc
          BY <4>1
        <5> QED
          BY <1>1, <4>1, <5>1 DEF RwTypeOK
      <4>2. CASE r # s \/ total_readers'[s] # 0
        <5>1. u \in Threads /\ u # t /\ op'[u] = op[u]
          BY <1>0, <2>2 DEF SleepersWait, RwTypeOK
        <5>2. /\ reader_owners'[r][u] = reader_owners[r][u]
              /\ total_readers'[r] = 0 => total_readers[r] = 0
          BY <4>2, <5>1 DEF RwTypeOK
        <5>3. Admissible(u, r)
          BY <2>2, <5>1, <5>2 DEF Admissible, MayRead, MayWrite
        <5>4. PICK v \in Threads : pc[v] = "notifying" /\ arc[v] = r
          BY <5>3 DEF NoLostWakeup
        <5>5. v # t
          BY <1>0, <5>4
        <5> QED
          BY <2>2, <2>3, <5>4, <5>5
      <4> QED
        BY <4>1, <4>2
    <3> QED
      BY <2>5, <2>6, <2>7, <3>1, <3>2, <3>4, <3>5, <3>6
  <2> QED
    BY <1>3, <2>9, <2>10
<1> QED
  BY <1>1, <1>2, <1>3 DEF UnlockPass, RwCodes

LEMMA NotifyPreserves ==
  ASSUME IInv, NEW t \in Threads, Notify(t)
  PROVE  IInv'
<1> USE DEF IInv, Notify, Return, ownerVars, heldVars
<1>1. PICK s \in States : s = arc[t]
  BY DEF CallShape, RwTypeOK
<1>2. \A r \in States : sleepers'[r] = IF r = s THEN {} ELSE sleepers[r]
  BY <1>1 DEF RwTypeOK
<1>3. RwTypeOK'
  BY DEF RwTypeOK, RwPlaces, Ops, RwCodes
<1>4. OwnersMatchClients' /\ ReadersExcludeWriter'
  BY DEF OwnersMatchClients, ReadersExcludeWriter, Acquisitions
<1>5. DestroyedIsUnused'
  BY RwStatesAssumption DEF DestroyedIsUnused, Unreferenced, RwTypeOK
<1>6. \A r \in States : \A g : Waiters(r, g)' = Waiters(r, g)
  BY DEF Waiters, RwTypeOK
<1>7. WaitersAreCounted'
  BY <1>2, <1>6 DEF WaitersAreCounted, Live
<1>8. CallShape'
  BY DEF CallShape, RwTypeOK
<1>9. SleepersWait'
  BY <1>2 DEF SleepersWait, RwTypeOK
<1>10. NoLostWakeup'
  <2> SUFFICES ASSUME NEW r \in States, NEW u \in sleepers'[r], Admissible(u, r)'
               PROVE  \E v \in Threads : pc'[v] = "notifying" /\ arc'[v] = r
    BY DEF NoLostWakeup
  <2>1. r # s /\ u \in sleepers[r] /\ u # t /\ u \in Threads
    BY <1>2 DEF SleepersWait, RwTypeOK
  <2>2. Admissible(u, r)
    BY <2>1 DEF Admissible, MayRead, MayWrite, RwTypeOK
  <2>3. PICK v \in Threads : pc[v] = "notifying" /\ arc[v] = r
    BY <2>1, <2>2 DEF NoLostWakeup
  <2> QED
    BY <1>1, <2>1, <2>3 DEF RwTypeOK
<1> QED
  BY <1>3, <1>4, <1>5, <1>7, <1>8, <1>9, <1>10

---------------------------------------------------------------------------
(* pthread_rwlock_destroy.                                                 *)
LEMMA MarkDestroyedPreserves ==
  ASSUME IInv, NEW t \in Threads, MarkDestroyed(t)
  PROVE  IInv'
<1> USE DEF IInv
<1>0. pc[t] = "entered" /\ op[t] = "destroy" /\ UNCHANGED waitVars
  BY DEF MarkDestroyed
<1>1. PICK s \in States : s = arc[t]
  BY <1>0, LoopCall
<1>2. CASE \E code \in RwCodes : Refuse(t, code)
  BY <1>0, <1>2, RefusePreserves
<1>3. CASE /\ ~InUse(s)
           /\ destroyed' = [destroyed EXCEPT ![s] = TRUE]
           /\ pc' = [pc EXCEPT ![t] = "removing"]
           /\ UNCHANGED <<entry, arc, op, rw_result, ownerVars, heldVars>>
  <2> USE <1>3 DEF ownerVars, heldVars, waitVars
  <2>1. /\ writer_owner[s] = NoThread /\ total_readers[s] = 0
        /\ waiting_readers[s] = 0 /\ waiting_writers[s] = 0
    BY DEF InUse
  <2>2. reader_owners[s] = Nobody
    BY <2>1, NoAcquisitions DEF OwnersMatchClients
  <2>3. Waiters(s, "rdlock") = {} /\ Waiters(s, "wrlock") = {}
    BY <2>1, WaitersFinite, FS_EmptySet DEF WaitersAreCounted
  <2>4. \A u \in Threads : arc[u] = s => pc[u] # "waiting"
    BY <2>3 DEF Waiters, CallShape
  <2>5. sleepers[s] = {}
    BY <2>4 DEF SleepersWait, RwTypeOK
  <2>6. RwTypeOK'
    BY <1>0 DEF RwTypeOK, RwPlaces
  <2>7. OwnersMatchClients'
    BY DEF OwnersMatchClients, Acquisitions
  <2>8. DestroyedIsUnused'
    BY <1>0, <2>1, <2>2, <2>4 DEF DestroyedIsUnused, Unreferenced, RwTypeOK
  <2>9. \A r \in States : \A g : Waiters(r, g)' = Waiters(r, g)
    BY <1>0, WaitersStay DEF RwPlaces
  <2>10. WaitersAreCounted'
    BY <1>0, <2>5, <2>9 DEF WaitersAreCounted, Live, RwTypeOK
  <2>11. CallShape'
    BY <1>0, <1>1, RwStatesAssumption DEF CallShape, RwTypeOK
  <2>12. SleepersWait'
    BY <1>0 DEF SleepersWait, RwTypeOK
  <2>13. NoLostWakeup'
    BY <1>0 DEF NoLostWakeup, Admissible, MayRead, MayWrite, RwTypeOK
  <2>14. ReadersExcludeWriter'
    BY DEF ReadersExcludeWriter
  <2> QED
    BY <2>6, <2>7, <2>8, <2>10, <2>11, <2>12, <2>13, <2>14
<1> QED
  BY <1>1, <1>2, <1>3 DEF MarkDestroyed, RwCodes

LEMMA RemovePreserves ==
  ASSUME IInv, NEW t \in Threads, Remove(t)
  PROVE  IInv'
<1> USE DEF IInv, Remove, ownerVars, heldVars
<1>1. PICK s \in States : s = arc[t]
  BY DEF CallShape, RwTypeOK
<1>2. /\ destroyed[s] /\ writer_owner[s] = NoThread /\ reader_owners[s] = Nobody
      /\ sleepers[s] = {}
  BY <1>1 DEF CallShape, DestroyedIsUnused, WaitersAreCounted, Live
<1>3. UNCHANGED sleepers
  BY <1>1, <1>2 DEF RwTypeOK
<1>4. RwTypeOK'
  BY <1>3 DEF RwTypeOK, RwPlaces, Ops, RwCodes
<1>5. OwnersMatchClients'
  BY <1>1, <1>2, RwThreadsAssumption DEF OwnersMatchClients, Acquisitions, Nobody
<1>6. DestroyedIsUnused'
  BY <1>1, <1>2, RwStatesAssumption DEF DestroyedIsUnused, Unreferenced, RwTypeOK
<1>7. \A r \in States : \A g : Waiters(r, g)' = Waiters(r, g)
  BY DEF Waiters, RwTypeOK
<1>8. WaitersAreCounted'
  BY <1>1, <1>2, <1>3, <1>7 DEF WaitersAreCounted, Live
<1>9. CallShape' /\ SleepersWait' /\ ReadersExcludeWriter'
  BY <1>3 DEF CallShape, SleepersWait, ReadersExcludeWriter, RwTypeOK
<1>10. NoLostWakeup'
  BY <1>3 DEF NoLostWakeup, SleepersWait, Admissible, MayRead, MayWrite, RwTypeOK
<1> QED
  BY <1>4, <1>5, <1>6, <1>8, <1>9, <1>10

---------------------------------------------------------------------------
LEMMA InitEstablishes == Init => IInv
<1> SUFFICES ASSUME Init PROVE IInv
  OBVIOUS
<1> USE DEF Init
<1>1. RwTypeOK
  <2>1. 0 \in 0..MaxCount /\ Nobody \in [Threads -> 0..MaxCount]
    BY RwCountAssumption DEF Nobody
  <2>2. reads \in [Threads -> Nat]
    BY DEF Nobody
  <2> QED
    BY <2>1, <2>2 DEF RwTypeOK, Ops, RwPlaces, RwCodes
<1>2. OwnersMatchClients
  <2>1. \A s \in States : Cardinality(Acquisitions(s)) = 0
    BY NobodyAcquired
  <2> QED
    BY <2>1 DEF OwnersMatchClients, Nobody
<1>3. DestroyedIsUnused
  BY RwStatesAssumption DEF DestroyedIsUnused, Unreferenced
<1>4. WaitersAreCounted
  <2>1. \A s \in States : \A g : Waiters(s, g) = {}
    BY DEF Waiters
  <2> QED
    BY <2>1, FS_EmptySet DEF WaitersAreCounted
<1>5. NoLostWakeup /\ CallShape /\ SleepersWait /\ ReadersExcludeWriter
  BY DEF NoLostWakeup, CallShape, SleepersWait, ReadersExcludeWriter
<1> QED
  BY <1>1, <1>2, <1>3, <1>4, <1>5 DEF IInv

LEMMA StepPreserves == IInv /\ [Next]_vars => IInv'
<1> SUFFICES ASSUME IInv, [Next]_vars PROVE IInv'
  OBVIOUS
<1>1. CASE UNCHANGED vars
  <2> USE <1>1 DEF vars, ownerVars, waitVars, heldVars, IInv
  <2>1. RwTypeOK' /\ OwnersMatchClients' /\ DestroyedIsUnused'
    BY DEF RwTypeOK, OwnersMatchClients, Acquisitions, DestroyedIsUnused,
           Unreferenced
  <2>2. WaitersAreCounted'
    BY DEF WaitersAreCounted, Waiters, Live
  <2>3. NoLostWakeup'
    BY DEF NoLostWakeup, Admissible, MayRead, MayWrite
  <2>4. CallShape' /\ SleepersWait' /\ ReadersExcludeWriter'
    BY DEF CallShape, SleepersWait, ReadersExcludeWriter
  <2> QED
    BY <2>1, <2>2, <2>3, <2>4
<1>2. ASSUME NEW t \in Threads, Call(t) PROVE IInv'
  BY <1>2, InitRwlockPreserves, EnterPreserves DEF Call
<1>3. ASSUME NEW t \in Threads, Progress(t) PROVE IInv'
  BY <1>3, LockPassPreserves, UnlockPassPreserves, NotifyPreserves,
     MarkDestroyedPreserves, RemovePreserves DEF Progress
<1>4. ASSUME NEW t \in Threads, SpuriousWake(t) PROVE IInv'
  BY <1>4, SpuriousWakePreserves
<1> QED
  BY <1>1, <1>2, <1>3, <1>4 DEF Next

LEMMA Invariance == Spec => []IInv
BY InitEstablishes, StepPreserves, PTL DEF Spec

(* The lock states are well-formed, they agree with the return codes that  *)
(* granted ownership, and a state pthread_rwlock_destroy marked is unused. *)
THEOREM StateIsSound == Spec => []RwStateIsSound
<1>1. IInv => RwStateIsSound
  BY DEF IInv, RwStateIsSound
<1> QED
  BY <1>1, Invariance, PTL

(* The waiter counts are exact and rwlock_unlock_internal's notify_all,    *)
(* sent after the state lock was dropped, is missed by no admissible       *)
(* waiter.                                                                 *)
THEOREM WaitersAreServed == Spec => []RwWaitersAreServed
<1>1. IInv => RwWaitersAreServed
  BY DEF IInv, RwWaitersAreServed
<1> QED
  BY <1>1, Invariance, PTL

---------------------------------------------------------------------------
(* Refinement of AbstractRwlock: a step that changes what a client holds,  *)
(* or whether the object exists, is one step of the abstract lock.         *)
LEMMA LiveOwners ==
  ASSUME IInv, entry # NoState
  PROVE  /\ writer_owner[entry] = NoThread => Abstract!NoWriter
         /\ total_readers[entry] = 0 => Abstract!NoReaders
<1>1. entry \in States
  BY DEF IInv, RwTypeOK
<1>2. writer_owner[entry] = NoThread => Abstract!NoWriter
  BY RwThreadsAssumption DEF IInv, OwnersMatchClients, Abstract!NoWriter
<1>3. ASSUME total_readers[entry] = 0
      PROVE  Abstract!NoReaders
  <2>1. reader_owners[entry] = Nobody
    BY <1>1, <1>3, NoAcquisitions DEF IInv, OwnersMatchClients
  <2> QED
    BY <2>1 DEF IInv, OwnersMatchClients, Nobody, Abstract!NoReaders
<1> QED
  BY <1>2, <1>3

LEMMA LockPassRefines ==
  ASSUME IInv, NEW t \in Threads, LockPass(t)
  PROVE  Abstract!Next \/ UNCHANGED Abstract!vars
<1>1. pc[t] \in {"entered", "waiting"}
  BY DEF LockPass
<1>2. PICK s \in States : s = arc[t]
  BY <1>1, LoopCall
<1>3. CASE ~destroyed[s] /\ TakeRead(t, s)
  <2>1. entry = s /\ s # NoState
    BY <1>1, <1>2, <1>3, LoopCall, RwStatesAssumption
  <2>2. Abstract!NoWriter
    BY <1>3, <2>1, LiveOwners DEF TakeRead, MayRead
  <2> QED
    BY <1>3, <2>1, <2>2
    DEF TakeRead, Refuse, Return, heldVars, Abstract!Read, Abstract!Next,
        Abstract!vars
<1>4. CASE ~destroyed[s] /\ TakeWrite(t, s)
  <2>1. entry = s /\ s # NoState
    BY <1>1, <1>2, <1>4, LoopCall, RwStatesAssumption
  <2>2. Abstract!NoWriter /\ Abstract!NoReaders
    BY <1>4, <2>1, LiveOwners DEF TakeWrite, MayWrite
  <2> QED
    BY <1>4, <2>1, <2>2
    DEF TakeWrite, Return, Abstract!Write, Abstract!Next
<1>5. CASE Sleep(t, s) \/ \E code \in RwCodes : Refuse(t, code)
  BY <1>5 DEF Sleep, Refuse, Return, heldVars, Abstract!vars
<1> QED
  BY <1>2, <1>3, <1>4, <1>5 DEF LockPass, ReadPass, WritePass, RwCodes

LEMMA UnlockPassRefines ==
  ASSUME IInv, NEW t \in Threads, UnlockPass(t)
  PROVE  Abstract!Next \/ UNCHANGED Abstract!vars
<1>1. pc[t] = "entered"
  BY DEF UnlockPass
<1>2. PICK s \in States : s = arc[t]
  BY <1>1, LoopCall
<1>3. CASE \E code \in RwCodes : Refuse(t, code)
  BY <1>3 DEF Refuse, Return, heldVars, Abstract!vars
<1>4. ASSUME ~destroyed[s], UnlockWriter(t, s) \/ UnlockReader(t, s)
      PROVE  Abstract!Next
  <2>1. entry = s /\ s # NoState
    BY <1>1, <1>2, <1>4, LoopCall, RwStatesAssumption
  <2>2. /\ UNCHANGED <<entry, destroyed>>
        /\ UnlockWriter(t, s) => writes[t] /\ UNCHANGED reads
        /\ UnlockReader(t, s) => reads[t] > 0 /\ UNCHANGED writes
    BY <1>4, <2>1
    DEF UnlockWriter, UnlockReader, Return, IInv, OwnersMatchClients
  <2>3. Abstract!Release(t)
    BY <1>4, <2>1, <2>2 DEF UnlockWriter, UnlockReader, Abstract!Release
  <2> QED
    BY <2>3 DEF Abstract!Next
<1> QED
  BY <1>2, <1>3, <1>4 DEF UnlockPass, RwCodes

LEMMA DestroyRefines ==
  ASSUME IInv, NEW t \in Threads, MarkDestroyed(t) \/ Remove(t)
  PROVE  Abstract!Next \/ UNCHANGED Abstract!vars
<1>1. PICK s \in States : s = arc[t]
  BY DEF MarkDestroyed, Remove, IInv, CallShape, RwTypeOK
<1>2. CASE \E code \in RwCodes : Refuse(t, code)
  BY <1>2 DEF Refuse, Return, heldVars, Abstract!vars
<1>3. CASE /\ pc[t] = "entered" /\ ~destroyed[s] /\ ~InUse(s)
           /\ destroyed' = [destroyed EXCEPT ![s] = TRUE]
           /\ UNCHANGED <<entry, heldVars>>
  <2>1. entry = s /\ s # NoState
    BY <1>1, <1>3, LoopCall, RwStatesAssumption
  <2>2. Abstract!NoWriter /\ Abstract!NoReaders
    BY <1>3, <2>1, LiveOwners DEF InUse
  <2>3. destroyed'[s]
    BY <1>3 DEF IInv, RwTypeOK
  <2> QED
    BY <1>3, <2>1, <2>2, <2>3 DEF heldVars, Abstract!Delete, Abstract!Next
<1>4. CASE Remove(t)
  <2>1. destroyed[s]
    BY <1>1, <1>4 DEF Remove, IInv, CallShape
  <2> QED
    BY <1>1, <1>4, <2>1 DEF Remove, heldVars, Abstract!vars
<1> QED
  BY <1>1, <1>2, <1>3, <1>4 DEF MarkDestroyed, RwCodes

LEMMA InitRwlockRefines ==
  ASSUME IInv, NEW t \in Threads, InitRwlock(t)
  PROVE  Abstract!Next \/ UNCHANGED Abstract!vars
<1>1. CASE entry = NoState
  <2>1. PICK s \in States : entry' = s /\ destroyed' = [destroyed EXCEPT ![s] = FALSE]
    BY <1>1 DEF InitRwlock
  <2>2. s # NoState /\ ~destroyed'[s]
    BY <2>1, RwStatesAssumption DEF IInv, RwTypeOK
  <2> QED
    BY <1>1, <2>1, <2>2 DEF InitRwlock, heldVars, Abstract!Create, Abstract!Next
<1>2. CASE entry # NoState
  BY <1>2 DEF InitRwlock, heldVars, Abstract!vars
<1> QED
  BY <1>1, <1>2

LEMMA StepRefines ==
  ASSUME IInv, [Next]_vars
  PROVE  [Abstract!Next]_(Abstract!vars)
<1>1. CASE UNCHANGED vars
  BY <1>1 DEF vars, heldVars, Abstract!vars
<1>2. ASSUME NEW t \in Threads, Call(t)
      PROVE  Abstract!Next \/ UNCHANGED Abstract!vars
  BY <1>2, InitRwlockRefines DEF Call, Enter, heldVars, Abstract!vars
<1>3. ASSUME NEW t \in Threads, Progress(t)
      PROVE  Abstract!Next \/ UNCHANGED Abstract!vars
  <2>1. CASE Notify(t)
    BY <2>1 DEF Notify, Return, heldVars, Abstract!vars
  <2> QED
    BY <1>3, <2>1, LockPassRefines, UnlockPassRefines, DestroyRefines DEF Progress
<1>4. ASSUME NEW t \in Threads, SpuriousWake(t)
      PROVE  UNCHANGED Abstract!vars
  BY <1>4 DEF SpuriousWake, heldVars, Abstract!vars
<1> QED
  BY <1>1, <1>2, <1>3, <1>4 DEF Next

(* The read-write lock of pthread.rs, with its registry, its two-step      *)
(* calls and its late notifications, implements the atomic lock its        *)
(* documentation describes: readers exclude writers, writers everybody,    *)
(* and an object in use is not destroyed.                                  *)
THEOREM Refinement == Spec => ImplementsAbstractRwlock
<1>1. Init => Abstract!Init
  BY DEF Init, Nobody, Abstract!Init
<1>2. IInv /\ [Next]_vars => [Abstract!Next]_(Abstract!vars)
  BY StepRefines
<1> QED
  BY <1>1, <1>2, Invariance, PTL
  DEF Spec, ImplementsAbstractRwlock, Abstract!Spec
=============================================================================
