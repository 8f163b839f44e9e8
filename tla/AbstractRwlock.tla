-------------------------- MODULE AbstractRwlock --------------------------
(* What the pthread_rwlock functions promise to their callers, in terms of *)
(* return codes alone: who has been granted read and write ownership and   *)
(* has not given it back.                                                  *)
EXTENDS Naturals

CONSTANT Threads

VARIABLES
  exists,   \* between a successful init and a successful destroy
  reads,    \* read ownerships of each thread; they nest
  writes    \* the threads with write ownership

vars == <<exists, reads, writes>>

Init ==
  /\ exists = FALSE
  /\ reads = [t \in Threads |-> 0]
  /\ writes = [t \in Threads |-> FALSE]

NoReaders == \A t \in Threads : reads[t] = 0
NoWriter == \A t \in Threads : ~writes[t]

Create == ~exists /\ exists' = TRUE /\ UNCHANGED <<reads, writes>>

Delete ==
  /\ exists /\ NoReaders /\ NoWriter
  /\ exists' = FALSE
  /\ UNCHANGED <<reads, writes>>

Read(t) ==
  /\ exists /\ NoWriter
  /\ reads' = [reads EXCEPT ![t] = @ + 1]
  /\ UNCHANGED <<exists, writes>>

Write(t) ==
  /\ exists /\ NoWriter /\ NoReaders
  /\ writes' = [writes EXCEPT ![t] = TRUE]
  /\ UNCHANGED <<exists, reads>>

Release(t) ==
  /\ exists
  /\ \/ writes[t] /\ writes' = [writes EXCEPT ![t] = FALSE] /\ UNCHANGED reads
     \/ reads[t] > 0 /\ reads' = [reads EXCEPT ![t] = @ - 1] /\ UNCHANGED writes
  /\ UNCHANGED exists

Next == Create \/ Delete \/ \E t \in Threads : Read(t) \/ Write(t) \/ Release(t)

Spec == Init /\ [][Next]_vars
==========================================================================
