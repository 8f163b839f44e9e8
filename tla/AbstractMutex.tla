-------------------------- MODULE AbstractMutex --------------------------
(* What pthread_mutex_init, lock, trylock, unlock and destroy promise to   *)
(* their callers, in terms of return codes alone: how many acquisitions    *)
(* each thread has been granted and not given back.                        *)
EXTENDS Naturals

CONSTANT Threads

VARIABLES
  exists,      \* between a successful init and a successful destroy
  reentrant,   \* of the recursive type
  holds        \* acquisitions granted to each thread and not given back

vars == <<exists, reentrant, holds>>

Unheld == \A t \in Threads : holds[t] = 0

Init == exists = FALSE /\ reentrant \in BOOLEAN /\ holds = [t \in Threads |-> 0]

Create == ~exists /\ exists' = TRUE /\ reentrant' \in BOOLEAN /\ UNCHANGED holds

Delete == exists /\ Unheld /\ exists' = FALSE /\ UNCHANGED <<reentrant, holds>>

Acquire(t) ==
  /\ exists
  /\ \A u \in Threads \ {t} : holds[u] = 0
  /\ holds[t] > 0 => reentrant
  /\ holds' = [holds EXCEPT ![t] = @ + 1]
  /\ UNCHANGED <<exists, reentrant>>

Release(t) ==
  /\ exists
  /\ holds[t] > 0
  /\ holds' = [holds EXCEPT ![t] = @ - 1]
  /\ UNCHANGED <<exists, reentrant>>

Next == Create \/ Delete \/ \E t \in Threads : Acquire(t) \/ Release(t)

Spec == Init /\ [][Next]_vars
==========================================================================
