----------------------- MODULE MCPthreadRwlockClients -----------------------
(* Clients of PthreadRwlock that take the lock once at a time (no nested   *)
(* read, no upgrade of a read to a write, which the code lets deadlock)    *)
(* and give back what they took.                                           *)
EXTENDS PthreadRwlock

MayTake(t) == reads[t] = 0 /\ ~writes[t]

GiveBack(t) == ~MayTake(t) /\ Enter(t, "unlock")

ClientsNext ==
  \E t \in Threads :
    \/ InitRwlock(t)
    \/ MayTake(t) /\ \E f \in Ops \ {"unlock", "destroy"} : Enter(t, f)
    \/ GiveBack(t)
    \/ Progress(t)
    \/ SpuriousWake(t)

ClientsSpec ==
  /\ Init
  /\ [][ClientsNext]_vars
  /\ \A t \in Threads : WF_vars(Progress(t)) /\ WF_vars(GiveBack(t))

(* Readers cannot keep writers out: once a writer waits, new readers queue *)
(* behind it and some writer gets the lock (MayRead's waiting_writers).    *)
WritersAreNotStarved ==
  (\E s \in States : waiting_writers[s] > 0) ~> (\E t \in Threads : writes[t])
=============================================================================
