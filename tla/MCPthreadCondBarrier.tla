------------------------ MODULE MCPthreadCondBarrier ------------------------
(* A client of PthreadCond: the usual cyclic barrier.  Every thread locks  *)
(* the mutex, counts itself in, and waits while its generation lasts; the  *)
(* last one starts the next generation and broadcasts.  A thread may give  *)
(* its first wait a deadline.  The program is correct for a condition      *)
(* variable that wakes spuriously.                                         *)
EXTENDS PthreadCond

CONSTANT Rounds   \* how many times each thread passes the barrier

VARIABLES
  at,           \* the next statement of each thread
  arrived,      \* threads counted in this generation
  generation,
  my_generation,
  round,
  patient       \* the thread waits without deadline from now on

program == <<at, arrived, generation, my_generation, round, patient>>

BarrierInit ==
  /\ Init
  /\ at = [t \in Threads |-> "create"]
  /\ arrived = 0
  /\ generation = 0
  /\ my_generation = [t \in Threads |-> 0]
  /\ round = [t \in Threads |-> 0]
  /\ patient = [t \in Threads |-> FALSE]

Goto(t, place) == at' = [at EXCEPT ![t] = place]

(* The first thread creates the mutex, the others find it created.         *)
Create(t) ==
  /\ at[t] = "create"
  /\ \/ \E type \in Types : InitMutex(t, type) /\ UNCHANGED condVars
     \/ live /\ UNCHANGED vars
  /\ Goto(t, "enter")
  /\ UNCHANGED <<arrived, generation, my_generation, round, patient>>

Enter(t) ==
  /\ at[t] = "enter" /\ cpc[t] = "out"
  /\ Lock(t) /\ UNCHANGED condVars
  /\ Goto(t, "arrive")
  /\ UNCHANGED <<arrived, generation, my_generation, round, patient>>

ArriveFirst(t) ==
  /\ at[t] = "arrive" /\ pc[t] = "out"
  /\ arrived + 1 < Cardinality(Threads)
  /\ arrived' = arrived + 1
  /\ my_generation' = [my_generation EXCEPT ![t] = generation]
  /\ Goto(t, "test")
  /\ UNCHANGED <<vars, generation, round, patient>>

ArriveLast(t) ==
  /\ at[t] = "arrive" /\ pc[t] = "out"
  /\ arrived + 1 = Cardinality(Threads)
  /\ arrived' = 0
  /\ generation' = generation + 1
  /\ Broadcast(t) \/ WakeNobody(t)
  /\ Goto(t, "leave")
  /\ UNCHANGED <<my_generation, round, patient>>

Test(t) ==
  /\ at[t] = "test" /\ cpc[t] = "out"
  /\ \/ /\ generation = my_generation[t]
        /\ Wait(t, "none") \/ (~patient[t] /\ Wait(t, "ahead"))
        /\ patient' = [patient EXCEPT ![t] = TRUE]
        /\ UNCHANGED at
     \/ generation # my_generation[t] /\ Goto(t, "leave") /\ UNCHANGED <<vars, patient>>
  /\ UNCHANGED <<arrived, generation, my_generation, round>>

LeaveBarrier(t) ==
  /\ at[t] = "leave" /\ cpc[t] = "out"
  /\ Unlock(t) /\ UNCHANGED condVars
  /\ round' = [round EXCEPT ![t] = @ + 1]
  /\ Goto(t, IF round'[t] = Rounds THEN "done" ELSE "enter")
  /\ UNCHANGED <<arrived, generation, my_generation, patient>>

Statement(t) ==
  Enter(t) \/ ArriveFirst(t) \/ ArriveLast(t) \/ Test(t) \/ LeaveBarrier(t)

Finished == \A t \in Threads : at[t] = "done" /\ pc[t] = "out"

BarrierNext ==
  \/ \E t \in Threads :
       \/ Create(t) \/ Statement(t)
       \/ DeadlinePasses(t) /\ UNCHANGED program
       \/ AnyProgress(t) /\ UNCHANGED program
       \/ (CondSpuriousWake(t) \/ MutexSpuriousWake(t)) /\ UNCHANGED program
  \/ Finished /\ UNCHANGED <<vars, program>>

(* Threads that have come run, inside the library and outside it; a thread *)
(* need not come.  Deadlines pass.                                         *)
BarrierSpec ==
  /\ BarrierInit
  /\ [][BarrierNext]_<<vars, program>>
  /\ \A t \in Threads :
       WF_<<vars, program>>(Statement(t)) /\ WF_vars(AnyProgress(t)) /\ WF_vars(DeadlinePasses(t))

(* Once all threads have come the program ends: no call of the library     *)
(* leaves a thread asleep that its own logic would let go on.              *)
BarrierCompletes == (\A t \in Threads : at[t] # "create") ~> Finished

(* Both together: no wait lasts longer than its program, or its deadline,  *)
(* lets it.                                                                *)
WaitsEnd == BarrierCompletes /\ TimedWaitEnds
=============================================================================
