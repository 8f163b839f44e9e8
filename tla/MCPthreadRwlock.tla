-------------------------- MODULE MCPthreadRwlock --------------------------
(* Model-checking instances of PthreadRwlock.                              *)
EXTENDS PthreadRwlock, TLC

RwSymmetry == Permutations(Threads) \cup Permutations(States)
=============================================================================
