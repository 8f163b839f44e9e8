-------------------------- MODULE MCPthreadMutex --------------------------
(* Model-checking instances of PthreadMutex.                               *)
EXTENDS PthreadMutex, TLC

ThreadSymmetry == Permutations(Threads)
===========================================================================
