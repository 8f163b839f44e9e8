--------------------------- MODULE MCPthreadCond ---------------------------
(* Model-checking instances of PthreadCond.                                *)
EXTENDS PthreadCond, TLC

ThreadSymmetry == Permutations(Threads)
=============================================================================
