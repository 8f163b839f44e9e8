--------------------------- MODULE MCStdioStreams ---------------------------
(* StdioStreams for TLC.                                                   *)
EXTENDS StdioStreams, TLC

StdioSymmetry == Permutations(Threads) \cup Permutations(Identities)
=============================================================================
