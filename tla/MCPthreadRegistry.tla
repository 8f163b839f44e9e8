------------------------- MODULE MCPthreadRegistry -------------------------
(* Model-checking instances of PthreadRegistry.                            *)
EXTENDS PthreadRegistry, TLC

MainSymmetry == Permutations(Mains)
RegSymmetry == Permutations(Mains) \cup Permutations(Handles)

(* Programs: threads name whatever a create returned; anything at all; or  *)
(* only what they own, the host reusing its handles, with or without       *)
(* overlapping native calls.                                               *)
Program(reuse, discipline) == [reuse |-> reuse, discipline |-> discipline]
Sharing == {Program(FALSE, "published")}
Probing == {Program(FALSE, "any")}
Owners == {Program(TRUE, "owner")}
Serial == {Program(TRUE, "serial")}
SharingOrSerial == Sharing \cup Serial
=============================================================================
