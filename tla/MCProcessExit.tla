--------------------------- MODULE MCProcessExit ---------------------------
(* ProcessExit for TLC: both arrays have a slot without a callable address *)
(* between two others.                                                     *)
EXTENDS ProcessExit

Slots == <<TRUE, FALSE, TRUE>>
OneSlot == <<TRUE>>
=============================================================================
