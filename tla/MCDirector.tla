------------------------------ MODULE MCDirector ------------------------------
(* Small instances of Director for TLC. *)
EXTENDS Director

CONSTANTS p1, p2, r1, g1
==============================================================================
