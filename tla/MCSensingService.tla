-------------------------- MODULE MCSensingService --------------------------
(* Small instances of SensingService for TLC. *)
EXTENDS SensingService

CONSTANTS a1, a2, a3
==============================================================================
