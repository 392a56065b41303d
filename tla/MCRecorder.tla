----------------------------- MODULE MCRecorder -----------------------------
(* A small instance of Recorder for TLC. *)
EXTENDS Recorder

CONSTANTS s1, s2, c1
==============================================================================
