------------------------------ MODULE MCWsService -----------------------------
(* Small instances of WsService for TLC. *)
EXTENDS WsService

CONSTANTS s1, s2, s3
==============================================================================
