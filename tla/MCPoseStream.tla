---------------------------- MODULE MCPoseStream ----------------------------
(* Small instances of PoseStream for TLC. *)
EXTENDS PoseStream

CONSTANTS e1, e2, e3
==============================================================================
