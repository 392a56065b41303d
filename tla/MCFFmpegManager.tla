--------------------------- MODULE MCFFmpegManager ---------------------------
(* Small instances of FFmpegManager for TLC. *)
EXTENDS FFmpegManager, TLC

CONSTANTS d1, d2, p1, p2, p3, p4, r1, r2

OneHttp == [d \in Devices |-> "http"]
HttpAndWapa == [d \in Devices |-> IF d = d1 THEN "http" ELSE "wapa"]
SameInput == [d \in Devices |-> "in"]
OwnInput == [d \in Devices |-> d]

Symmetry == Permutations(Procs) \cup Permutations(Requests)
==============================================================================
