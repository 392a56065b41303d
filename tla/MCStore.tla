------------------------------- MODULE MCStore -------------------------------
(* Small instances of Store for TLC. *)
EXTENDS Store

\* Two tables, with the one that has an optional column first, as in ExportAll.
MCTables == <<"devices", "recordings">>

MCAllTables == <<"devices", "recordings", "schedules", "snapshots">>
==============================================================================
