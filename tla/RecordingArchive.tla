--------------------------- MODULE RecordingArchive ---------------------------
(***************************************************************************)
(* What the recorder promises its user: recordings are listed and removed,  *)
(* a schedule is recorded once in a window that has begun, in the order of  *)
(* its windows, and a schedule that is deleted is gone.  There is no tick   *)
(* that blocks, no mark and no view of the past.                            *)
(***************************************************************************)
EXTENDS Integers

CONSTANTS Schedules, Clips

VARIABLES
  listed,  \* the recordings in the list
  plan,    \* a schedule: "on", "off" or "deleted"
  begun,   \* how many windows of a schedule have begun
  done     \* the last window of a schedule that this run of the gateway recorded

archiveVars == <<listed, plan, begun, done>>

ArchiveInit ==
  /\ listed = {}
  /\ plan \in [Schedules -> {"on", "off"}]
  /\ begun \in [Schedules -> {0, 1}]
  /\ done = [s \in Schedules |-> 0]

\* A recording that is over is listed, or lost when its row cannot be stored.
List(c) == c \in Clips /\ c \notin listed /\ listed' \in {listed, listed \cup {c}}

\* A recording of a window later than the last recorded one; it may switch its schedule on.
RecordWindow(s, c) ==
  /\ List(c)
  /\ \E w \in (done[s] + 1)..begun[s] : done' = [done EXCEPT ![s] = w]
  /\ plan' \in {plan, [plan EXCEPT ![s] = IF @ = "deleted" THEN @ ELSE "on"]}
  /\ UNCHANGED begun

RecordByHand(c) == List(c) /\ UNCHANGED <<plan, begun, done>>

Remove == listed' \in SUBSET listed /\ UNCHANGED <<plan, begun, done>>

WindowBegins(s) ==
  begun' = [begun EXCEPT ![s] = @ + 1] /\ UNCHANGED <<listed, plan, done>>

Edit(s) ==
  /\ plan[s] # "deleted"
  /\ \E p \in {"on", "off", "deleted"} : plan' = [plan EXCEPT ![s] = p]
  /\ UNCHANGED <<listed, begun, done>>

\* The gateway forgets what it has recorded, and nothing else.
Restart == done' = [s \in Schedules |-> 0] /\ UNCHANGED <<listed, plan, begun>>

ArchiveNext ==
  \/ Remove \/ Restart \/ \E c \in Clips : RecordByHand(c)
  \/ \E s \in Schedules : WindowBegins(s) \/ Edit(s) \/ \E c \in Clips : RecordWindow(s, c)

ArchiveSpec == ArchiveInit /\ [][ArchiveNext]_archiveVars
==============================================================================
