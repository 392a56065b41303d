-------------------------- MODULE ReconnectingClient --------------------------
(***************************************************************************)
(* What the sensing stream promises the page: one connection at a time,     *)
(* without overlapping attempts, tickets or events of sockets of the past.  *)
(* A stopped client does nothing until it is told to connect, a failure is  *)
(* followed by a retry or by invented frames, and these end when a          *)
(* connection opens.                                                        *)
(***************************************************************************)
VARIABLES
  link,      \* the connection: "none", "opening" or "open"
  retry,     \* is a new attempt due
  invented,  \* are frames being invented
  shown,     \* the published state
  allowed    \* may frames be invented at all

clientVars == <<link, retry, invented, shown, allowed>>

ClientInit ==
  /\ link = "none" /\ retry = FALSE /\ invented = FALSE
  /\ shown = "disconnected" /\ allowed \in BOOLEAN

\* The page, or the retry that was due, begins an attempt.
Attempt ==
  /\ link # "open" /\ link' = "opening" /\ shown' = "connecting"
  /\ retry' \in {retry, FALSE}
  /\ UNCHANGED <<invented, allowed>>

\* A retry that comes when there is a connection, or an attempt, changes nothing.
NeedlessRetry ==
  /\ link # "none" /\ retry /\ retry' = FALSE
  /\ UNCHANGED <<link, invented, shown, allowed>>

Opened ==
  /\ link = "opening" /\ link' = "open" /\ shown' = "connected"
  /\ invented' = FALSE
  /\ UNCHANGED <<retry, allowed>>

\* The connection, or the attempt to make it, is lost: a retry that is already due will
\* correct the state, one becomes due, or frames are invented with or without one.
Failed ==
  /\ link # "none" /\ link' = "none"
  /\ \/ retry /\ UNCHANGED <<retry, invented, shown>>
     \/ ~retry /\ retry' = TRUE /\ shown' = "reconnecting" /\ UNCHANGED invented
     \/ allowed /\ invented' = TRUE /\ shown' = "simulated" /\ retry' \in {retry, TRUE}
  /\ UNCHANGED allowed

\* The server ends a connection normally.
EndedByServer ==
  /\ link = "open" /\ link' = "none" /\ shown' = "disconnected"
  /\ UNCHANGED <<retry, invented, allowed>>

Stopped ==
  /\ link' = "none" /\ retry' = FALSE /\ invented' = FALSE /\ shown' = "disconnected"
  /\ UNCHANGED allowed

ClientNext == Attempt \/ NeedlessRetry \/ Opened \/ Failed \/ EndedByServer \/ Stopped

ClientSpec == ClientInit /\ [][ClientNext]_clientVars
==============================================================================
