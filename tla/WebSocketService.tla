-------------------------- MODULE WebSocketService --------------------------
(***************************************************************************)
(* The WebSocket service of the web user interface, for one URL.  The       *)
(* service keeps one entry per URL in a map; the callbacks of a socket look *)
(* the entry up by the URL, whichever connect() call made it.  A call of    *)
(* connect() that finds no entry makes one and awaits a ticket and then the *)
(* socket, without a socket in the entry until it is open; an entry and its *)
(* socket are one element of Entries here.  The actions say what the        *)
(* service does; PoseStream adds what its client does in the same callback. *)
(* Heartbeats change nothing but counters and are left out.                 *)
(***************************************************************************)
EXTENDS Integers

CONSTANTS
  Entries,        \* connections (bound on those that exist at one time)
  MaxReconnects,  \* config.maxReconnectAttempts
  None            \* null: no entry, no connection

ASSUME ConstantsAssumption == MaxReconnects \in Nat \ {0} /\ None \notin Entries

VARIABLES
  up,         \* can the server be reached
  sock,       \* what became of the call that made an entry, then of its socket
  reg,        \* connections.get(url)
  status,     \* the status field of that entry
  retry,      \* an entry's reconnectTimer: 0, or the attempt number it will set
  attempts,   \* reconnectAttempts.get(url) || 0
  monitored   \* is a callback registered in connectionStateCallbacks

wsVars == <<up, sock, reg, status, retry, attempts, monitored>>

WsInit ==
  /\ up \in BOOLEAN
  /\ sock = [e \in Entries |-> "closed"]
  /\ reg = None
  /\ status = "closed"
  /\ retry = [e \in Entries |-> 0]
  /\ attempts = 0 /\ monitored = FALSE

\* An entry that nothing in the service refers to can stand for a new one.
Free(e) == sock[e] = "closed" /\ reg # e /\ retry[e] = 0

\* connect() without an entry for the URL, up to its await.
Register(e) ==
  /\ Free(e)
  /\ sock' = [sock EXCEPT ![e] = "connecting"]
  /\ reg' = e
  /\ status' = "connecting"

\* createWebSocketWithTimeout resolves and connect() goes on: it marks the entry it
\* made, which the map may have forgotten.
Established(e) ==
  /\ sock[e] = "connecting" /\ up
  /\ sock' = [sock EXCEPT ![e] = "open"]
  /\ status' = IF reg = e THEN "connected" ELSE status
  /\ attempts' = 0
  /\ UNCHANGED <<up, reg, retry>>

\* The socket fails or times out and connect() rejects: its catch block drops the
\* entry of the URL, whichever call made it.
ConnectFails(e) ==
  /\ sock[e] = "connecting" /\ ~up
  /\ sock' = [sock EXCEPT ![e] = "closed"]
  /\ reg' = None
  /\ UNCHANGED <<up, status, retry>>

\* onerror of an established socket marks the URL's entry.
ErrorEvent(e) ==
  /\ sock[e] = "open" /\ ~up /\ reg # None
  /\ status' = "error"
  /\ UNCHANGED <<up, sock, reg, retry, attempts, monitored>>

\* Mutant: the limit of retries is not looked at.
CloseEvent_NoLimit(e, clean) ==
  /\ sock' = [sock EXCEPT ![e] = "closed"]
  /\ \/ reg = None /\ UNCHANGED <<reg, status, retry, attempts, monitored>>
     \/ /\ reg # None /\ status' = "closed"
        /\ retry' = [retry EXCEPT ![reg] = attempts + 1]
        /\ UNCHANGED <<reg, attempts, monitored>>
  /\ UNCHANGED up

\* Mutant: the close event does not mark the entry.
CloseEvent_NoStatus(e, clean) ==
  /\ sock' = [sock EXCEPT ![e] = "closed"]
  /\ UNCHANGED <<up, reg, status, retry, attempts, monitored>>

\* onclose: the URL's entry is marked and its timers are cleared; then a retry of it
\* is armed, or it is cleaned up.
CloseEvent(e, clean) ==
  /\ sock' = [sock EXCEPT ![e] = "closed"]
  /\ \/ reg = None /\ UNCHANGED <<reg, status, retry, attempts, monitored>>
     \/ /\ reg # None
        /\ status' = "closed"
        /\ \/ /\ ~clean /\ attempts < MaxReconnects
              /\ retry' = [retry EXCEPT ![reg] = attempts + 1]
              /\ UNCHANGED <<reg, attempts, monitored>>
           \/ /\ clean \/ attempts >= MaxReconnects
              /\ retry' = [retry EXCEPT ![reg] = 0]
              /\ reg' = None /\ attempts' = 0 /\ monitored' = FALSE
  /\ UNCHANGED up

\* A connection is lost with its server.
Lost(e) == sock[e] \in {"open", "closing"} /\ ~up /\ CloseEvent(e, FALSE)

\* The event of the client's own close() arrives after a round trip.
Closed(e) == sock[e] = "closing" /\ up /\ CloseEvent(e, TRUE)

\* The server closes a connection.
ServerCloses(e) == sock[e] = "open" /\ up /\ CloseEvent(e, TRUE)

\* The reconnect timer counts the attempt and calls connect(), which returns the id of
\* the URL's entry when there is one: the dead entry whose timer this is.
RetryFinds(e) ==
  /\ retry[e] # 0
  /\ retry' = [retry EXCEPT ![e] = 0]
  /\ attempts' = retry[e]

\* disconnect() looks at the socket of an entry that may not have one yet.
DisconnectThrows(e) == reg = e /\ sock[e] = "connecting"

\* It has cleared the timers of the entry by then; the entry stays.
DisconnectFails(e) ==
  /\ DisconnectThrows(e)
  /\ retry' = [retry EXCEPT ![e] = 0]
  /\ UNCHANGED <<sock, reg, attempts>>

\* Mutant: disconnect() leaves the entry in the map.
Disconnect_KeepsEntry(e) ==
  /\ sock' = [sock EXCEPT ![e] = IF @ = "open" THEN "closing" ELSE @]
  /\ retry' = [retry EXCEPT ![e] = 0] /\ attempts' = 0
  /\ UNCHANGED reg

\* disconnect() of the URL's entry; the state callbacks stay registered.
Disconnect(e) ==
  /\ sock' = [sock EXCEPT ![e] = IF @ = "open" THEN "closing" ELSE @]
  /\ retry' = [retry EXCEPT ![e] = 0]
  /\ reg' = None /\ attempts' = 0

ServerChanges ==
  /\ up' = ~up
  /\ UNCHANGED <<sock, reg, status, retry, attempts, monitored>>
==============================================================================
