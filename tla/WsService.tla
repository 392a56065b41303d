------------------------------ MODULE WsService ------------------------------
(***************************************************************************)
(* The WebSocket client of the mobile app: one target server, reconnection  *)
(* by a timer, and a timer that produces simulated frames meanwhile.        *)
(* JavaScript runs one callback at a time, so every call and every callback *)
(* is one action; what can interleave is their order.  A socket's events    *)
(* reach its callbacks after close() has returned, and the callbacks of all *)
(* sockets share the fields of the service.                                 *)
(***************************************************************************)
EXTENDS Integers

CONSTANTS
  Sockets,      \* WebSocket objects (bound on those alive at one time)
  Servers,      \* server URLs a socket can be opened for
  BadUrls,      \* non-empty URLs the URL parser rejects
  MaxAttempts,  \* MAX_RECONNECT_ATTEMPTS
  None          \* null, or the empty URL

ASSUME ConstantsAssumption ==
  /\ MaxAttempts \in Nat \ {0}
  /\ Servers \cap BadUrls = {}
  /\ None \notin Sockets \cup Servers \cup BadUrls

VARIABLES
  up,       \* servers that can be reached
  sock,     \* "unused", "connecting", "open", or what close() was called on
  ws,       \* this.ws
  target,   \* this.targetUrl
  active,   \* this.active
  attempt,  \* this.reconnectAttempt
  timer,    \* is this.reconnectTimer set
  sim,      \* is this.simulationTimer set
  status,   \* this.status
  server    \* the server a socket was opened for

vars == <<up, sock, ws, target, active, attempt, timer, sim, status, server>>

Urls == Servers \cup BadUrls \cup {None}

Init ==
  /\ up \in SUBSET Servers
  /\ sock = [s \in Sockets |-> "unused"]
  /\ ws = None
  /\ target = None
  /\ active = FALSE
  /\ attempt = 0
  /\ timer = FALSE
  /\ sim = FALSE
  /\ status = "disconnected"
  /\ server = [s \in Sockets |-> None]

------------------------------------------------------------------------------
\* Mutant: the limit of attempts is not looked at.
ScheduleReconnect_NoLimit(n) ==
  /\ sim' = TRUE /\ timer' = TRUE /\ attempt' = n + 1
  /\ UNCHANGED status

\* scheduleReconnect, called with n attempts counted, by an active service.
ScheduleReconnect(n) ==
  /\ sim' = TRUE
  /\ \/ n >= MaxAttempts /\ attempt' = n /\ timer' = timer /\ status' = "simulated"
     \/ n < MaxAttempts /\ attempt' = n + 1 /\ timer' = TRUE /\ status' = status

\* this.ws is OPEN or CONNECTING.
HasSocket == \E s \in Sockets : s = ws /\ sock[s] \in {"connecting", "open"}

\* connect(url) is called with the reconnect timer armed or not; it never clears it.
Enter(url) == target' = url /\ active' = TRUE

Simulate(url, armed) ==
  /\ url = None
  /\ Enter(url) /\ attempt' = 0 /\ timer' = armed
  /\ status' = "simulated" /\ sim' = TRUE
  /\ UNCHANGED <<up, sock, ws, server>>

\* A socket that is open or opening is kept, whatever it was opened for.
KeepSocket(url, armed) ==
  /\ url # None /\ HasSocket
  /\ Enter(url) /\ attempt' = 0 /\ timer' = armed
  /\ UNCHANGED <<up, sock, ws, sim, status, server>>

OpenSocket(url, armed) ==
  /\ url \in Servers /\ ~HasSocket
  /\ \E s \in Sockets :
       /\ sock[s] = "unused"
       /\ sock' = [sock EXCEPT ![s] = "connecting"]
       /\ server' = [server EXCEPT ![s] = url]
       /\ ws' = s
  /\ Enter(url) /\ attempt' = 0 /\ timer' = armed
  /\ status' = "connecting"
  /\ UNCHANGED <<up, sim>>

\* buildWsUrl throws: the catch block schedules the first reconnect.
OpenThrows(url) ==
  /\ url \in BadUrls /\ ~HasSocket
  /\ Enter(url) /\ attempt' = 1 /\ timer' = TRUE
  /\ status' = "connecting" /\ sim' = TRUE
  /\ UNCHANGED <<up, sock, ws, server>>

Call(url, armed) == \/ Simulate(url, armed) \/ KeepSocket(url, armed)
                    \/ OpenSocket(url, armed) \/ OpenThrows(url)

\* The app and the settings screen connect to another URL only after disconnect;
\* screens that mount connect to the current one at any time.
Connect(url) == (~active \/ url = target) /\ Call(url, timer)

\* Mutant: the timer is consumed without a new attempt.
ReconnectTimer_Lost ==
  /\ timer
  /\ timer' = FALSE
  /\ UNCHANGED <<up, sock, ws, target, active, attempt, sim, status, server>>

\* The reconnect timer clears itself and calls connect(this.targetUrl).
ReconnectTimer == timer /\ Call(target, FALSE)

\* The interval of startSimulation: the status, then a frame for every listener.
SimulationTick ==
  /\ sim
  /\ status' = "simulated"
  /\ UNCHANGED <<up, sock, ws, target, active, attempt, timer, sim, server>>

\* Mutant: a pending reconnect survives disconnect.
Disconnect_KeepsTimer ==
  /\ active' = FALSE /\ sim' = FALSE
  /\ ws' = None
  /\ sock' = IF ws = None THEN sock ELSE [sock EXCEPT ![ws] = "closing"]
  /\ status' = "disconnected"
  /\ UNCHANGED <<up, target, attempt, timer, server>>

\* disconnect(): both timers, then close(1000) on the socket it knows.
Disconnect ==
  /\ active' = FALSE /\ timer' = FALSE /\ sim' = FALSE
  /\ ws' = None
  /\ sock' = IF ws = None THEN sock
             ELSE [sock EXCEPT ![ws] = IF sock[ws] = "open" THEN "closing" ELSE "aborting"]
  /\ status' = "disconnected"
  /\ UNCHANGED <<up, target, attempt, server>>

------------------------------------------------------------------------------
\* Socket callbacks.

\* The simulation ends with the first frame source that is real.
OnOpen(s) ==
  /\ sock[s] = "connecting" /\ server[s] \in up
  /\ sock' = [sock EXCEPT ![s] = "open"]
  /\ attempt' = 0 /\ sim' = FALSE /\ status' = "connected"
  /\ UNCHANGED <<up, ws, target, active, timer, server>>

\* Mutant: a lost connection is not reported as simulated.
OnClose_NoSimulation(s, code) ==
  /\ ws' = None
  /\ sock' = [sock EXCEPT ![s] = "unused"]
  /\ server' = [server EXCEPT ![s] = None]
  /\ \/ /\ ~active \/ code = 1000
        /\ status' = "disconnected"
        /\ UNCHANGED <<attempt, timer, sim>>
     \/ /\ active /\ code # 1000
        /\ timer' = TRUE
        /\ UNCHANGED <<attempt, sim, status>>
  /\ UNCHANGED <<up, target, active>>

\* The callback clears this.ws, whichever socket that is.
OnClose(s, code) ==
  /\ ws' = None
  /\ sock' = [sock EXCEPT ![s] = "unused"]
  /\ server' = [server EXCEPT ![s] = None]
  /\ \/ /\ ~active \/ code = 1000
        /\ status' = "disconnected"
        /\ UNCHANGED <<attempt, timer, sim>>
     \/ active /\ code # 1000 /\ ScheduleReconnect(attempt)
  /\ UNCHANGED <<up, target, active>>

\* A connection attempt fails.
Refused(s) == sock[s] = "connecting" /\ server[s] \notin up /\ OnClose(s, 1006)

\* The connection is lost because its server or the way to it is gone.
Lost(s) == sock[s] = "open" /\ server[s] \notin up /\ OnClose(s, 1006)

\* The server closes the connection normally.
ServerCloses(s) == sock[s] = "open" /\ OnClose(s, 1000)

\* The event of a close() by the client: 1000 if the server answered, else 1006;
\* a socket that was still connecting fails.
Closed(s) == \/ sock[s] = "closing" /\ \E code \in {1000, 1006} : OnClose(s, code)
             \/ sock[s] = "aborting" /\ OnClose(s, 1006)

\* Servers come and go.
ServersChange ==
  /\ up' \in SUBSET Servers
  /\ UNCHANGED <<sock, ws, target, active, attempt, timer, sim, status, server>>

SocketStep(s) == OnOpen(s) \/ Refused(s) \/ Lost(s) \/ Closed(s)

Next ==
  \/ \E url \in Urls : Connect(url)
  \/ Disconnect \/ ReconnectTimer \/ SimulationTick \/ ServersChange
  \/ \E s \in Sockets : SocketStep(s) \/ ServerCloses(s)

\* Timers fire and the network answers.
Fairness == /\ WF_vars(ReconnectTimer) /\ WF_vars(SimulationTick)
            /\ \A s \in Sockets : WF_vars(SocketStep(s))

Spec == Init /\ [][Next]_vars
FairSpec == Spec /\ Fairness

------------------------------------------------------------------------------
\* Properties.

Open == {s \in Sockets : sock[s] = "open"}
Pending == {s \in Sockets : sock[s] = "connecting"}

\* Every field has its type, and the status is one of ConnectionStatus.
TypeOK ==
  /\ up \subseteq Servers
  /\ sock \in [Sockets -> {"unused", "connecting", "open", "closing", "aborting"}]
  /\ ws \in Sockets \cup {None}
  /\ target \in Urls
  /\ active \in BOOLEAN
  /\ attempt \in 0..MaxAttempts
  /\ timer \in BOOLEAN
  /\ sim \in BOOLEAN
  /\ status \in {"connecting", "connected", "disconnected", "simulated"}
  /\ server \in [Sockets -> Servers \cup {None}]

\* After disconnect() no timer is left that could connect again or send simulated
\* frames, whatever socket events are still to come.
NoTimerAfterDisconnect == ~active => ~timer /\ ~sim

\* Whatever the banner says, something stands behind it: frames or their simulation, or
\* an attempt.  And an active service is never stranded: it has a socket, or its timer
\* will open one, or it says that it is disconnected and no simulation will hide that.
StatusIsBacked ==
  /\ status = "connected" => Open # {} \/ sim
  /\ status = "connecting" => Pending # {} \/ sim
  /\ status = "simulated" => sim
  /\ active /\ target # None =>
       \/ Open \cup Pending # {} \/ timer
       \/ status = "disconnected" /\ ~sim

\* The reconnection of ws.service.ts: an active service whose server is up from some
\* time on has an open socket again and again, or says that it is disconnected (after
\* a normal close by the server, which the code does not retry).
Reconnects ==
  \A v \in Servers :
    <>[](active /\ target = v /\ v \in up) => []<>(Open # {} \/ status = "disconnected")
==============================================================================
