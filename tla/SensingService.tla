--------------------------- MODULE SensingService ---------------------------
(***************************************************************************)
(* The sensing WebSocket client of the web user interface: one server, a    *)
(* ticket awaited before every socket, reconnection by a timer, an optional *)
(* timer that invents frames, and the label that tells the reader where the *)
(* frames on the screen come from.  JavaScript runs one callback at a time, *)
(* so every call, callback and continuation after an await is one action.   *)
(* The numbered epochs of the code are represented by the attempt that got  *)
(* the number: the current epoch is that of one attempt, or of none.        *)
(***************************************************************************)
EXTENDS Integers

CONSTANTS
  Attempts,     \* connection attempts (bound on those alive at one time)
  MaxAttempts,  \* MAX_RECONNECT_ATTEMPTS
  SimAfter,     \* SIM_FALLBACK_AFTER_ATTEMPTS
  None          \* null

ASSUME ConstantsAssumption ==
  /\ MaxAttempts \in Nat /\ SimAfter \in Nat
  /\ 1 <= SimAfter /\ SimAfter <= MaxAttempts
  /\ None \notin Attempts \cup {"esp32", "simulated", "live", "other"}

VARIABLES
  up,           \* can the server be reached
  feed,         \* the source field of the server's frames
  allowed,      \* clientSimulationAllowed(): the page's URL and storage
  blocked,      \* does the page's policy make the WebSocket constructor throw
  phase,        \* what became of an attempt: its ticket, then its socket
  probe,        \* is the status request that its onopen sent still out
  epoch,        \* the attempt numbered this._connectEpoch
  inFlight,     \* this._connectInFlight
  ws,           \* this._ws
  attempt,      \* this._reconnectAttempt
  timer,        \* is this._reconnectTimer set
  sim,          \* is this._simTimer set
  state,        \* this._state
  dataSource,   \* this._dataSource
  serverSource  \* this._serverSource

world == <<up, feed, allowed, blocked>>
conn  == <<phase, probe, epoch, inFlight, ws>>
retry == <<attempt, timer, sim>>
label == <<dataSource, serverSource>>
vars  == <<world, conn, retry, state, label>>

Feeds   == {"esp32", "simulated"}
Sources == {"live", "server-simulated", "reconnecting", "unreachable", "simulated"}

Init ==
  /\ up \in BOOLEAN /\ feed \in Feeds
  /\ allowed \in BOOLEAN /\ blocked \in BOOLEAN
  /\ phase = [a \in Attempts |-> "unused"]
  /\ probe = [a \in Attempts |-> FALSE]
  /\ epoch = None /\ inFlight = FALSE /\ ws = None
  /\ attempt = 0 /\ timer = FALSE /\ sim = FALSE
  /\ state = "disconnected"
  /\ dataSource = "reconnecting" /\ serverSource = None

------------------------------------------------------------------------------
\* Reconnection and the fallback.

\* The interval is started once, and is not stopped when a new attempt begins.
Simulate ==
  /\ sim' = TRUE
  /\ state' = "simulated" /\ dataSource' = "simulated"

\* Mutant: a pending retry does not stop a second one from being counted.
ScheduleReconnect_Stacked(source) ==
  /\ attempt' = attempt + 1 /\ timer' = TRUE
  /\ state' = "reconnecting" /\ dataSource' = source
  /\ UNCHANGED sim

\* Mutant: every retry is counted as the first.
ScheduleReconnect_First(source) ==
  \/ timer /\ dataSource' = source /\ UNCHANGED <<retry, state>>
  \/ /\ ~timer /\ attempt' = 1 /\ timer' = TRUE /\ state' = "reconnecting"
     /\ dataSource' = IF source = "unreachable" THEN source ELSE "reconnecting"
     /\ UNCHANGED sim

\* _scheduleReconnect, entered with the label `source'.  The state is left alone
\* when a retry is pending, and nothing is armed when it ends in the simulation.
ScheduleReconnect(source) ==
  \/ timer /\ dataSource' = source /\ UNCHANGED <<retry, state>>
  \/ ~timer /\ attempt >= MaxAttempts /\ allowed
     /\ Simulate /\ UNCHANGED <<attempt, timer>>
  \/ /\ ~timer /\ ~(attempt >= MaxAttempts /\ allowed)
     /\ attempt' = IF attempt < MaxAttempts THEN attempt + 1 ELSE MaxAttempts
     /\ timer' = TRUE
     /\ IF attempt' >= SimAfter /\ allowed
        THEN Simulate
        ELSE /\ state' = "reconnecting" /\ sim' = sim
             /\ dataSource' = IF source = "unreachable" \/ attempt' >= SimAfter
                              THEN "unreachable" ELSE "reconnecting"

\* _fallbackToSimulation, called when the constructor throws.
Fallback ==
  \/ allowed /\ Simulate /\ UNCHANGED <<attempt, timer>>
  \/ ~allowed /\ ScheduleReconnect("unreachable")

------------------------------------------------------------------------------
\* _connect, and the calls that lead to it.

\* this._ws exists and its readyState is CONNECTING or OPEN.
HasSocket == ws # None /\ phase[ws] \in {"connecting", "open"}

\* _connect up to its await: `armed' says whether a retry is pending at its entry.
Connect(armed) ==
  /\ timer' = armed
  /\ \/ /\ HasSocket \/ inFlight
        /\ UNCHANGED <<conn, state>>
     \/ /\ ~HasSocket /\ ~inFlight
        /\ \E a \in Attempts :
             /\ phase[a] = "unused" /\ ~probe[a]
             /\ phase' = [phase EXCEPT ![a] = "minting"]
             /\ epoch' = a
        /\ inFlight' = TRUE /\ state' = "connecting"
        /\ UNCHANGED <<probe, ws>>
  /\ UNCHANGED <<world, attempt, sim, label>>

\* Called by app.js when the page loads and by the sensing tab when it opens.
Start == Connect(timer)

\* Mutant: the timer's callback forgets to connect.
ReconnectTimer_Lost == timer /\ timer' = FALSE
                       /\ UNCHANGED <<world, conn, attempt, sim, state, label>>

\* The timer clears its own field and calls _connect.
ReconnectTimer == timer /\ Connect(FALSE)

\* Mutant: a socket is opened for whatever attempt got its ticket.
Minted_NoEpoch(a) ==
  /\ phase[a] = "minting" /\ inFlight' = FALSE
  /\ phase' = [phase EXCEPT ![a] = "connecting"] /\ ws' = a
  /\ UNCHANGED <<world, probe, epoch, retry, state, label>>

\* _connect after its await; a failed mint goes on without a ticket.  An attempt
\* that has been superseded or stopped clears the flag, which may be its successor's.
Minted(a) ==
  /\ phase[a] = "minting" /\ inFlight' = FALSE
  /\ \/ a # epoch /\ phase' = [phase EXCEPT ![a] = "unused"]
        /\ UNCHANGED <<ws, retry, state, dataSource>>
     \/ a = epoch /\ ~blocked /\ phase' = [phase EXCEPT ![a] = "connecting"] /\ ws' = a
        /\ UNCHANGED <<retry, state, dataSource>>
     \/ a = epoch /\ blocked /\ phase' = [phase EXCEPT ![a] = "unused"]
        /\ Fallback /\ UNCHANGED ws
  /\ UNCHANGED <<world, probe, epoch, serverSource>>

\* Mutant: stop() does not invalidate the attempt that awaits its ticket.
Stop_KeepsEpoch ==
  /\ inFlight' = FALSE /\ timer' = FALSE /\ sim' = FALSE
  /\ ws' = None
  /\ phase' = IF ws = None THEN phase ELSE [phase EXCEPT ![ws] = "closing"]
  /\ state' = "disconnected"
  /\ UNCHANGED <<world, probe, epoch, attempt, label>>

\* stop(): the label and the attempt count stay as they were.
Stop ==
  /\ epoch' = None /\ inFlight' = FALSE /\ timer' = FALSE /\ sim' = FALSE
  /\ ws' = None
  /\ phase' = IF ws = None THEN phase ELSE [phase EXCEPT ![ws] = "closing"]
  /\ state' = "disconnected"
  /\ UNCHANGED <<world, probe, attempt, label>>

------------------------------------------------------------------------------
\* Socket callbacks.  A socket that is still opening when it stops being the current
\* one has been closed by stop(), so the superseded branch of onopen never runs.

IsCurrent(a) == a = epoch /\ a = ws

\* Mutant: the simulation goes on beside the connection.
OnOpen_KeepsSimulation(a) ==
  /\ phase[a] = "connecting" /\ IsCurrent(a) /\ up
  /\ phase' = [phase EXCEPT ![a] = "open"]
  /\ probe' = [probe EXCEPT ![a] = TRUE]
  /\ attempt' = 0 /\ state' = "connected"
  /\ UNCHANGED <<world, epoch, inFlight, ws, timer, sim, label>>

\* The simulation ends and the source of the frames is asked for.
OnOpen(a) ==
  /\ phase[a] = "connecting" /\ IsCurrent(a) /\ up
  /\ phase' = [phase EXCEPT ![a] = "open"]
  /\ probe' = [probe EXCEPT ![a] = TRUE]
  /\ attempt' = 0 /\ sim' = FALSE /\ state' = "connected"
  /\ UNCHANGED <<world, epoch, inFlight, ws, timer, label>>

\* Mutant: an abandoned socket schedules a reconnect when it closes.
OnClose_AnySocket(a, code) ==
  /\ phase' = [phase EXCEPT ![a] = "unused"]
  /\ ws' = None
  /\ ScheduleReconnect(dataSource)
  /\ UNCHANGED <<world, probe, epoch, inFlight, serverSource>>

\* Mutant: a normal close is not published.
OnClose_QuietNormal(a, code) ==
  /\ phase' = [phase EXCEPT ![a] = "unused"]
  /\ \/ ~IsCurrent(a) /\ UNCHANGED <<ws, retry, state, dataSource>>
     \/ IsCurrent(a) /\ code # 1000 /\ ws' = None /\ ScheduleReconnect(dataSource)
     \/ IsCurrent(a) /\ code = 1000 /\ ws' = None /\ UNCHANGED <<retry, state, dataSource>>
  /\ UNCHANGED <<world, probe, epoch, inFlight, serverSource>>

\* The close of an abandoned socket is not an outage; a normal one is not retried.
OnClose(a, code) ==
  /\ phase' = [phase EXCEPT ![a] = "unused"]
  /\ \/ ~IsCurrent(a) /\ UNCHANGED <<ws, retry, state, dataSource>>
     \/ IsCurrent(a) /\ code # 1000 /\ ws' = None /\ ScheduleReconnect(dataSource)
     \/ IsCurrent(a) /\ code = 1000 /\ ws' = None
        /\ state' = "disconnected" /\ dataSource' = "reconnecting" /\ UNCHANGED retry
  /\ UNCHANGED <<world, probe, epoch, inFlight, serverSource>>

\* An attempt fails, or a connection is lost with its server.
Lost(a) == phase[a] \in {"connecting", "open"} /\ ~up /\ OnClose(a, 1006)

\* The server closes a connection, normally or because it restarts.
ServerCloses(a) == phase[a] = "open" /\ \E code \in {1000, 1001} : OnClose(a, code)

\* The event that follows the client's own close().
Closed(a) == phase[a] = "closing" /\ OnClose(a, 1000)

------------------------------------------------------------------------------
\* The label.

\* _applyServerSource: the canonical state decides, and the raw source without one.
ApplyServerSource(raw, canonical) ==
  /\ serverSource' = raw
  /\ dataSource' = IF canonical = "live" \/ (canonical = None /\ raw = "esp32")
                   THEN "live" ELSE "server-simulated"

\* The answer of the status request, or its failure, whenever it comes; the canonical
\* state may be missing, or say that live data are stale.
StatusAnswer(a) ==
  /\ probe[a]
  /\ probe' = [probe EXCEPT ![a] = FALSE]
  /\ \/ up /\ \E canonical \in {None, "other"} \cup (IF feed = "esp32" THEN {"live"} ELSE {}) :
                ApplyServerSource(feed, canonical)
     \/ dataSource' = "server-simulated" /\ UNCHANGED serverSource
  /\ UNCHANGED <<world, phase, epoch, inFlight, ws, retry, state>>

\* onmessage of the current socket, with _handleData: a source other than the last one
\* reported is applied.
Frame ==
  /\ ws # None /\ phase[ws] = "open" /\ IsCurrent(ws) /\ up
  /\ IF state = "connected" /\ feed # serverSource
     THEN ApplyServerSource(feed, None)
     ELSE UNCHANGED label
  /\ UNCHANGED <<world, conn, retry, state>>

\* The server comes and goes, and its hardware with it.
ServerChanges ==
  /\ up' \in BOOLEAN /\ feed' \in Feeds
  /\ UNCHANGED <<allowed, blocked, conn, retry, state, label>>

------------------------------------------------------------------------------
AttemptStep(a) == Minted(a) \/ OnOpen(a) \/ Lost(a) \/ Closed(a) \/ StatusAnswer(a)

Next ==
  \/ Start \/ Stop \/ ReconnectTimer \/ Frame \/ ServerChanges
  \/ \E a \in Attempts : AttemptStep(a) \/ ServerCloses(a)

\* Timers fire, and the network answers or gives up.
Fairness == /\ WF_vars(ReconnectTimer)
            /\ \A a \in Attempts : WF_vars(Minted(a)) /\ WF_vars(OnOpen(a))
                 /\ WF_vars(Lost(a)) /\ WF_vars(Closed(a)) /\ WF_vars(StatusAnswer(a))

Spec == Init /\ [][Next]_vars
FairSpec == Spec /\ Fairness

------------------------------------------------------------------------------
\* Properties.

\* Every field has its type; the attempt count is held at its limit.
TypeOK ==
  /\ up \in BOOLEAN /\ feed \in Feeds /\ allowed \in BOOLEAN /\ blocked \in BOOLEAN
  /\ phase \in [Attempts -> {"unused", "minting", "connecting", "open", "closing"}]
  /\ probe \in [Attempts -> BOOLEAN]
  /\ epoch \in Attempts \cup {None} /\ ws \in Attempts \cup {None}
  /\ inFlight \in BOOLEAN
  /\ attempt \in 0..MaxAttempts
  /\ timer \in BOOLEAN /\ sim \in BOOLEAN
  /\ state \in {"disconnected", "connecting", "connected", "reconnecting", "simulated"}
  /\ dataSource \in Sources
  /\ serverSource \in Feeds \cup {None}

\* The orphaned socket that the comment of _connect describes cannot come back: whatever
\* the order of start, stop, tickets and timers, a socket that is opening or open is the
\* one the service holds, and it holds the attempt of the current epoch.
NoOrphanSocket ==
  \A a \in Attempts : phase[a] \in {"connecting", "open"} <=> (a = ws /\ a = epoch)

\* Outages are counted, not retries: the attempt count grows only when the service loses
\* its own socket, or could not make one, with no retry pending.
AttemptCountsOutages ==
  [][attempt' > attempt =>
       /\ ~timer
       /\ epoch # None
       /\ phase[epoch] # "unused" /\ phase'[epoch] = "unused"]_vars

\* Invented frames and a connection exclude each other: an open socket has no simulation
\* timer beside it, so the two are never mixed on the screen.
NoMixedFrames == sim => \A a \in Attempts : phase[a] # "open"

\* Whatever state the service publishes, something stands behind it that will keep it true
\* or correct it: an open socket, the attempt under way, the simulation, or a pending retry.
StateIsBacked ==
  /\ state = "connected" => timer \/ \E a \in Attempts : phase[a] = "open"
  /\ state = "connecting" => timer \/ (epoch # None /\ phase[epoch] \in {"minting", "connecting"})
  /\ state = "reconnecting" => timer
  /\ state = "simulated" => sim /\ allowed

Idle == ws = None /\ ~inFlight /\ ~timer /\ ~sim /\ state = "disconnected"

\* A stopped service is woken by nothing but a new start: no late ticket, socket event or
\* timer gives it a socket, a timer or another state.
IdleUntilStart == [][Idle /\ ~Idle' => inFlight' /\ state' = "connecting"]_vars

\* How far the attempt of the current epoch has come.
Link ==
  IF epoch = None THEN "none"
  ELSE CASE phase[epoch] = "open" -> "open"
         [] phase[epoch] \in {"minting", "connecting"} -> "opening"
         [] OTHER -> "none"

Client == INSTANCE ReconnectingClient WITH
            link <- Link, retry <- timer, invented <- sim, shown <- state

\* The page cannot tell the service from one that makes one attempt after the other:
\* attempts that overlap while they await tickets, and late events of the sockets of
\* earlier ones, are steps of ReconnectingClient or no steps at all.
ImplementsClient == Client!ClientSpec

\* Reconnection: with the simulation off, a service whose server is up from some time on
\* is connected again and again, unless it was stopped or the server closed normally.
\* Without an end to the calls of start() it need not be: each may supersede the last.
Recovers ==
  (~allowed /\ ~blocked /\ <>[]up /\ <>[][~Start]_vars) =>
    []<>(state \in {"disconnected", "connected"} /\ ~timer)

\* The label ends up telling the truth: with the simulation off and the server gone for
\* good, a service that goes on trying says "unreachable" and stays with it.  Nothing checks
\* whose status answer comes late, so that "live" may return to the screen long after the
\* connection it was asked for; the retries correct it.  With the simulation on this is not
\* true: the retries may be over, and a late answer names the invented frames for good.
LabelSettles ==
  (~allowed /\ <>[](~up) /\ <>[][~Start /\ ~Stop]_vars /\ []<>(state # "disconnected")) =>
    <>[](dataSource = "unreachable")
==============================================================================
