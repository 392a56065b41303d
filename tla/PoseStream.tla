----------------------------- MODULE PoseStream -----------------------------
(***************************************************************************)
(* The pose stream of the web user interface: the live demo tab starts and  *)
(* stops a canvas, the canvas the stream of the pose service, and the pose  *)
(* service a connection of WebSocketService, whose callbacks run back up to *)
(* the tab.  Each layer keeps its own flag for "running", and a start is    *)
(* under way for as long as the connection takes; the other calls may come  *)
(* in that time.                                                            *)
(***************************************************************************)
EXTENDS WebSocketService

VARIABLES
  caller,        \* who awaits the call that made an entry
  streamConn,    \* PoseService.streamConnection
  shown,         \* the canvas's connectionState, which follows the pose service's
  canvasActive,  \* PoseDetectionCanvas.state.isActive
  demoActive     \* LiveDemoTab.state.isActive

poseVars == <<caller, streamConn, shown, canvasActive, demoActive>>
vars == <<wsVars, poseVars>>

Init ==
  /\ WsInit
  /\ caller = [e \in Entries |-> "none"]
  /\ streamConn = None
  /\ shown = "disconnected"
  /\ canvasActive = FALSE /\ demoActive = FALSE

------------------------------------------------------------------------------
\* The pose service.

\* startPoseStream with a stream recorded: its id is returned at once.
StreamIsRecorded ==
  /\ streamConn # None
  /\ UNCHANGED <<sock, reg, status, monitored, caller, streamConn, shown>>

\* startPoseStream while the URL has an entry: connect() returns the id of that entry,
\* open, opening or dead, and it is recorded as the stream.
StreamJoinsEntry ==
  /\ streamConn = None /\ reg # None
  /\ streamConn' = reg /\ monitored' = TRUE /\ shown' = "connecting"
  /\ UNCHANGED <<sock, reg, status, caller>>

\* startPoseStream makes a connection; `who' awaits it.
StreamConnects(who) ==
  /\ streamConn = None /\ reg = None
  /\ \E e \in Entries : Register(e) /\ caller' = [caller EXCEPT ![e] = who]
  /\ shown' = "connecting"
  /\ UNCHANGED <<monitored, streamConn>>

StartPoseStream(who) == StreamIsRecorded \/ StreamJoinsEntry \/ StreamConnects(who)

\* stopPoseStream, with the canvas's setConnectionState after it, which an exception of
\* disconnect() skips.  Nothing is done about a stream that is still being started.
StopPoseStream ==
  \/ /\ streamConn # None /\ DisconnectFails(streamConn)
     /\ UNCHANGED <<streamConn, shown>>
  \/ /\ streamConn # None /\ streamConn = reg /\ ~DisconnectThrows(streamConn)
     /\ Disconnect(streamConn) /\ streamConn' = None /\ shown' = "disconnected"
  \/ /\ streamConn = None \/ streamConn # reg
     /\ streamConn' = None /\ shown' = "disconnected"
     /\ UNCHANGED <<sock, reg, retry, attempts>>

------------------------------------------------------------------------------
\* The live demo tab and its canvas.

\* startDemo, by the button or when the sensing service reports a server, with
\* PoseDetectionCanvas.start up to its first await.
StartDemo ==
  /\ ~demoActive
  /\ demoActive' = TRUE /\ canvasActive' = TRUE
  /\ StartPoseStream("start")
  /\ UNCHANGED <<up, retry, attempts>>

\* Mutant: only the tab is stopped.
StopDemo_CanvasRuns ==
  /\ demoActive /\ demoActive' = FALSE
  /\ StopPoseStream
  /\ UNCHANGED <<up, status, monitored, caller, canvasActive>>

\* stopDemo, by the button or on leaving the tab, with PoseDetectionCanvas.stop.
StopDemo ==
  /\ demoActive
  /\ demoActive' = FALSE /\ canvasActive' = FALSE
  /\ StopPoseStream
  /\ UNCHANGED <<up, status, monitored, caller>>

\* forceReconnect, with reconnectStream: it gives up without a stream, without the
\* entry of the stream, and half way on the exception of disconnect().
ForceReconnect ==
  /\ demoActive /\ streamConn # None /\ streamConn = reg
  /\ \/ /\ DisconnectFails(reg)
        /\ UNCHANGED <<status, caller, streamConn, shown>>
     \/ /\ ~DisconnectThrows(reg)
        /\ \E e \in Entries :
             /\ Free(e)
             /\ sock' = [sock EXCEPT ![reg] = IF @ = "open" THEN "closing" ELSE @, ![e] = "connecting"]
             /\ reg' = e
             /\ status' = "connecting"
             /\ caller' = [caller EXCEPT ![e] = "reconnect"]
        /\ retry' = [retry EXCEPT ![streamConn] = 0] /\ attempts' = 0
        /\ streamConn' = None /\ shown' = "connecting"
  /\ UNCHANGED <<up, monitored, canvasActive, demoActive>>

------------------------------------------------------------------------------
\* The callbacks of a connection, up through the layers.

\* handlers.onOpen, then what awaits the call: the pose service records the stream and
\* monitors it, which throws if the map has forgotten the entry; the canvas tells the
\* tab that it is active, or becomes inactive.
OnOpen(e) ==
  /\ Established(e)
  /\ caller' = [caller EXCEPT ![e] = "none"]
  /\ \/ /\ caller[e] = "timer"
        /\ shown' = "connected"
        /\ UNCHANGED <<monitored, streamConn, canvasActive, demoActive>>
     \/ /\ caller[e] # "timer" /\ streamConn' = e /\ reg = e
        /\ shown' = "connected" /\ monitored' = TRUE
        /\ demoActive' = (caller[e] = "start" \/ demoActive)
        /\ UNCHANGED canvasActive
     \/ /\ caller[e] # "timer" /\ streamConn' = e /\ reg # e
        /\ shown' = "failed"
        /\ canvasActive' = (caller[e] # "start" /\ canvasActive)
        /\ UNCHANGED <<monitored, demoActive>>

\* connect() rejects; the catch blocks of the pose service and the canvas, or of the
\* reconnect timer, which finds no entry to schedule another retry for.
Rejected(e) ==
  /\ ConnectFails(e)
  /\ caller' = [caller EXCEPT ![e] = "none"]
  /\ \/ /\ caller[e] = "timer"
        /\ shown' = IF monitored THEN "failed" ELSE shown
        /\ IF attempts < MaxReconnects
           THEN UNCHANGED <<attempts, monitored>>
           ELSE attempts' = 0 /\ monitored' = FALSE
        /\ UNCHANGED canvasActive
     \/ /\ caller[e] # "timer"
        /\ shown' = "failed"
        /\ canvasActive' = (caller[e] # "start" /\ canvasActive)
        /\ UNCHANGED <<attempts, monitored>>
  /\ UNCHANGED <<streamConn, demoActive>>

OnError(e) ==
  /\ ErrorEvent(e)
  /\ shown' = "error"
  /\ UNCHANGED <<caller, streamConn, canvasActive, demoActive>>

\* handlers.onClose forgets the stream, whichever socket of the URL was closed; the
\* tab and the canvas stay active.
OnClose(event, e) ==
  /\ event
  /\ \/ reg = None /\ UNCHANGED <<streamConn, shown>>
     \/ reg # None /\ streamConn' = None /\ shown' = "disconnected"
  /\ UNCHANGED <<caller, canvasActive, demoActive>>

\* The reconnect timer: it finds the entry it was armed for, or makes a new one.
RetryTimer(e) ==
  /\ RetryFinds(e)
  /\ \/ reg # None /\ UNCHANGED <<sock, reg, status, caller>>
     \/ reg = None /\ \E f \in Entries \ {e} :
          Register(f) /\ caller' = [caller EXCEPT ![f] = "timer"]
  /\ UNCHANGED <<up, monitored, streamConn, shown, canvasActive, demoActive>>

------------------------------------------------------------------------------
NetworkStep(e) ==
  \/ OnOpen(e) \/ Rejected(e)
  \/ OnClose(Lost(e), e) \/ OnClose(Closed(e), e)

Next ==
  \/ StartDemo \/ StopDemo \/ ForceReconnect
  \/ ServerChanges /\ UNCHANGED poseVars
  \/ \E e \in Entries : NetworkStep(e) \/ OnError(e) \/ OnClose(ServerCloses(e), e) \/ RetryTimer(e)

Spec == Init /\ [][Next]_vars

\* Timers fire and the network answers; nobody has to press a button.
FairSpec == Spec /\ \A e \in Entries : WF_vars(NetworkStep(e)) /\ WF_vars(RetryTimer(e))

------------------------------------------------------------------------------
\* Properties.

Live == {e \in Entries : sock[e] = "open"}
Pending == {e \in Entries : sock[e] = "connecting"}

\* Every field has its type; attempts and retries keep within the limit.
TypeOK ==
  /\ up \in BOOLEAN
  /\ sock \in [Entries -> {"closed", "connecting", "open", "closing"}]
  /\ reg \in Entries \cup {None}
  /\ status \in {"connecting", "connected", "error", "closed"}
  /\ retry \in [Entries -> 0..MaxReconnects]
  /\ attempts \in 0..MaxReconnects
  /\ monitored \in BOOLEAN
  /\ caller \in [Entries -> {"none", "start", "reconnect", "timer"}]
  /\ streamConn \in Entries \cup {None}
  /\ shown \in {"disconnected", "connecting", "connected", "error", "failed"}
  /\ canvasActive \in BOOLEAN /\ demoActive \in BOOLEAN

\* The debug panel's WebSocket health never claims more than there is: a registered
\* connection is marked connected only while its own socket is open, connecting only while
\* that socket is being made, and never is one that the service has begun to close, whatever
\* events of other sockets of the URL come in between.  The converse is false: the late
\* close or error of a replaced socket marks its open successor closed or in error.
StatusNeverOverclaims ==
  reg # None =>
    /\ sock[reg] # "closing"
    /\ status = "connected"  => sock[reg] = "open"
    /\ status = "connecting" => sock[reg] = "connecting"

\* A stopped tab draws nothing: the canvas is active only under an active tab.  (An active
\* tab over an inactive canvas does happen: the canvas swallows a failed start.)
CanvasFollowsTab == canvasActive => demoActive

\* websocket.service.js:263, "Attempt reconnection if not intentionally closed": a retry
\* that was armed leads to another attempt, unless the user stops.
RetryReconnects == \A e \in Entries : retry[e] # 0 ~> (Pending # {} \/ Live # {} \/ ~demoActive)

\* No call and no close is waiting for the network.
Settled == \A e \in Entries : sock[e] \in {"open", "closed"}

\* No history wedges the stream: with a server that stays up and keeps its connections,
\* a user who goes on starting and stopping the demo, and lets the network settle before
\* every click, has an open stream again and again.
PatientStartsWork ==
  ( /\ <>[]up /\ []<>demoActive /\ []<>~demoActive
    /\ <>[][Settled \/ ~(StartDemo \/ StopDemo \/ ForceReconnect)]_vars
    /\ <>[][\A e \in Entries : ~ServerCloses(e)]_vars )
  => []<>(Live # {} /\ reg \in Live /\ streamConn = reg)
==============================================================================
