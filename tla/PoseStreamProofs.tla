-------------------------- MODULE PoseStreamProofs --------------------------
(***************************************************************************)
(* Safety of PoseStream for any number of connections and any limit of      *)
(* retries.                                                                 *)
(***************************************************************************)
EXTENDS PoseStream, TLAPS

\* The assumptions on the constants, for citing.
LEMMA Bounds == MaxReconnects \in Nat /\ 1 <= MaxReconnects /\ None \notin Entries
  BY ConstantsAssumption DEF ConstantsAssumption

Socks   == {"closed", "connecting", "open", "closing"}
Callers == {"none", "start", "reconnect", "timer"}

\* The service's variables, and its client's.
ServiceType ==
  /\ sock \in [Entries -> Socks]
  /\ reg \in Entries \cup {None}
  /\ status \in {"connecting", "connected", "error", "closed"}
  /\ retry \in [Entries -> 0..MaxReconnects]
  /\ attempts \in 0..MaxReconnects

FlagType ==
  /\ up \in BOOLEAN /\ monitored \in BOOLEAN
  /\ canvasActive \in BOOLEAN /\ demoActive \in BOOLEAN

ClientType ==
  /\ caller \in [Entries -> Callers]
  /\ streamConn \in Entries \cup {None}
  /\ shown \in {"disconnected", "connecting", "connected", "error", "failed"}

\* TypeOK in the three parts that the steps change.
LEMMA Split == TypeOK <=> ServiceType /\ FlagType /\ ClientType
  BY DEF TypeOK, ServiceType, FlagType, ClientType, Socks, Callers

\* The page is loaded with its types.
LEMMA InitType == Init => TypeOK
<1> SUFFICES ASSUME Init PROVE TypeOK
  OBVIOUS
<1>1. ServiceType /\ ClientType
  BY Bounds DEF Init, WsInit, ServiceType, ClientType, Socks, Callers
<1>2. FlagType
  BY DEF Init, WsInit, FlagType
<1> QED  BY <1>1, <1>2, Split

\* The tab's calls.
LEMMA StartType == ASSUME TypeOK, StartDemo PROVE TypeOK'
<1>0. ServiceType /\ FlagType /\ ClientType
  BY Split
<1>1. FlagType'
  <2>1. UNCHANGED up /\ demoActive' = TRUE /\ canvasActive' = TRUE
    BY DEF StartDemo
  <2>2. monitored' = monitored \/ monitored' = TRUE
    BY DEF StartDemo, StartPoseStream, StreamIsRecorded, StreamJoinsEntry, StreamConnects
  <2> QED  BY <1>0, <2>1, <2>2 DEF FlagType
<1>2. ServiceType' /\ ClientType'
  <2>1. CASE StreamIsRecorded
    BY <1>0, <2>1 DEF StartDemo, StreamIsRecorded, ServiceType, ClientType
  <2>2. CASE StreamJoinsEntry
    BY <1>0, <2>2 DEF StartDemo, StreamJoinsEntry, ServiceType, ClientType
  <2>3. CASE StreamConnects("start")
    <3>1. PICK e \in Entries : Register(e) /\ caller' = [caller EXCEPT ![e] = "start"]
      BY <2>3 DEF StreamConnects
    <3> QED  BY <1>0, <2>3, <3>1
             DEF StartDemo, StreamConnects, Register, ServiceType, ClientType, Socks, Callers
  <2> QED  BY <2>1, <2>2, <2>3 DEF StartDemo, StartPoseStream
<1> QED  BY <1>1, <1>2, Split DEF ServiceType, FlagType, ClientType, TypeOK, Socks, Callers

\* Stopping the demo keeps the types.
LEMMA StopType == ASSUME TypeOK, StopDemo PROVE TypeOK'
<1>0. ServiceType /\ FlagType /\ ClientType
  BY Split
<1>1. FlagType'
  BY <1>0 DEF StopDemo, FlagType
<1>2. ServiceType' /\ ClientType'
  <2>1. CASE streamConn = reg /\ streamConn # None /\ Disconnect(streamConn)
                /\ streamConn' = None /\ shown' = "disconnected"
    BY <1>0, <2>1, Bounds DEF StopDemo, Disconnect, ServiceType, ClientType, Socks
  <2>2. CASE UNCHANGED <<sock, reg, retry, attempts>>
    BY <1>0, <2>2 DEF StopDemo, StopPoseStream, ServiceType, ClientType
  <2>3. CASE streamConn # None /\ DisconnectFails(streamConn) /\ UNCHANGED <<streamConn, shown>>
    <3>1. retry' \in [Entries -> 0..MaxReconnects]
      BY <1>0, <2>3, Bounds DEF DisconnectFails, DisconnectThrows, ServiceType
    <3> QED  BY <1>0, <2>3, <3>1 DEF StopDemo, DisconnectFails, DisconnectThrows, ServiceType, ClientType
  <2> QED  BY <2>1, <2>2, <2>3 DEF StopDemo, StopPoseStream
<1> QED  BY <1>1, <1>2 DEF ServiceType, FlagType, ClientType, TypeOK, Socks, Callers

\* A forced reconnection keeps the types.
LEMMA ReconnectType == ASSUME TypeOK, ForceReconnect PROVE TypeOK'
<1>0. ServiceType /\ FlagType /\ ClientType
  BY Split
<1>1. FlagType'
  BY <1>0 DEF ForceReconnect, FlagType
<1>2. CASE DisconnectFails(reg) /\ UNCHANGED <<status, caller, streamConn, shown>>
  <2>1. retry' \in [Entries -> 0..MaxReconnects]
    <3>1. retry' = [retry EXCEPT ![reg] = 0]
      BY <1>2 DEF DisconnectFails
    <3>2. 0 \in 0..MaxReconnects
      BY Bounds
    <3> QED  BY <1>0, <3>1, <3>2 DEF ServiceType
  <2>2. ServiceType' /\ ClientType'
    BY <1>0, <1>2, <2>1 DEF DisconnectFails, DisconnectThrows, ServiceType, ClientType
  <2> QED  BY <1>1, <2>2 DEF ServiceType, FlagType, ClientType, TypeOK, Socks, Callers
<1>3. CASE ~DisconnectThrows(reg)
  <2>1. PICK e \in Entries :
          /\ sock' = [sock EXCEPT ![reg] = IF @ = "open" THEN "closing" ELSE @, ![e] = "connecting"]
          /\ reg' = e /\ status' = "connecting"
          /\ caller' = [caller EXCEPT ![e] = "reconnect"]
    BY <1>3 DEF ForceReconnect, DisconnectFails, DisconnectThrows
  <2>2. sock' \in [Entries -> Socks]
    BY <1>0, <2>1 DEF ServiceType, Socks
  <2>3. /\ retry' = [retry EXCEPT ![streamConn] = 0] /\ attempts' = 0
        /\ streamConn' = None /\ shown' = "connecting"
    BY <1>3 DEF ForceReconnect, DisconnectFails, DisconnectThrows
  <2>4. ServiceType' /\ ClientType'
    <3>1. 0 \in 0..MaxReconnects
      BY Bounds
    <3>2. caller' \in [Entries -> Callers]
      BY <1>0, <2>1 DEF ClientType, Callers
    <3>3. retry' \in [Entries -> 0..MaxReconnects]
      BY <1>0, <2>3, <3>1 DEF ServiceType
    <3> QED  BY <2>1, <2>2, <2>3, <3>1, <3>2, <3>3 DEF ServiceType, ClientType
  <2> QED  BY <1>1, <2>4 DEF ServiceType, FlagType, ClientType, TypeOK, Socks, Callers
<1> QED  BY <1>2, <1>3 DEF ForceReconnect, DisconnectFails, DisconnectThrows

\* The callbacks.
LEMMA OpenType == ASSUME TypeOK, NEW e \in Entries, OnOpen(e) PROVE TypeOK'
<1>0. ServiceType /\ FlagType /\ ClientType
  BY Split
<1>1. up' = up /\ monitored' \in BOOLEAN
  BY <1>0 DEF OnOpen, Established, FlagType
<1>2. canvasActive' \in BOOLEAN /\ demoActive' \in BOOLEAN
  <2>1. canvasActive' = canvasActive \/ canvasActive' = (caller[e] # "start" /\ canvasActive)
    BY DEF OnOpen
  <2>2. demoActive' = demoActive \/ demoActive' = (caller[e] = "start" \/ demoActive)
    BY DEF OnOpen
  <2> QED  BY <1>0, <2>1, <2>2 DEF FlagType
<1>3. ServiceType'
  BY <1>0, Bounds DEF OnOpen, Established, ServiceType, Socks
<1>4. ClientType'
  BY <1>0 DEF OnOpen, ClientType, Callers
<1> QED  BY <1>0, <1>1, <1>2, <1>3, <1>4 DEF ServiceType, FlagType, ClientType, TypeOK, Socks, Callers

\* A refused stream keeps the types.
LEMMA RejectedType == ASSUME TypeOK, NEW e \in Entries, Rejected(e) PROVE TypeOK'
<1>0. ServiceType /\ FlagType /\ ClientType
  BY Split
<1>1. up' = up /\ demoActive' = demoActive
  BY DEF Rejected, ConnectFails
<1>2. canvasActive' \in BOOLEAN /\ monitored' \in BOOLEAN
  <2>1. canvasActive' = canvasActive \/ canvasActive' = (caller[e] # "start" /\ canvasActive)
    BY DEF Rejected
  <2>2. monitored' = monitored \/ monitored' = FALSE
    BY DEF Rejected
  <2> QED  BY <1>0, <2>1, <2>2 DEF FlagType
<1>3. attempts' \in 0..MaxReconnects
  BY <1>0, Bounds DEF Rejected, ServiceType
<1>4. sock' \in [Entries -> Socks] /\ reg' = None /\ UNCHANGED <<status, retry>>
  BY <1>0 DEF Rejected, ConnectFails, ServiceType, Socks
<1>5. ClientType'
  BY <1>0 DEF Rejected, ClientType, Callers
<1> QED  BY <1>0, <1>1, <1>2, <1>3, <1>4, <1>5
         DEF ServiceType, FlagType, ClientType, TypeOK, Socks, Callers

\* A close event keeps the types, whether it arms a retry or gives up.
LEMMA CloseType ==
  ASSUME TypeOK, NEW e \in Entries, NEW clean \in BOOLEAN, OnClose(CloseEvent(e, clean), e)
  PROVE  TypeOK'
<1>0. ServiceType /\ FlagType /\ ClientType
  BY Split
<1>1. UNCHANGED <<up, caller, canvasActive, demoActive>>
  BY DEF OnClose, CloseEvent
<1>2. monitored' = monitored \/ monitored' = FALSE
  BY DEF OnClose, CloseEvent
<1>3. FlagType'
  BY <1>0, <1>1, <1>2 DEF FlagType
<1>4. sock' \in [Entries -> Socks] /\ reg' \in Entries \cup {None}
  BY <1>0 DEF OnClose, CloseEvent, ServiceType, Socks
<1>5. status' \in {"connecting", "connected", "error", "closed"}
  BY <1>0 DEF OnClose, CloseEvent, ServiceType
<1>6. attempts' \in 0..MaxReconnects /\ retry' \in [Entries -> 0..MaxReconnects]
  BY <1>0, Bounds DEF OnClose, CloseEvent, ServiceType
<1>7. ClientType'
  BY <1>0, <1>1 DEF OnClose, ClientType
<1> QED  BY <1>3, <1>4, <1>5, <1>6, <1>7 DEF ServiceType, FlagType, ClientType, TypeOK, Socks, Callers

\* The retry keeps the types, whatever it finds in the map.
LEMMA RetryType == ASSUME TypeOK, NEW e \in Entries, RetryTimer(e) PROVE TypeOK'
<1>0. ServiceType /\ FlagType /\ ClientType
  BY Split
<1>1. FlagType'
  BY <1>0 DEF RetryTimer, FlagType
<1>2. retry' \in [Entries -> 0..MaxReconnects] /\ attempts' \in 0..MaxReconnects
  BY <1>0, Bounds DEF RetryTimer, RetryFinds, ServiceType
<1>3. CASE reg # None /\ UNCHANGED <<sock, reg, status, caller>>
  BY <1>0, <1>1, <1>2, <1>3 DEF RetryTimer, ServiceType, FlagType, ClientType, TypeOK, Socks, Callers
<1>4. CASE \E f \in Entries \ {e} : Register(f) /\ caller' = [caller EXCEPT ![f] = "timer"]
  <2>1. PICK f \in Entries : Register(f) /\ caller' = [caller EXCEPT ![f] = "timer"]
    BY <1>4
  <2>2. sock' \in [Entries -> Socks] /\ reg' = f /\ status' = "connecting"
    BY <1>0, <2>1 DEF Register, ServiceType, Socks
  <2>3. caller' \in [Entries -> Callers]
    BY <1>0, <2>1 DEF ClientType, Callers
  <2> QED  BY <1>0, <1>1, <1>2, <2>2, <2>3
           DEF RetryTimer, ServiceType, FlagType, ClientType, TypeOK, Socks, Callers
<1> QED  BY <1>3, <1>4 DEF RetryTimer

\* Every step keeps the types.
LEMMA TypeStep == TypeOK /\ [Next]_vars => TypeOK'
<1> SUFFICES ASSUME TypeOK, [Next]_vars PROVE TypeOK'
  OBVIOUS
<1>1. CASE ServerChanges /\ UNCHANGED poseVars
  BY <1>1 DEF ServerChanges, poseVars, TypeOK
<1>2. ASSUME NEW e \in Entries, OnError(e) PROVE TypeOK'
  BY <1>2 DEF OnError, ErrorEvent, TypeOK
<1>3. ASSUME NEW e \in Entries, OnClose(Lost(e), e) PROVE TypeOK'
  BY <1>3, CloseType DEF OnClose, Lost
<1>4. ASSUME NEW e \in Entries, OnClose(Closed(e), e) \/ OnClose(ServerCloses(e), e) PROVE TypeOK'
  BY <1>4, CloseType DEF OnClose, Closed, ServerCloses
<1>5. CASE UNCHANGED vars
  BY <1>5 DEF vars, wsVars, poseVars, TypeOK
<1> QED  BY <1>1, <1>2, <1>3, <1>4, <1>5, StartType, StopType, ReconnectType, OpenType,
            RejectedType, RetryType DEF Next, NetworkStep

\* The types hold in every reachable state; no retry passes the limit.
THEOREM TypeCorrect == Spec => []TypeOK
  BY InitType, TypeStep, PTL DEF Spec

------------------------------------------------------------------------------
\* An entry is marked connecting when it is made and connected when its own socket opens;
\* the call that may close its socket takes it out of the map.
LEMMA RegisterTrue ==
  ASSUME TypeOK, NEW e \in Entries, Register(e)
  PROVE  StatusNeverOverclaims'
  BY DEF Register, StatusNeverOverclaims, TypeOK

\* A registered connection is never marked as more than its own socket is, for any
\* number of connections.
THEOREM StatusBacked == Spec => []StatusNeverOverclaims
<1>1. Init => StatusNeverOverclaims
  BY DEF Init, WsInit, StatusNeverOverclaims
<1>2. TypeOK /\ StatusNeverOverclaims /\ [Next]_vars => StatusNeverOverclaims'
  <2> SUFFICES ASSUME TypeOK, StatusNeverOverclaims, [Next]_vars PROVE StatusNeverOverclaims'
    OBVIOUS
  <2> USE DEF StatusNeverOverclaims
  <2>1. CASE StartDemo
    BY <2>1, RegisterTrue
       DEF StartDemo, StartPoseStream, StreamIsRecorded, StreamJoinsEntry, StreamConnects
  <2>2. CASE StopDemo
    BY <2>2 DEF StopDemo, StopPoseStream, Disconnect, DisconnectFails
  <2>3. CASE ForceReconnect
    <3>0. CASE DisconnectFails(reg) /\ UNCHANGED <<status, caller, streamConn, shown>>
      BY <3>0 DEF DisconnectFails
    <3> SUFFICES ASSUME ~DisconnectThrows(reg) PROVE StatusNeverOverclaims'
      BY <2>3, <3>0 DEF ForceReconnect, DisconnectFails, DisconnectThrows
    <3>1. PICK e \in Entries :
            /\ sock' = [sock EXCEPT ![reg] = IF @ = "open" THEN "closing" ELSE @, ![e] = "connecting"]
            /\ reg' = e /\ status' = "connecting"
      BY <2>3 DEF ForceReconnect, DisconnectFails, DisconnectThrows
    <3>2. sock'[e] = "connecting"
      BY <3>1 DEF TypeOK
    <3> QED  BY <3>1, <3>2
  <2>4. CASE ServerChanges \/ UNCHANGED vars
    BY <2>4 DEF ServerChanges, vars, wsVars
  <2>5. ASSUME NEW e \in Entries, OnOpen(e) PROVE StatusNeverOverclaims'
    BY <2>5 DEF OnOpen, Established, TypeOK
  <2>6. ASSUME NEW e \in Entries, Rejected(e) PROVE StatusNeverOverclaims'
    BY <2>6 DEF Rejected, ConnectFails
  <2>7. ASSUME NEW e \in Entries, OnError(e) PROVE StatusNeverOverclaims'
    BY <2>7 DEF OnError, ErrorEvent
  <2>8. ASSUME NEW e \in Entries, NEW clean \in BOOLEAN, CloseEvent(e, clean) PROVE StatusNeverOverclaims'
    BY <2>8 DEF CloseEvent
  <2>9. ASSUME NEW e \in Entries, RetryTimer(e) PROVE StatusNeverOverclaims'
    BY <2>9, RegisterTrue DEF RetryTimer, RetryFinds
  <2> QED  BY <2>1, <2>2, <2>3, <2>4, <2>5, <2>6, <2>7, <2>8, <2>9
           DEF Next, NetworkStep, OnClose, Lost, Closed, ServerCloses
<1> QED  BY <1>1, <1>2, TypeCorrect, PTL DEF Spec

\* No continuation makes the canvas active, and the ones that may make the tab active
\* again leave the canvas alone.
THEOREM CanvasUnderTab == Spec => []CanvasFollowsTab
<1>1. Init => CanvasFollowsTab
  BY DEF Init, CanvasFollowsTab
<1>2. TypeOK /\ CanvasFollowsTab /\ [Next]_vars => CanvasFollowsTab'
  <2> SUFFICES ASSUME TypeOK, CanvasFollowsTab, [Next]_vars PROVE CanvasFollowsTab'
    OBVIOUS
  <2>1. CASE StartDemo
    BY <2>1 DEF StartDemo, CanvasFollowsTab
  <2>2. CASE StopDemo
    BY <2>2 DEF StopDemo, CanvasFollowsTab
  <2>3. ASSUME UNCHANGED <<canvasActive, demoActive>> PROVE CanvasFollowsTab'
    BY <2>3 DEF CanvasFollowsTab
  <2>4. ASSUME NEW e \in Entries, OnOpen(e) PROVE CanvasFollowsTab'
    <3>1. CASE UNCHANGED canvasActive /\ demoActive' = (caller[e] = "start" \/ demoActive)
      BY <3>1 DEF CanvasFollowsTab
    <3>2. CASE UNCHANGED demoActive /\ canvasActive' = (caller[e] # "start" /\ canvasActive)
      BY <3>2 DEF CanvasFollowsTab
    <3> QED  BY <2>3, <2>4, <3>1, <3>2 DEF OnOpen
  <2>5. ASSUME NEW e \in Entries, Rejected(e) PROVE CanvasFollowsTab'
    <3>1. CASE UNCHANGED demoActive /\ canvasActive' = (caller[e] # "start" /\ canvasActive)
      BY <3>1 DEF CanvasFollowsTab
    <3> QED  BY <2>3, <2>5, <3>1 DEF Rejected
  <2>6. CASE ForceReconnect
    BY <2>3, <2>6 DEF ForceReconnect
  <2>7. CASE (ServerChanges /\ UNCHANGED poseVars) \/ UNCHANGED vars
    BY <2>3, <2>7 DEF vars, poseVars
  <2>8. ASSUME NEW e \in Entries, OnError(e) \/ RetryTimer(e) PROVE CanvasFollowsTab'
    BY <2>3, <2>8 DEF OnError, RetryTimer
  <2>9. ASSUME NEW e \in Entries,
               OnClose(Lost(e), e) \/ OnClose(Closed(e), e) \/ OnClose(ServerCloses(e), e)
        PROVE  CanvasFollowsTab'
    BY <2>3, <2>9 DEF OnClose
  <2> QED  BY <2>1, <2>2, <2>4, <2>5, <2>6, <2>7, <2>8, <2>9 DEF Next, NetworkStep
<1> QED  BY <1>1, <1>2, TypeCorrect, PTL DEF Spec
==============================================================================
