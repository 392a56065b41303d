--------------------------- MODULE WsServiceProofs ---------------------------
(***************************************************************************)
(* Safety of WsService for any number of sockets, servers and attempts.     *)
(***************************************************************************)
EXTENDS WsService, TLAPS

\* At least one reconnect attempt is allowed.
LEMMA MaxPositive == MaxAttempts \in Nat /\ 1 <= MaxAttempts
  BY ConstantsAssumption DEF ConstantsAssumption

\* Type correctness of the initial state and of every step, action by action.
LEMMA InitType == Init => TypeOK
<1>1. Init => attempt \in 0..MaxAttempts
  BY MaxPositive DEF Init
<1>2. Init => active \in BOOLEAN /\ timer \in BOOLEAN /\ sim \in BOOLEAN
  BY DEF Init
<1> QED  BY <1>1, <1>2 DEF Init, TypeOK, Urls

\* A call of connect, by the user or by the timer, keeps the types.
LEMMA CallType ==
  ASSUME TypeOK, NEW url \in Urls, NEW armed \in BOOLEAN, Call(url, armed)
  PROVE  TypeOK'
<1> USE DEF TypeOK, Urls
<1>1. CASE Simulate(url, armed)
  BY <1>1, MaxPositive DEF Simulate, Enter
<1>2. CASE KeepSocket(url, armed)
  BY <1>2, MaxPositive DEF KeepSocket, Enter
<1>3. CASE OpenSocket(url, armed)
  BY <1>3, MaxPositive DEF OpenSocket, Enter
<1>4. CASE OpenThrows(url)
  BY <1>4, MaxPositive DEF OpenThrows, Enter
<1> QED  BY <1>1, <1>2, <1>3, <1>4 DEF Call

\* A close event keeps the types: the attempt count stops at its limit.
LEMMA CloseType ==
  ASSUME TypeOK, NEW s \in Sockets, NEW code \in {1000, 1006}, OnClose(s, code)
  PROVE  TypeOK'
<1>1. attempt' \in 0..MaxAttempts
  BY MaxPositive DEF OnClose, ScheduleReconnect, TypeOK
<1>2. active' \in BOOLEAN /\ timer' \in BOOLEAN /\ sim' \in BOOLEAN
  <2>1. active \in BOOLEAN /\ timer \in BOOLEAN /\ sim \in BOOLEAN
    BY DEF TypeOK
  <2>2. ScheduleReconnect(attempt) => sim' \in BOOLEAN /\ timer' \in BOOLEAN
    <3> SUFFICES ASSUME ScheduleReconnect(attempt) PROVE sim' \in BOOLEAN /\ timer' \in BOOLEAN
      OBVIOUS
    <3>1. sim' = TRUE
      BY DEF ScheduleReconnect
    <3>2. CASE timer' = timer
      BY <2>1, <3>1, <3>2
    <3>3. CASE timer' = TRUE
      BY <3>1, <3>3
    <3> QED  BY <3>2, <3>3 DEF ScheduleReconnect
  <2>3. UNCHANGED <<attempt, timer, sim>> => sim' \in BOOLEAN /\ timer' \in BOOLEAN
    BY <2>1
  <2>4. UNCHANGED <<up, target, active>> => active' \in BOOLEAN
    BY <2>1
  <2> QED  BY <2>2, <2>3, <2>4 DEF OnClose
<1>3. status' \in {"connecting", "connected", "disconnected", "simulated"}
  BY DEF OnClose, ScheduleReconnect, TypeOK
<1>4. /\ sock' \in [Sockets -> {"unused", "connecting", "open", "closing", "aborting"}]
      /\ server' \in [Sockets -> Servers \cup {None}]
  BY DEF OnClose, TypeOK
<1> QED  BY <1>1, <1>2, <1>3, <1>4 DEF OnClose, TypeOK

\* Every step keeps the types.
LEMMA TypeStep == TypeOK /\ [Next]_vars => TypeOK'
<1> SUFFICES ASSUME TypeOK, [Next]_vars PROVE TypeOK'
  OBVIOUS
<1>1. ASSUME NEW url \in Urls, Connect(url) PROVE TypeOK'
  BY <1>1, CallType DEF Connect, TypeOK
<1>2. CASE Disconnect
  BY <1>2 DEF Disconnect, TypeOK
<1>3. CASE ReconnectTimer
  BY <1>3, CallType DEF ReconnectTimer, TypeOK
<1>4. CASE SimulationTick
  BY <1>4 DEF SimulationTick, TypeOK
<1>5. CASE ServersChange
  BY <1>5 DEF ServersChange, TypeOK
<1>6. ASSUME NEW s \in Sockets, OnOpen(s) PROVE TypeOK'
  <2>1. attempt' \in 0..MaxAttempts
    BY <1>6, MaxPositive DEF OnOpen
  <2>2. sock' \in [Sockets -> {"unused", "connecting", "open", "closing", "aborting"}]
    BY <1>6 DEF OnOpen, TypeOK
  <2>3. sim' \in BOOLEAN
    BY <1>6 DEF OnOpen
  <2> QED  BY <1>6, <2>1, <2>2, <2>3 DEF OnOpen, TypeOK
<1>7. ASSUME NEW s \in Sockets, Refused(s) \/ Lost(s) \/ Closed(s) \/ ServerCloses(s) PROVE TypeOK'
  BY <1>7, CloseType DEF Refused, Lost, Closed, ServerCloses
<1>8. CASE UNCHANGED vars
  BY <1>8 DEF vars, TypeOK
<1> QED  BY <1>1, <1>2, <1>3, <1>4, <1>5, <1>6, <1>7, <1>8 DEF Next, SocketStep

\* The types hold in every reachable state.
THEOREM TypeCorrect == Spec => []TypeOK
  BY InitType, TypeStep, PTL DEF Spec

\* disconnect clears both timers, and only connect and the close events of an
\* active service set them.
THEOREM QuietAfterDisconnect == Spec => []NoTimerAfterDisconnect
<1>1. Init => NoTimerAfterDisconnect
  BY DEF Init, NoTimerAfterDisconnect
<1>2. TypeOK /\ NoTimerAfterDisconnect /\ [Next]_vars => NoTimerAfterDisconnect'
  <2> SUFFICES ASSUME TypeOK, NoTimerAfterDisconnect, [Next]_vars PROVE NoTimerAfterDisconnect'
    OBVIOUS
  <2> USE DEF NoTimerAfterDisconnect
  <2>1. ASSUME NEW url \in Urls, NEW armed \in BOOLEAN, Call(url, armed) PROVE NoTimerAfterDisconnect'
    BY <2>1 DEF Call, Simulate, KeepSocket, OpenSocket, OpenThrows, Enter
  <2>2. ASSUME NEW s \in Sockets, NEW code \in {1000, 1006}, OnClose(s, code)
        PROVE  NoTimerAfterDisconnect'
    BY <2>2 DEF OnClose, ScheduleReconnect
  <2>3. ASSUME NEW s \in Sockets, Refused(s) \/ Lost(s) \/ Closed(s) \/ ServerCloses(s)
        PROVE  NoTimerAfterDisconnect'
    BY <2>2, <2>3 DEF Refused, Lost, Closed, ServerCloses
  <2>4. ASSUME NEW s \in Sockets, OnOpen(s) PROVE NoTimerAfterDisconnect'
    BY <2>4 DEF OnOpen
  <2>5. ASSUME NEW url \in Urls, Connect(url) PROVE NoTimerAfterDisconnect'
    BY <2>1, <2>5 DEF Connect, TypeOK
  <2>6. CASE ReconnectTimer
    BY <2>1, <2>6 DEF ReconnectTimer, TypeOK
  <2>7. CASE Disconnect \/ SimulationTick \/ ServersChange \/ UNCHANGED vars
    BY <2>7 DEF Disconnect, SimulationTick, ServersChange, vars
  <2> QED  BY <2>3, <2>4, <2>5, <2>6, <2>7 DEF Next, SocketStep
<1> QED  BY <1>1, <1>2, TypeCorrect, PTL DEF Spec

\* The inductive invariant.  Only a connected service has a socket of its own, one without a
\* URL has none, and while that socket is open nothing is simulated.  A counted attempt has
\* its timer, and so has the simulation, unless a socket that is opening will end it.
BackedInv ==
  /\ ~active \/ target = None => ws = None
  /\ ws # None /\ sock[ws] = "open" => ~sim
  /\ active /\ attempt > 0 => timer
  /\ active /\ target # None /\ sim => timer \/ Pending # {}
  /\ StatusIsBacked

\* None is neither a socket nor a URL.
LEMMA NoneIsOther == None \notin Sockets /\ None \notin Servers /\ None \notin BadUrls
  BY ConstantsAssumption DEF ConstantsAssumption

\* Every call of connect keeps the invariant, whether its timer was armed or has just fired.
LEMMA CallBacked ==
  ASSUME TypeOK, BackedInv, NEW url \in Urls, NEW armed \in BOOLEAN,
         ~active \/ url = target, Call(url, armed)
  PROVE  BackedInv'
<1>0. active' = TRUE /\ target' = url
  BY DEF Call, Simulate, KeepSocket, OpenSocket, OpenThrows, Enter
<1>1. CASE Simulate(url, armed)
  <2>1. ws' = None /\ sim' /\ attempt' = 0 /\ status' = "simulated" /\ url = None
    BY <1>1 DEF Simulate, BackedInv
  <2> QED  BY <1>0, <2>1 DEF BackedInv, StatusIsBacked
<1>2. CASE KeepSocket(url, armed)
  <2>1. UNCHANGED <<sock, ws, sim, status>> /\ attempt' = 0 /\ url # None
    BY <1>2 DEF KeepSocket
  <2>2. ws \in Sockets /\ sock[ws] \in {"connecting", "open"} /\ ws # None
    BY <1>2, NoneIsOther DEF KeepSocket, HasSocket
  <2>3. CASE sock[ws] = "connecting"
    <3>1. ws \in Pending' /\ Pending' = Pending /\ Open' = Open
      BY <2>1, <2>2, <2>3 DEF Pending, Open
    <3> QED  BY <1>0, <2>1, <2>2, <2>3, <3>1 DEF BackedInv, StatusIsBacked
  <2>4. CASE sock[ws] = "open"
    <3>1. ws \in Open' /\ Pending' = Pending /\ Open' = Open
      BY <2>1, <2>2, <2>4 DEF Pending, Open
    <3>2. ~sim
      BY <2>2, <2>4 DEF BackedInv
    <3> QED  BY <1>0, <2>1, <2>2, <2>4, <3>1, <3>2 DEF BackedInv, StatusIsBacked
  <2> QED  BY <2>2, <2>3, <2>4
<1>3. CASE OpenSocket(url, armed)
  <2>1. PICK s \in Sockets : sock' = [sock EXCEPT ![s] = "connecting"] /\ ws' = s
    BY <1>3 DEF OpenSocket
  <2>2. sock'[s] = "connecting" /\ s \in Pending'
    BY <2>1 DEF TypeOK, Pending
  <2>3. attempt' = 0 /\ status' = "connecting" /\ url # None
    BY <1>3, NoneIsOther DEF OpenSocket
  <2> QED  BY <1>0, <2>1, <2>2, <2>3 DEF BackedInv, StatusIsBacked
<1>4. CASE OpenThrows(url)
  <2>1. /\ timer' = TRUE /\ sim' = TRUE /\ status' = "connecting" /\ UNCHANGED <<sock, ws>>
        /\ url # None
    BY <1>4, NoneIsOther DEF OpenThrows
  <2>2. ~(ws # None /\ sock[ws] = "open")
    BY <1>4 DEF OpenThrows, HasSocket, TypeOK
  <2> QED  BY <1>0, <2>1, <2>2 DEF BackedInv, StatusIsBacked
<1> QED  BY <1>1, <1>2, <1>3, <1>4 DEF Call

\* A close event of an active service ends with its timer armed, or says disconnected; a
\* normal one leaves a socket that is opening alone.
LEMMA CloseBacked ==
  ASSUME TypeOK, BackedInv, NEW s \in Sockets, NEW code \in {1000, 1006}, OnClose(s, code),
         code = 1000 => sock[s] # "connecting"
  PROVE  BackedInv'
<1>0. /\ ws' = None /\ sock' = [sock EXCEPT ![s] = "unused"]
      /\ active' = active /\ target' = target
  BY DEF OnClose
<1>1. CASE active /\ code # 1000
  <2>1. ScheduleReconnect(attempt)
    BY <1>1 DEF OnClose
  <2>2. sim' = TRUE
    BY <2>1 DEF ScheduleReconnect
  <2>3. timer'
    <3>1. CASE attempt >= MaxAttempts /\ timer' = timer
      <4>1. attempt > 0
        BY <3>1, MaxPositive DEF TypeOK
      <4> QED  BY <1>1, <3>1, <4>1 DEF BackedInv
    <3>2. CASE timer' = TRUE
      BY <3>2
    <3> QED  BY <2>1, <3>1, <3>2 DEF ScheduleReconnect
  <2> QED  BY <1>0, <2>2, <2>3 DEF BackedInv, StatusIsBacked
<1>2. CASE ~(active /\ code # 1000)
  <2>1. UNCHANGED <<attempt, timer, sim>> /\ status' = "disconnected"
    BY <1>2 DEF OnClose
  <2>2. active => Pending' = Pending
    BY <1>0, <1>2 DEF Pending, TypeOK
  <2>3. active /\ target # None => timer \/ Pending # {} \/ ~sim
    BY DEF BackedInv
  <2> QED  BY <1>0, <2>1, <2>2, <2>3 DEF BackedInv, StatusIsBacked
<1> QED  BY <1>1, <1>2

\* The banner never claims what nothing stands behind, and no active service is stranded:
\* any number of sockets may close in any order, normally or not.
THEOREM BannerIsBacked == Spec => []StatusIsBacked
<1>1. Init => BackedInv
  BY DEF Init, BackedInv, StatusIsBacked
<1>2. TypeOK /\ NoTimerAfterDisconnect /\ BackedInv /\ [Next]_vars => BackedInv'
  <2> SUFFICES ASSUME TypeOK, NoTimerAfterDisconnect, BackedInv, [Next]_vars PROVE BackedInv'
    OBVIOUS
  <2>1. ASSUME NEW url \in Urls, Connect(url) PROVE BackedInv'
    BY <2>1, CallBacked DEF Connect, TypeOK
  <2>2. CASE ReconnectTimer
    BY <2>2, CallBacked DEF ReconnectTimer, NoTimerAfterDisconnect, TypeOK
  <2>3. CASE Disconnect
    BY <2>3 DEF Disconnect, BackedInv, StatusIsBacked
  <2>4. CASE SimulationTick
    BY <2>4 DEF SimulationTick, BackedInv, StatusIsBacked, Pending, Open
  <2>5. CASE ServersChange \/ UNCHANGED vars
    BY <2>5 DEF ServersChange, vars, BackedInv, StatusIsBacked, Pending, Open
  <2>6. ASSUME NEW s \in Sockets, OnOpen(s) PROVE BackedInv'
    <3>1. sock'[s] = "open" /\ s \in Open'
      BY <2>6 DEF OnOpen, TypeOK, Open
    <3>2. /\ attempt' = 0 /\ ~sim' /\ status' = "connected"
          /\ UNCHANGED <<ws, target, active, timer>>
      BY <2>6 DEF OnOpen
    <3> QED  BY <3>1, <3>2 DEF BackedInv, StatusIsBacked
  <2>7. ASSUME NEW s \in Sockets, Refused(s) \/ Lost(s) \/ Closed(s) \/ ServerCloses(s)
        PROVE  BackedInv'
    BY <2>7, CloseBacked DEF Refused, Lost, Closed, ServerCloses
  <2> QED  BY <2>1, <2>2, <2>3, <2>4, <2>5, <2>6, <2>7 DEF Next, SocketStep
<1>3. BackedInv => StatusIsBacked
  BY DEF BackedInv
<1> QED  BY <1>1, <1>2, <1>3, TypeCorrect, QuietAfterDisconnect, PTL DEF Spec
==============================================================================
