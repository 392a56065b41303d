------------------------ MODULE SensingServiceProofs ------------------------
(***************************************************************************)
(* Safety of SensingService for any number of attempts.  SocketInv says     *)
(* where the attempt of the current epoch is; everything else follows from  *)
(* it.                                                                      *)
(***************************************************************************)
EXTENDS SensingService, TLAPS

\* The assumptions on the constants, for citing.
LEMMA Bounds == /\ MaxAttempts \in Nat /\ SimAfter \in Nat
                /\ 1 <= SimAfter /\ SimAfter <= MaxAttempts
                /\ None \notin Attempts
  BY ConstantsAssumption DEF ConstantsAssumption

Phases == {"unused", "minting", "connecting", "open", "closing"}
States == {"disconnected", "connecting", "connected", "reconnecting", "simulated"}

\* What the retry logic may set.
RetryType == /\ attempt \in 0..MaxAttempts
             /\ timer \in BOOLEAN /\ sim \in BOOLEAN
             /\ state \in States /\ dataSource \in Sources

\* The service is created with its types.
LEMMA InitType == Init => TypeOK
<1> SUFFICES ASSUME Init PROVE TypeOK
  OBVIOUS
<1>1. attempt \in 0..MaxAttempts
  BY Bounds DEF Init
<1>2. inFlight \in BOOLEAN /\ timer \in BOOLEAN /\ sim \in BOOLEAN
  BY DEF Init
<1>3. up \in BOOLEAN /\ allowed \in BOOLEAN /\ blocked \in BOOLEAN
  BY DEF Init
<1> QED  BY <1>1, <1>2, <1>3 DEF Init, TypeOK, Sources

\* The retry logic keeps the types whatever label it is entered with.
LEMMA ScheduleType ==
  ASSUME TypeOK, NEW source \in Sources, ScheduleReconnect(source)
  PROVE  RetryType'
<1>0. attempt \in 0..MaxAttempts /\ timer \in BOOLEAN /\ sim \in BOOLEAN /\ state \in States
  BY DEF TypeOK, States
<1>1. CASE timer /\ dataSource' = source /\ UNCHANGED <<retry, state>>
  BY <1>0, <1>1 DEF RetryType, retry
<1>2. CASE Simulate /\ UNCHANGED <<attempt, timer>>
  BY <1>0, <1>2 DEF RetryType, Simulate, States, Sources
<1>3. CASE /\ attempt' = IF attempt < MaxAttempts THEN attempt + 1 ELSE MaxAttempts
           /\ timer' = TRUE
           /\ IF attempt' >= SimAfter /\ allowed
              THEN Simulate
              ELSE /\ state' = "reconnecting" /\ sim' = sim
                   /\ dataSource' = IF source = "unreachable" \/ attempt' >= SimAfter
                                    THEN "unreachable" ELSE "reconnecting"
  <2>1. attempt' \in 0..MaxAttempts
    BY <1>0, <1>3, Bounds
  <2>2. sim' \in BOOLEAN
    <3>1. CASE Simulate
      BY <3>1 DEF Simulate
    <3>2. CASE sim' = sim
      BY <3>2, <1>0
    <3> QED  BY <1>3, <3>1, <3>2
  <2>3. state' \in States /\ dataSource' \in Sources
    BY <1>3 DEF Simulate, States, Sources
  <2> QED  BY <1>3, <2>1, <2>2, <2>3 DEF RetryType
<1> QED  BY <1>1, <1>2, <1>3 DEF ScheduleReconnect

\* The fallback keeps the types, whichever of its two ways it goes.
LEMMA FallbackType ==
  ASSUME TypeOK, Fallback
  PROVE  RetryType'
<1>1. CASE allowed /\ Simulate /\ UNCHANGED <<attempt, timer>>
  BY <1>1 DEF RetryType, Simulate, States, Sources, TypeOK
<1>2. CASE ScheduleReconnect("unreachable")
  BY <1>2, ScheduleType DEF Sources
<1> QED  BY <1>1, <1>2 DEF Fallback

\* Leaving the retry logic alone keeps its types.
LEMMA SameRetry ==
  ASSUME TypeOK, UNCHANGED <<retry, state, dataSource>>
  PROVE  RetryType'
<1>1. attempt \in 0..MaxAttempts /\ state \in States /\ dataSource \in Sources
  BY DEF TypeOK, States
<1>2. timer \in BOOLEAN /\ sim \in BOOLEAN
  BY DEF TypeOK
<1> QED  BY <1>1, <1>2 DEF RetryType, retry

\* A new attempt keeps the types.
LEMMA ConnectType ==
  ASSUME TypeOK, NEW armed \in BOOLEAN, Connect(armed)
  PROVE  TypeOK'
<1>1. CASE UNCHANGED <<conn, state>>
  BY <1>1 DEF Connect, TypeOK, world, conn, label
<1>2. CASE /\ \E a \in Attempts : phase' = [phase EXCEPT ![a] = "minting"] /\ epoch' = a
           /\ inFlight' = TRUE /\ state' = "connecting"
           /\ UNCHANGED <<probe, ws>>
  <2>1. phase' \in [Attempts -> Phases] /\ epoch' \in Attempts
    BY <1>2 DEF TypeOK, Phases
  <2>2. inFlight' \in BOOLEAN /\ timer' \in BOOLEAN
    BY <1>2 DEF Connect
  <2> QED  BY <1>2, <2>1, <2>2 DEF Connect, TypeOK, world, label, Phases
<1> QED  BY <1>1, <1>2 DEF Connect

\* An answered ticket keeps the types, current or superseded.
LEMMA MintedType ==
  ASSUME TypeOK, NEW a \in Attempts, Minted(a)
  PROVE  TypeOK'
<1>1. RetryType'
  BY FallbackType, SameRetry DEF Minted
<1>2. phase' \in [Attempts -> Phases] /\ ws' \in Attempts \cup {None}
  BY DEF Minted, TypeOK, Phases
<1>3. inFlight' \in BOOLEAN
  BY DEF Minted
<1>4. UNCHANGED <<world, probe, epoch, serverSource>>
  BY DEF Minted
<1> QED  BY <1>1, <1>2, <1>3, <1>4 DEF TypeOK, RetryType, Phases, States, world

\* A close event keeps the types.
LEMMA CloseType ==
  ASSUME TypeOK, NEW a \in Attempts, NEW code \in Nat, OnClose(a, code)
  PROVE  TypeOK'
<1>1. RetryType'
  <2>1. CASE UNCHANGED <<retry, state, dataSource>>
    BY <2>1, SameRetry
  <2>2. CASE ScheduleReconnect(dataSource)
    BY <2>2, ScheduleType DEF TypeOK
  <2>3. CASE state' = "disconnected" /\ dataSource' = "reconnecting" /\ UNCHANGED retry
    <3>1. attempt \in 0..MaxAttempts
      BY DEF TypeOK
    <3>2. timer \in BOOLEAN /\ sim \in BOOLEAN
      BY DEF TypeOK
    <3> QED  BY <2>3, <3>1, <3>2 DEF RetryType, retry, States, Sources
  <2> QED  BY <2>1, <2>2, <2>3 DEF OnClose
<1>2. phase' \in [Attempts -> Phases] /\ ws' \in Attempts \cup {None}
  BY DEF OnClose, TypeOK, Phases
<1>3. UNCHANGED <<world, probe, epoch, inFlight, serverSource>>
  BY DEF OnClose
<1> QED  BY <1>1, <1>2, <1>3 DEF TypeOK, RetryType, Phases, States, world

\* Every step keeps the types.
LEMMA TypeStep == TypeOK /\ [Next]_vars => TypeOK'
<1> SUFFICES ASSUME TypeOK, [Next]_vars PROVE TypeOK'
  OBVIOUS
<1>1. CASE Start
  BY <1>1, ConnectType DEF Start, TypeOK
<1>2. CASE ReconnectTimer
  BY <1>2, ConnectType DEF ReconnectTimer
<1>3. CASE Stop
  <2>1. inFlight' \in BOOLEAN /\ timer' \in BOOLEAN /\ sim' \in BOOLEAN
    BY <1>3 DEF Stop
  <2>2. phase' \in [Attempts -> Phases]
    BY <1>3 DEF Stop, TypeOK, Phases
  <2> QED  BY <1>3, <2>1, <2>2 DEF Stop, TypeOK, Phases, world, label
<1>4. CASE Frame
  BY <1>4 DEF Frame, ApplyServerSource, TypeOK, Sources, world, conn, retry, label
<1>5. CASE ServerChanges
  BY <1>5 DEF ServerChanges, TypeOK, conn, retry, label
<1>6. ASSUME NEW a \in Attempts, Minted(a) PROVE TypeOK'
  BY <1>6, MintedType
<1>7. ASSUME NEW a \in Attempts, OnOpen(a) PROVE TypeOK'
  <2>1. attempt' \in 0..MaxAttempts
    BY <1>7, Bounds DEF OnOpen
  <2>2. phase' \in [Attempts -> Phases] /\ probe' \in [Attempts -> BOOLEAN]
    BY <1>7 DEF OnOpen, TypeOK, Phases
  <2>3. sim' \in BOOLEAN
    BY <1>7 DEF OnOpen
  <2> QED  BY <1>7, <2>1, <2>2, <2>3 DEF OnOpen, TypeOK, Phases, world, label
<1>8. ASSUME NEW a \in Attempts, Lost(a) \/ ServerCloses(a) \/ Closed(a) PROVE TypeOK'
  BY <1>8, CloseType DEF Lost, ServerCloses, Closed
<1>9. ASSUME NEW a \in Attempts, StatusAnswer(a) PROVE TypeOK'
  <2>1. probe' \in [Attempts -> BOOLEAN]
    BY <1>9 DEF StatusAnswer, TypeOK
  <2>2. dataSource' \in Sources /\ serverSource' \in Feeds \cup {None}
    BY <1>9 DEF StatusAnswer, ApplyServerSource, TypeOK, Sources
  <2> QED  BY <1>9, <2>1, <2>2 DEF StatusAnswer, TypeOK, world, retry
<1>10. CASE UNCHANGED vars
  BY <1>10 DEF vars, world, conn, retry, label, TypeOK
<1> QED  BY <1>1, <1>2, <1>3, <1>4, <1>5, <1>6, <1>7, <1>8, <1>9, <1>10 DEF Next, AttemptStep

\* The types hold in every reachable state; the attempt count never passes its limit.
THEOREM TypeCorrect == Spec => []TypeOK
  BY InitType, TypeStep, PTL DEF Spec

------------------------------------------------------------------------------
\* The inductive invariant: an opening or open socket is the one the service holds and
\* belongs to the current epoch, the service holds no other, and while the current
\* attempt awaits its ticket or its socket the state says "connecting".
SocketInv ==
  /\ NoOrphanSocket
  /\ ws # None => ws = epoch
  /\ epoch # None /\ phase[epoch] \in {"minting", "connecting"} => state = "connecting"
  /\ inFlight => epoch # None /\ phase[epoch] = "minting"

\* With SocketInv an attempt whose ticket comes finds the service without a socket.
LEMMA NoSocketWhileMinting ==
  ASSUME TypeOK, SocketInv, NEW a \in Attempts, phase[a] = "minting", a = epoch
  PROVE  ws = None
  BY Bounds DEF SocketInv, NoOrphanSocket, TypeOK

\* A new attempt is made only without a socket, and it is the current one.
LEMMA ConnectKeepsSockets ==
  ASSUME TypeOK, SocketInv, NEW armed \in BOOLEAN, Connect(armed)
  PROVE  SocketInv'
<1>1. CASE UNCHANGED <<conn, state>>
  BY <1>1 DEF SocketInv, NoOrphanSocket, conn
<1>2. CASE ~HasSocket /\ ~inFlight /\ ~UNCHANGED <<conn, state>>
  <2>1. PICK a \in Attempts : /\ phase[a] = "unused"
                              /\ phase' = [phase EXCEPT ![a] = "minting"] /\ epoch' = a
    BY <1>2 DEF Connect
  <2>2. ws = None
    BY <1>2 DEF HasSocket, SocketInv, NoOrphanSocket, TypeOK
  <2>3. ws' = ws /\ state' = "connecting"
    BY <1>2 DEF Connect
  <2>4. NoOrphanSocket'
    BY <2>1, <2>2, <2>3, Bounds DEF SocketInv, NoOrphanSocket, TypeOK
  <2>5. phase'[a] = "minting"
    BY <2>1 DEF TypeOK
  <2> QED  BY <2>1, <2>2, <2>3, <2>4, <2>5, Bounds DEF SocketInv
<1> QED  BY <1>1, <1>2 DEF Connect

\* A ticket makes a socket for the current attempt alone.
LEMMA MintedKeepsSockets ==
  ASSUME TypeOK, SocketInv, NEW a \in Attempts, Minted(a)
  PROVE  SocketInv'
<1>0. epoch' = epoch /\ inFlight' = FALSE
  BY DEF Minted
<1>1. CASE a # epoch
  <2>1. phase' = [phase EXCEPT ![a] = "unused"] /\ ws' = ws /\ state' = state
    BY <1>1 DEF Minted
  <2> QED  BY <1>0, <1>1, <2>1 DEF Minted, SocketInv, NoOrphanSocket, TypeOK
<1>2. CASE a = epoch /\ ~blocked
  <2>1. phase' = [phase EXCEPT ![a] = "connecting"] /\ ws' = a /\ state' = state
    BY <1>2 DEF Minted
  <2>2. ws = None /\ phase[a] = "minting"
    BY <1>2, NoSocketWhileMinting DEF Minted
  <2>3. NoOrphanSocket'
    BY <1>0, <1>2, <2>1, <2>2, Bounds DEF SocketInv, NoOrphanSocket, TypeOK
  <2> QED  BY <1>0, <1>2, <2>1, <2>2, <2>3, Bounds DEF SocketInv
<1>3. CASE a = epoch /\ blocked
  <2>1. phase' = [phase EXCEPT ![a] = "unused"] /\ ws' = ws
    BY <1>3 DEF Minted
  <2>2. ws = None
    BY <1>3, NoSocketWhileMinting DEF Minted
  <2>3. phase'[a] = "unused"
    BY <2>1 DEF TypeOK
  <2>4. NoOrphanSocket'
    BY <1>0, <2>1, <2>2, Bounds DEF SocketInv, NoOrphanSocket, TypeOK
  <2> QED  BY <1>0, <1>3, <2>1, <2>2, <2>3, <2>4 DEF SocketInv
<1> QED  BY <1>1, <1>2, <1>3

\* A close event takes the socket of the service, or one it no longer has.
LEMMA CloseKeepsSockets ==
  ASSUME TypeOK, SocketInv, NEW a \in Attempts, phase[a] \in {"connecting", "open", "closing"},
         NEW code \in Nat, OnClose(a, code)
  PROVE  SocketInv'
<1>0. epoch' = epoch /\ inFlight' = inFlight /\ phase' = [phase EXCEPT ![a] = "unused"]
  BY DEF OnClose
<1>1. CASE ~IsCurrent(a)
  <2>1. ws' = ws /\ state' = state
    BY <1>1 DEF OnClose
  <2>2. NoOrphanSocket'
    BY <1>0, <1>1, <2>1 DEF SocketInv, NoOrphanSocket, TypeOK, IsCurrent
  <2> QED  BY <1>0, <1>1, <2>1, <2>2 DEF SocketInv, TypeOK, IsCurrent
<1>2. CASE IsCurrent(a)
  <2>1. ws' = None
    BY <1>2 DEF OnClose
  <2>2. phase'[a] = "unused" /\ a = epoch
    BY <1>0, <1>2 DEF TypeOK, IsCurrent
  <2>3. NoOrphanSocket'
    BY <1>0, <1>2, <2>1, <2>2, Bounds DEF SocketInv, NoOrphanSocket, TypeOK, IsCurrent
  <2>4. ~inFlight
    BY <2>2 DEF SocketInv
  <2> QED  BY <1>0, <2>1, <2>2, <2>3, <2>4 DEF SocketInv
<1> QED  BY <1>1, <1>2

\* Every step keeps the invariant.
LEMMA SocketStep == TypeOK /\ SocketInv /\ [Next]_vars => SocketInv'
<1> SUFFICES ASSUME TypeOK, SocketInv, [Next]_vars PROVE SocketInv'
  OBVIOUS
<1>1. CASE Start
  BY <1>1, ConnectKeepsSockets DEF Start, TypeOK
<1>2. CASE ReconnectTimer
  BY <1>2, ConnectKeepsSockets DEF ReconnectTimer
<1>3. CASE Stop
  <2>1. ws' = None /\ epoch' = None /\ inFlight' = FALSE
    BY <1>3 DEF Stop
  <2>2. \A a \in Attempts : phase'[a] \notin {"connecting", "open"}
    BY <1>3, Bounds DEF Stop, SocketInv, NoOrphanSocket, TypeOK
  <2> QED  BY <2>1, <2>2, Bounds DEF SocketInv, NoOrphanSocket
<1>4. CASE Frame \/ ServerChanges \/ UNCHANGED vars
  BY <1>4 DEF Frame, ServerChanges, vars, conn, SocketInv, NoOrphanSocket
<1>5. ASSUME NEW a \in Attempts, Minted(a) PROVE SocketInv'
  BY <1>5, MintedKeepsSockets
<1>6. ASSUME NEW a \in Attempts, OnOpen(a) PROVE SocketInv'
  <2>1. phase' = [phase EXCEPT ![a] = "open"] /\ a = epoch /\ a = ws
    BY <1>6 DEF OnOpen, IsCurrent
  <2>2. UNCHANGED <<epoch, inFlight, ws>>
    BY <1>6 DEF OnOpen
  <2>3. ~inFlight
    BY <1>6, <2>1 DEF OnOpen, SocketInv
  <2>4. NoOrphanSocket'
    BY <2>1, <2>2 DEF SocketInv, NoOrphanSocket, TypeOK
  <2> QED  BY <2>1, <2>2, <2>3, <2>4 DEF SocketInv, TypeOK
<1>7. ASSUME NEW a \in Attempts, Lost(a) \/ ServerCloses(a) \/ Closed(a) PROVE SocketInv'
  BY <1>7, CloseKeepsSockets DEF Lost, ServerCloses, Closed
<1>8. ASSUME NEW a \in Attempts, StatusAnswer(a) PROVE SocketInv'
  BY <1>8 DEF StatusAnswer, SocketInv, NoOrphanSocket
<1> QED  BY <1>1, <1>2, <1>3, <1>4, <1>5, <1>6, <1>7, <1>8 DEF Next, AttemptStep

\* SocketInv is inductive: an attempt that is not current owns nothing.
THEOREM SocketsInvariant == Spec => [](TypeOK /\ SocketInv)
<1>1. Init => SocketInv
  BY Bounds DEF Init, SocketInv, NoOrphanSocket
<1> QED  BY <1>1, InitType, TypeStep, SocketStep, PTL DEF Spec

\* The orphaned socket of the comment in _connect cannot come back, however many
\* attempts are made in whatever order.
THEOREM NoOrphans == Spec => []NoOrphanSocket
<1>1. SocketInv => NoOrphanSocket
  BY DEF SocketInv
<1> QED  BY <1>1, SocketsInvariant, PTL

------------------------------------------------------------------------------
\* Invented frames begin only where the service has no open socket.
LEMMA SimulatesWithoutSocket ==
  ASSUME TypeOK, SocketInv, NoMixedFrames, NEW a \in Attempts,
         Minted(a) \/ (phase[a] # "minting" /\ \E code \in Nat : OnClose(a, code))
  PROVE  NoMixedFrames'
<1>1. CASE Minted(a)
  <2>1. \A b \in Attempts : phase'[b] = "open" => phase[b] = "open"
    BY <1>1 DEF Minted, TypeOK
  <2>2. CASE a = epoch
    <3>1. ws = None
      BY <1>1, <2>2, NoSocketWhileMinting DEF Minted
    <3>2. \A b \in Attempts : phase[b] # "open"
      BY <3>1, Bounds DEF SocketInv, NoOrphanSocket
    <3> QED  BY <2>1, <3>2 DEF NoMixedFrames
  <2>3. CASE a # epoch
    <3>1. sim' = sim
      BY <1>1, <2>3 DEF Minted, retry
    <3> QED  BY <2>1, <3>1 DEF NoMixedFrames
  <2> QED  BY <2>2, <2>3
<1>2. ASSUME NEW code \in Nat, OnClose(a, code) PROVE NoMixedFrames'
  <2>1. phase' = [phase EXCEPT ![a] = "unused"]
    BY <1>2 DEF OnClose
  <2>2. CASE IsCurrent(a)
    <3>1. \A b \in Attempts : phase'[b] # "open"
      BY <2>1, <2>2 DEF SocketInv, NoOrphanSocket, IsCurrent, TypeOK
    <3> QED  BY <3>1 DEF NoMixedFrames
  <2>3. CASE ~IsCurrent(a)
    <3>1. sim' = sim
      BY <1>2, <2>3 DEF OnClose, retry
    <3> QED  BY <2>1, <3>1 DEF NoMixedFrames, TypeOK
  <2> QED  BY <2>2, <2>3
<1> QED  BY <1>1, <1>2

\* The simulation and an open socket exclude each other.
THEOREM FramesUnmixed == Spec => []NoMixedFrames
<1>1. Init => NoMixedFrames
  BY DEF Init, NoMixedFrames
<1>2. TypeOK /\ SocketInv /\ NoMixedFrames /\ [Next]_vars => NoMixedFrames'
  <2> SUFFICES ASSUME TypeOK, SocketInv, NoMixedFrames, [Next]_vars PROVE NoMixedFrames'
    OBVIOUS
  <2>1. ASSUME NEW armed \in BOOLEAN, Connect(armed) PROVE NoMixedFrames'
    BY <2>1 DEF Connect, NoMixedFrames, TypeOK, conn
  <2>2. CASE Start \/ ReconnectTimer
    BY <2>1, <2>2 DEF Start, ReconnectTimer, TypeOK
  <2>3. CASE Stop
    BY <2>3 DEF Stop, NoMixedFrames
  <2>4. CASE Frame \/ ServerChanges \/ UNCHANGED vars
    BY <2>4 DEF Frame, ServerChanges, vars, conn, retry, NoMixedFrames
  <2>5. ASSUME NEW a \in Attempts, Minted(a) \/ Lost(a) \/ ServerCloses(a) \/ Closed(a)
        PROVE  NoMixedFrames'
    BY <2>5, SimulatesWithoutSocket DEF Lost, ServerCloses, Closed
  <2>6. ASSUME NEW a \in Attempts, OnOpen(a) PROVE NoMixedFrames'
    BY <2>6 DEF OnOpen, NoMixedFrames
  <2>7. ASSUME NEW a \in Attempts, StatusAnswer(a) PROVE NoMixedFrames'
    BY <2>7 DEF StatusAnswer, NoMixedFrames, retry
  <2> QED  BY <2>2, <2>3, <2>4, <2>5, <2>6, <2>7 DEF Next, AttemptStep
<1> QED  BY <1>1, <1>2, SocketsInvariant, PTL DEF Spec

------------------------------------------------------------------------------
\* StateIsBacked is inductive with one fact more: an open socket is published.
BackedInv ==
  /\ StateIsBacked
  /\ epoch # None /\ phase[epoch] = "open" => state = "connected"

\* A socket the service holds is that of the epoch, and the state says how far it is.
LEMMA SocketShown ==
  ASSUME TypeOK, SocketInv, BackedInv, HasSocket
  PROVE  /\ ws \in Attempts /\ ws = epoch
         /\ \/ phase[ws] = "connecting" /\ state = "connecting"
            \/ phase[ws] = "open" /\ state = "connected"
<1>1. ws \in Attempts /\ ws = epoch /\ phase[ws] \in {"connecting", "open"}
  BY Bounds DEF HasSocket, SocketInv, TypeOK
<1> QED  BY <1>1, Bounds DEF SocketInv, BackedInv

\* A call of _connect finds a socket or a ticket under way, which backs the state without
\* the retry that the call may have used up, or it starts an attempt.
LEMMA ConnectIsBacked ==
  ASSUME TypeOK, SocketInv, BackedInv, NEW armed \in BOOLEAN, Connect(armed)
  PROVE  BackedInv'
<1>1. CASE inFlight
  <2>1. epoch # None /\ phase[epoch] = "minting" /\ state = "connecting"
    BY <1>1 DEF SocketInv
  <2>2. UNCHANGED <<phase, epoch, state>>
    BY <1>1 DEF Connect, conn
  <2> QED  BY <2>1, <2>2 DEF BackedInv, StateIsBacked
<1>2. CASE ~inFlight /\ HasSocket
  <2>1. UNCHANGED <<phase, epoch, state>>
    BY <1>2 DEF Connect, conn
  <2>2. CASE phase[ws] = "connecting" /\ state = "connecting"
    BY <1>2, <2>1, <2>2, SocketShown, Bounds DEF BackedInv, StateIsBacked
  <2>3. CASE phase[ws] = "open" /\ state = "connected"
    BY <1>2, <2>1, <2>3, SocketShown, Bounds DEF BackedInv, StateIsBacked
  <2> QED  BY <1>2, <2>2, <2>3, SocketShown
<1>3. CASE ~inFlight /\ ~HasSocket
  <2>1. PICK a \in Attempts : phase' = [phase EXCEPT ![a] = "minting"] /\ epoch' = a
    BY <1>3 DEF Connect
  <2>2. epoch' # None /\ phase'[epoch'] = "minting" /\ state' = "connecting"
    BY <1>3, <2>1, Bounds DEF Connect, TypeOK
  <2> QED  BY <2>2 DEF BackedInv, StateIsBacked
<1> QED  BY <1>1, <1>2, <1>3

\* The retry logic leaves a retry pending, or the simulation it was allowed to start.
LEMMA ScheduleIsBacked ==
  ASSUME TypeOK, BackedInv, NEW source \in Sources, ScheduleReconnect(source),
         allowed' = allowed
  PROVE  StateIsBacked'
<1>1. CASE timer /\ UNCHANGED <<retry, state>>
  <2>1. timer' /\ state' = state /\ sim' = sim
    BY <1>1 DEF retry
  <2>2. state = "simulated" => sim /\ allowed
    BY DEF BackedInv, StateIsBacked
  <2> QED  BY <2>1, <2>2 DEF StateIsBacked
<1>2. CASE allowed /\ Simulate
  BY <1>2 DEF Simulate, StateIsBacked
<1>3. CASE timer' = TRUE /\ state' = "reconnecting"
  BY <1>3 DEF StateIsBacked
<1> QED  BY <1>1, <1>2, <1>3 DEF ScheduleReconnect

\* A close of another socket touches nothing that backs the state; that of the service's
\* own socket leaves the epoch without one and publishes what comes next.
LEMMA CloseIsBacked ==
  ASSUME TypeOK, SocketInv, BackedInv, NEW a \in Attempts,
         phase[a] \in {"connecting", "open", "closing"}, NEW code \in Nat, OnClose(a, code)
  PROVE  BackedInv'
<1>0. /\ phase' = [phase EXCEPT ![a] = "unused"] /\ phase'[a] = "unused"
      /\ epoch' = epoch /\ allowed' = allowed
  BY DEF OnClose, TypeOK, world
<1>1. CASE ~IsCurrent(a)
  <2>1. UNCHANGED <<state, timer, sim>>
    BY <1>1 DEF OnClose, retry
  <2>2. \A b \in Attempts : phase[b] = "open" => phase'[b] = "open"
    BY <1>0, <1>1 DEF SocketInv, NoOrphanSocket, IsCurrent, TypeOK
  <2>3. epoch # None /\ phase[epoch] \in {"minting", "connecting"} => phase'[epoch] = phase[epoch]
    <3>1. SUFFICES ASSUME epoch # None, phase[epoch] \in {"minting", "connecting"}
                   PROVE  epoch # a
      BY <1>0 DEF TypeOK
    <3>2. SUFFICES ASSUME epoch = a PROVE FALSE
      OBVIOUS
    <3>3. phase[a] = "connecting"
      BY <3>1, <3>2
    <3>4. a = ws
      BY <3>3 DEF SocketInv, NoOrphanSocket
    <3> QED  BY <1>1, <3>2, <3>4 DEF IsCurrent
  <2>4. epoch # None /\ phase'[epoch] = "open" => phase[epoch] = "open"
    BY <1>0 DEF TypeOK
  <2> QED  BY <1>0, <2>1, <2>2, <2>3, <2>4 DEF BackedInv, StateIsBacked
<1>2. CASE IsCurrent(a)
  <2>1. phase'[epoch'] # "open"
    BY <1>0, <1>2 DEF IsCurrent
  <2>2. CASE ScheduleReconnect(dataSource)
    BY <1>0, <2>1, <2>2, ScheduleIsBacked DEF TypeOK, BackedInv
  <2>3. CASE state' = "disconnected"
    BY <2>1, <2>3 DEF BackedInv, StateIsBacked
  <2> QED  BY <1>2, <2>2, <2>3 DEF OnClose
<1> QED  BY <1>1, <1>2

\* So does an answered ticket: it goes on to a socket, or to what comes next without one.
LEMMA MintedIsBacked ==
  ASSUME TypeOK, SocketInv, BackedInv, NEW a \in Attempts, Minted(a)
  PROVE  BackedInv'
<1>0. /\ phase[a] = "minting" /\ epoch' = epoch /\ allowed' = allowed
      /\ \A b \in Attempts : b # a => phase'[b] = phase[b]
      /\ phase'[a] \in {"unused", "connecting"}
  BY DEF Minted, TypeOK, world
<1>1. \A b \in Attempts : phase[b] = "open" <=> phase'[b] = "open"
  BY <1>0
<1>2. CASE a # epoch
  <2>1. UNCHANGED <<state, timer, sim>>
    BY <1>2 DEF Minted, retry
  <2>2. epoch # None => phase'[epoch] = phase[epoch]
    BY <1>0, <1>2 DEF TypeOK
  <2> QED  BY <1>0, <1>1, <2>1, <2>2 DEF BackedInv, StateIsBacked
<1>3. CASE a = epoch /\ ~blocked
  <2>1. UNCHANGED <<state, timer, sim>>
    BY <1>3 DEF Minted, retry
  <2>2. phase'[a] = "connecting" /\ epoch' # None
    BY <1>0, <1>3, Bounds DEF Minted, TypeOK
  <2>3. state = "connecting"
    BY <1>0, <1>3, Bounds DEF SocketInv
  <2> QED  BY <1>0, <1>3, <2>1, <2>2, <2>3 DEF BackedInv, StateIsBacked
<1>4. CASE a = epoch /\ blocked
  <2>1. phase'[epoch'] # "open"
    BY <1>0, <1>4
  <2>2. CASE allowed /\ Simulate
    BY <1>0, <2>1, <2>2 DEF Simulate, BackedInv, StateIsBacked
  <2>3. CASE ScheduleReconnect("unreachable")
    BY <1>0, <2>1, <2>3, ScheduleIsBacked DEF Sources, BackedInv
  <2> QED  BY <1>4, <2>2, <2>3 DEF Minted, Fallback
<1> QED  BY <1>2, <1>3, <1>4

\* Whatever the service publishes stays true or is corrected: the states "connected",
\* "connecting", "reconnecting" and "simulated" are each backed.
THEOREM StateBacked == Spec => []StateIsBacked
<1>1. Init => BackedInv
  BY Bounds DEF Init, BackedInv, StateIsBacked
<1>2. TypeOK /\ SocketInv /\ BackedInv /\ [Next]_vars => BackedInv'
  <2> SUFFICES ASSUME TypeOK, SocketInv, BackedInv, [Next]_vars
               PROVE  BackedInv'
    OBVIOUS
  <2>1. CASE Start \/ ReconnectTimer
    BY <2>1, ConnectIsBacked DEF Start, ReconnectTimer, TypeOK
  <2>2. CASE Stop
    BY <2>2 DEF Stop, BackedInv, StateIsBacked
  <2>3. CASE Frame \/ ServerChanges \/ UNCHANGED vars
    BY <2>3 DEF Frame, ServerChanges, vars, world, conn, retry, BackedInv, StateIsBacked
  <2>4. ASSUME NEW a \in Attempts, Minted(a) PROVE BackedInv'
    BY <2>4, MintedIsBacked
  <2>5. ASSUME NEW a \in Attempts, Lost(a) \/ ServerCloses(a) \/ Closed(a)
        PROVE  BackedInv'
    BY <2>5, CloseIsBacked DEF Lost, ServerCloses, Closed
  <2>6. ASSUME NEW a \in Attempts, OnOpen(a) PROVE BackedInv'
    <3>1. phase'[a] = "open" /\ state' = "connected"
      BY <2>6 DEF OnOpen, TypeOK
    <3> QED  BY <3>1 DEF BackedInv, StateIsBacked
  <2>7. ASSUME NEW a \in Attempts, StatusAnswer(a) PROVE BackedInv'
    BY <2>7 DEF StatusAnswer, world, BackedInv, StateIsBacked, retry
  <2> QED  BY <2>1, <2>2, <2>3, <2>4, <2>5, <2>6, <2>7 DEF Next, AttemptStep
<1>3. BackedInv => StateIsBacked
  BY DEF BackedInv
<1> QED  BY <1>1, <1>2, <1>3, SocketsInvariant, PTL DEF Spec

------------------------------------------------------------------------------
\* A stopped service is woken by start() alone: every ticket and socket event of an
\* earlier life is one of an attempt that is not current.
THEOREM StoppedStaysIdle == Spec => IdleUntilStart
<1>1. TypeOK /\ SocketInv /\ [Next]_vars =>
        [Idle /\ ~Idle' => inFlight' /\ state' = "connecting"]_vars
  <2> SUFFICES ASSUME TypeOK, SocketInv, Next, Idle
               PROVE  Idle' \/ (inFlight' /\ state' = "connecting")
    OBVIOUS
  <2> USE DEF Idle
  <2>1. CASE Start
    BY <2>1 DEF Start, Connect, HasSocket
  <2>2. CASE Stop \/ Frame \/ ServerChanges \/ ReconnectTimer
    BY <2>2 DEF Stop, Frame, ServerChanges, ReconnectTimer, conn, retry
  <2>3. ASSUME NEW a \in Attempts, Minted(a) PROVE Idle'
    <3>1. a # epoch
      BY <2>3, Bounds DEF Minted, SocketInv
    <3> QED  BY <2>3, <3>1 DEF Minted, retry
  <2>4. ASSUME NEW a \in Attempts, NEW code \in Nat, OnClose(a, code) PROVE Idle'
    <3>1. ~IsCurrent(a)
      BY Bounds DEF IsCurrent
    <3> QED  BY <2>4, <3>1 DEF OnClose, retry
  <2>5. ASSUME NEW a \in Attempts, OnOpen(a) PROVE Idle'
    BY <2>5, Bounds DEF OnOpen, IsCurrent
  <2>6. ASSUME NEW a \in Attempts, StatusAnswer(a) PROVE Idle'
    BY <2>6 DEF StatusAnswer, retry
  <2> QED  BY <2>1, <2>2, <2>3, <2>4, <2>5, <2>6 DEF Next, AttemptStep, Lost, ServerCloses, Closed
<1> QED  BY <1>1, SocketsInvariant, PTL DEF Spec, IdleUntilStart

------------------------------------------------------------------------------
\* The attempt count grows by one outage at a time.
THEOREM OutagesCounted == Spec => AttemptCountsOutages
<1> DEFINE Outage == attempt' > attempt =>
             /\ ~timer
             /\ epoch # None
             /\ phase[epoch] # "unused" /\ phase'[epoch] = "unused"
<1>1. TypeOK /\ SocketInv /\ [Next]_vars => [Outage]_vars
  <2> SUFFICES ASSUME TypeOK, SocketInv, Next, attempt' > attempt
               PROVE  /\ ~timer
                      /\ epoch # None
                      /\ phase[epoch] # "unused" /\ phase'[epoch] = "unused"
    OBVIOUS
  <2>0. attempt \in Nat /\ ~(attempt > attempt) /\ ~(0 > attempt)
    BY Bounds DEF TypeOK
  <2>1. attempt' # attempt /\ attempt' # 0
    BY <2>0
  <2>2. ASSUME NEW source \in Sources, ScheduleReconnect(source) PROVE ~timer
    BY <2>1, <2>2 DEF ScheduleReconnect, retry
  <2>3. ~(Start \/ Stop \/ ReconnectTimer \/ Frame \/ ServerChanges)
    BY <2>1 DEF Start, Stop, ReconnectTimer, Connect, Frame, ServerChanges, retry
  <2>4. \A a \in Attempts : ~OnOpen(a) /\ ~StatusAnswer(a)
    BY <2>1 DEF OnOpen, StatusAnswer, retry
  <2>5. ASSUME NEW a \in Attempts, Minted(a)
        PROVE  /\ ~timer /\ epoch # None
               /\ phase[epoch] # "unused" /\ phase'[epoch] = "unused"
    <3>1. a = epoch /\ blocked /\ Fallback
      BY <2>1, <2>5 DEF Minted, retry
    <3>2. ScheduleReconnect("unreachable")
      BY <2>1, <3>1 DEF Fallback, retry
    <3>3. ~timer
      BY <2>2, <3>2 DEF Sources
    <3> QED  BY <2>5, <3>1, <3>3, Bounds DEF Minted, TypeOK
  <2>6. ASSUME NEW a \in Attempts, phase[a] # "unused", NEW code \in Nat, OnClose(a, code)
        PROVE  /\ ~timer /\ epoch # None
               /\ phase[epoch] # "unused" /\ phase'[epoch] = "unused"
    <3>1. IsCurrent(a) /\ ScheduleReconnect(dataSource)
      BY <2>1, <2>6 DEF OnClose, retry
    <3>2. ~timer
      BY <2>2, <3>1 DEF TypeOK
    <3> QED  BY <2>6, <3>1, <3>2, Bounds DEF OnClose, IsCurrent, TypeOK
  <2> QED  BY <2>3, <2>4, <2>5, <2>6 DEF Next, AttemptStep, Lost, ServerCloses, Closed
<1> QED  BY <1>1, SocketsInvariant, PTL DEF Spec, AttemptCountsOutages

------------------------------------------------------------------------------
\* What Link says of the attempt of the current epoch, before and after a step.
LinkFacts ==
  /\ Link = "open" <=> (epoch # None /\ phase[epoch] = "open")
  /\ Link = "opening" <=> (epoch # None /\ phase[epoch] \in {"minting", "connecting"})
  /\ Link = "none" <=> (epoch = None \/ phase[epoch] \notin {"minting", "connecting", "open"})

LEMMA LinkCases == LinkFacts
<1>1. CASE epoch = None
  BY <1>1 DEF Link, LinkFacts
<1>2. CASE epoch # None /\ phase[epoch] = "open"
  BY <1>2 DEF Link, LinkFacts
<1>3. CASE epoch # None /\ phase[epoch] \in {"minting", "connecting"}
  BY <1>3 DEF Link, LinkFacts
<1>4. CASE epoch # None /\ phase[epoch] \notin {"minting", "connecting", "open"}
  BY <1>4 DEF Link, LinkFacts
<1> QED  BY <1>1, <1>2, <1>3, <1>4

LEMMA NextLinkCases == LinkFacts'
  BY LinkCases, PTL

shownVars == <<Link, timer, sim, state, allowed>>

\* A call of _connect is an attempt of the client, or a retry that it does not need.
LEMMA ConnectIsClient ==
  ASSUME TypeOK, SocketInv, NEW armed \in {timer, FALSE}, Connect(armed)
  PROVE  [Client!ClientNext]_shownVars
<1>0. UNCHANGED <<sim, allowed>> /\ timer' = armed
  BY DEF Connect, world
<1>1. CASE HasSocket \/ inFlight
  <2>1. UNCHANGED <<phase, epoch, state>>
    BY <1>1 DEF Connect, conn
  <2>2. Link' = Link
    BY <2>1 DEF Link
  <2>3. Link # "none"
    BY <1>1, LinkCases, Bounds DEF HasSocket, SocketInv, TypeOK, LinkFacts
  <2>4. CASE timer' = timer
    BY <1>0, <2>1, <2>2, <2>4 DEF shownVars
  <2>5. CASE timer' = FALSE /\ timer' # timer
    BY <1>0, <2>1, <2>2, <2>3, <2>5 DEF Client!ClientNext, Client!NeedlessRetry, TypeOK
  <2> QED  BY <1>0, <2>4, <2>5
<1>2. CASE ~(HasSocket \/ inFlight)
  <2>1. PICK a \in Attempts : phase' = [phase EXCEPT ![a] = "minting"] /\ epoch' = a
    BY <1>2 DEF Connect
  <2>2. Link' = "opening"
    BY <2>1, NextLinkCases, Bounds DEF TypeOK, LinkFacts
  <2>3. Link # "open"
    BY <1>2, LinkCases DEF HasSocket, SocketInv, NoOrphanSocket, TypeOK, LinkFacts
  <2>4. state' = "connecting"
    BY <1>2 DEF Connect
  <2> QED  BY <1>0, <2>2, <2>3, <2>4 DEF Client!ClientNext, Client!Attempt
<1> QED  BY <1>1, <1>2

\* The retry logic is what the client does when its connection fails.
LEMMA ScheduleIsClient ==
  ASSUME TypeOK, NEW source \in Sources, ScheduleReconnect(source),
         Link # "none", Link' = "none", allowed' = allowed
  PROVE  Client!Failed
<1>1. CASE timer /\ UNCHANGED <<retry, state>>
  BY <1>1 DEF Client!Failed, retry
<1>2. CASE allowed /\ Simulate /\ timer' \in {timer, TRUE}
  BY <1>2 DEF Simulate, Client!Failed
<1>3. CASE ~timer /\ timer' = TRUE /\ state' = "reconnecting" /\ sim' = sim
  BY <1>3 DEF Client!Failed
<1> QED  BY <1>1, <1>2, <1>3 DEF ScheduleReconnect

\* The end of the service's own socket is a failure or a normal end of the connection; that
\* of any other socket is nothing.
LEMMA CloseIsClient ==
  ASSUME TypeOK, SocketInv, NEW a \in Attempts,
         phase[a] \in {"connecting", "open", "closing"}, NEW code \in Nat, OnClose(a, code),
         code = 1000 => phase[a] # "connecting"
  PROVE  [Client!ClientNext]_shownVars
<1>0. /\ phase' = [phase EXCEPT ![a] = "unused"]
      /\ epoch' = epoch /\ allowed' = allowed
  BY DEF OnClose, world
<1>1. CASE ~IsCurrent(a)
  <2>1. UNCHANGED <<state, timer, sim>>
    BY <1>1 DEF OnClose, retry
  <2>2. Link' = Link
    <3>1. CASE epoch # a
      BY <1>0, <3>1 DEF Link, TypeOK
    <3>2. CASE epoch = a
      <4>1. phase[a] = "closing"
        BY <1>1, <3>2 DEF SocketInv, NoOrphanSocket, IsCurrent
      <4>2. Link = "none"
        BY <3>2, <4>1, LinkCases DEF LinkFacts
      <4>3. phase'[a] = "unused"
        BY <1>0 DEF TypeOK
      <4> QED  BY <1>0, <3>2, <4>2, <4>3, NextLinkCases DEF LinkFacts
    <3> QED  BY <3>1, <3>2
  <2> QED  BY <1>0, <2>1, <2>2 DEF shownVars
<1>2. CASE IsCurrent(a)
  <2>1. epoch = a /\ epoch # None /\ phase[a] \in {"connecting", "open"}
    BY <1>2, Bounds DEF IsCurrent, SocketInv, NoOrphanSocket
  <2>2. phase'[epoch'] = "unused"
    BY <1>0, <2>1 DEF TypeOK
  <2>3. Link' = "none" /\ Link # "none" /\ (phase[a] = "open" => Link = "open")
    BY <2>1, <2>2, LinkCases, NextLinkCases DEF LinkFacts
  <2>4. CASE ScheduleReconnect(dataSource)
    BY <1>0, <2>3, <2>4, ScheduleIsClient DEF TypeOK, Client!ClientNext
  <2>5. CASE code = 1000 /\ state' = "disconnected" /\ UNCHANGED retry
    BY <1>0, <2>1, <2>3, <2>5 DEF Client!ClientNext, Client!EndedByServer, retry
  <2> QED  BY <1>2, <2>4, <2>5 DEF OnClose
<1> QED  BY <1>1, <1>2

\* An answered ticket is nothing yet, or a failure where no socket can be made.
LEMMA MintedIsClient ==
  ASSUME TypeOK, SocketInv, NEW a \in Attempts, Minted(a)
  PROVE  [Client!ClientNext]_shownVars
<1>0. phase[a] = "minting" /\ epoch' = epoch /\ allowed' = allowed
  BY DEF Minted, world
<1>1. CASE a # epoch
  <2>1. UNCHANGED <<state, timer, sim>> /\ phase' = [phase EXCEPT ![a] = "unused"]
    BY <1>1 DEF Minted, retry
  <2>2. Link' = Link
    BY <1>0, <1>1, <2>1 DEF Link, TypeOK
  <2> QED  BY <1>0, <2>1, <2>2 DEF shownVars
<1>2. CASE a = epoch /\ ~blocked
  <2>1. UNCHANGED <<state, timer, sim>> /\ phase' = [phase EXCEPT ![a] = "connecting"]
    BY <1>2 DEF Minted, retry
  <2>2. phase'[a] = "connecting" /\ epoch # None
    BY <1>2, <2>1, Bounds DEF TypeOK
  <2>3. Link = "opening" /\ Link' = "opening"
    BY <1>0, <1>2, <2>2, LinkCases, NextLinkCases DEF LinkFacts
  <2> QED  BY <1>0, <2>1, <2>3 DEF shownVars
<1>3. CASE a = epoch /\ blocked
  <2>1. phase'[a] = "unused" /\ epoch # None
    BY <1>3, Bounds DEF Minted, TypeOK
  <2>2. Link = "opening" /\ Link' = "none"
    BY <1>0, <1>3, <2>1, LinkCases, NextLinkCases DEF LinkFacts
  <2>3. CASE allowed /\ Simulate /\ timer' = timer
    BY <1>0, <2>2, <2>3 DEF Simulate, Client!Failed, Client!ClientNext
  <2>4. CASE ScheduleReconnect("unreachable")
    BY <1>0, <2>2, <2>4, ScheduleIsClient DEF Sources, Client!ClientNext
  <2> QED  BY <1>3, <2>3, <2>4 DEF Minted, Fallback
<1> QED  BY <1>1, <1>2, <1>3

\* Every step of the service is a step of the client or none: however many attempts overlap,
\* the page sees one at a time.
THEOREM OneAtATime == Spec => ImplementsClient
<1>1. Init => Client!ClientInit
  BY DEF Init, Client!ClientInit, Link
<1>2. TypeOK /\ SocketInv /\ [Next]_vars => [Client!ClientNext]_shownVars
  <2> SUFFICES ASSUME TypeOK, SocketInv, [Next]_vars PROVE [Client!ClientNext]_shownVars
    OBVIOUS
  <2>1. CASE Start \/ ReconnectTimer
    BY <2>1, ConnectIsClient DEF Start, ReconnectTimer
  <2>2. CASE Stop
    <3>1. Link' = "none"
      BY <2>2, NextLinkCases DEF Stop, LinkFacts
    <3> QED  BY <2>2, <3>1 DEF Stop, world, Client!ClientNext, Client!Stopped
  <2>3. CASE Frame \/ ServerChanges \/ UNCHANGED vars
    BY <2>3 DEF Frame, ServerChanges, vars, world, conn, retry, shownVars, Link
  <2>4. ASSUME NEW a \in Attempts, Minted(a) PROVE [Client!ClientNext]_shownVars
    BY <2>4, MintedIsClient
  <2>5. ASSUME NEW a \in Attempts, Lost(a) \/ ServerCloses(a) \/ Closed(a)
        PROVE  [Client!ClientNext]_shownVars
    BY <2>5, CloseIsClient DEF Lost, ServerCloses, Closed
  <2>6. ASSUME NEW a \in Attempts, OnOpen(a) PROVE [Client!ClientNext]_shownVars
    <3>1. /\ phase[a] = "connecting" /\ a = epoch /\ epoch' = epoch /\ epoch # None
          /\ phase'[a] = "open"
      BY <2>6, Bounds DEF OnOpen, IsCurrent, TypeOK
    <3>2. Link = "opening" /\ Link' = "open"
      BY <3>1, LinkCases, NextLinkCases DEF LinkFacts
    <3> QED  BY <2>6, <3>2 DEF OnOpen, world, Client!ClientNext, Client!Opened
  <2>7. ASSUME NEW a \in Attempts, StatusAnswer(a) PROVE [Client!ClientNext]_shownVars
    BY <2>7 DEF StatusAnswer, world, retry, shownVars, Link
  <2> QED  BY <2>1, <2>2, <2>3, <2>4, <2>5, <2>6, <2>7 DEF Next, AttemptStep
<1>3. shownVars = Client!clientVars
  BY DEF shownVars, Client!clientVars
<1>4. TypeOK /\ SocketInv /\ [Next]_vars => [Client!ClientNext]_(Client!clientVars)
  BY <1>2, <1>3 DEF shownVars, Client!clientVars
<1> QED  BY <1>1, <1>4, SocketsInvariant, PTL DEF Spec, ImplementsClient, Client!ClientSpec
==============================================================================
