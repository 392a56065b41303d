--------------------------- MODULE DirectorProofs ---------------------------
(***************************************************************************)
(* Safety of Director for any number of sources, threads and processes.     *)
(* KnownInv adds to LiveIsMonitored what Stop leaves behind: the director   *)
(* loses sight of the process started last only by closing a stop channel   *)
(* that no later switch gets past.                                          *)
(***************************************************************************)
EXTENDS Director, TLAPS

\* The assumptions on the constants, for citing.
LEMMA Distinct == /\ None \notin Pids /\ None \notin Sources
                  /\ Requests \subseteq Threads /\ Restarts \subseteq Threads
  BY ConstantsAssumption DEF ConstantsAssumption, Sources, Threads

\* TypeOK in the parts that the steps change.
PgmType == pgm \in [status : {"idle", "live"}, source : Sources \cup {None},
                    push : PushURLs \cup {None}, pid : Pids \cup {None},
                    stopChan : {"nil", "open", "closed"}, latest : Pids \cup {None}]

ProcessType ==
  /\ os \in [Pids -> {"none", "alive", "exited"}]
  /\ used \in [Pids -> [push : PushURLs \cup {None}, overlays : [Overlays -> Versions \cup {None}]]]

ThreadType ==
  /\ pc \in [Threads -> {"idle", "switch", "sync", "retry", "panicked", "pushed", "read"}]
  /\ arg \in [Threads -> Sources \cup {None}]
  /\ crashed \in BOOLEAN

TableType ==
  /\ devices \subseteq Cameras
  /\ sources \subseteq Sources
  /\ overlays \in [Overlays -> Versions \cup {None}]

\* The parts are the whole.
LEMMA Split == TypeOK <=> PgmType /\ ProcessType /\ ThreadType /\ TableType
  BY DEF TypeOK, PgmType, ProcessType, ThreadType, TableType

\* The director is created with its types.
LEMMA InitType == Init => TypeOK
<1> SUFFICES ASSUME Init PROVE TypeOK
  OBVIOUS
<1>1. PgmType
  BY DEF Init, PgmType
<1>2. ProcessType
  BY DEF Init, ProcessType, Unused
<1>3. ThreadType /\ TableType
  BY DEF Init, ThreadType, TableType
<1> QED  BY <1>1, <1>2, <1>3, Split

\* A kill changes one process, from alive to exited, or none.
LEMMA KillType ==
  ASSUME TypeOK, NEW after \in AfterKill
  PROVE  /\ after \in [Pids -> {"none", "alive", "exited"}]
         /\ \A p \in Pids : (after[p] = "none" <=> os[p] = "none") /\ (after[p] = "alive" => os[p] = "alive")
<1>1. CASE after = os
  BY <1>1 DEF TypeOK
<1>2. CASE /\ pgm.pid # None /\ os[pgm.pid] = "alive"
           /\ after = [os EXCEPT ![pgm.pid] = "exited"]
  <2>1. pgm.pid \in Pids
    BY <1>2 DEF TypeOK
  <2> QED  BY <1>2, <2>1 DEF TypeOK
<1> QED  BY <1>1, <1>2 DEF AfterKill

\* A thread that returns leaves the threads well typed.
LEMMA ReturnType ==
  ASSUME TypeOK, NEW t \in Threads, Return(t)
  PROVE  /\ pc' \in [Threads -> {"idle", "switch", "sync", "retry", "panicked", "pushed", "read"}]
         /\ arg' \in [Threads -> Sources \cup {None}]
  BY DEF Return, Goto, TypeOK

\* What a switch does to the program and its processes: ffmpeg does not start, or it does.
LEMMA SwitchCases ==
  ASSUME TypeOK, NEW t \in Threads, Switch(t)
  PROVE  /\ pgm.stopChan # "closed"
         /\ \E after \in AfterKill :
              \/ /\ os' = after /\ used' = used
                 /\ pgm' = [pgm EXCEPT !.status = "idle", !.source = arg[t], !.stopChan = Closed(pgm.stopChan)]
              \/ \E p \in Pids :
                   /\ os[p] = "none" /\ os' = [after EXCEPT ![p] = "alive"]
                   /\ pgm' = [pgm EXCEPT !.status = "live", !.source = arg[t], !.pid = p,
                                         !.stopChan = "open", !.latest = p]
                   /\ used' = [used EXCEPT ![p] = [push |-> pgm.push, overlays |-> overlays]]
  BY DEF Switch, ClosePanics

\* A switch keeps the types.
LEMMA SwitchType ==
  ASSUME TypeOK, NEW t \in Threads, Switch(t)
  PROVE  TypeOK'
<1>1. PICK after \in AfterKill :
        \/ /\ os' = after /\ used' = used
           /\ pgm' = [pgm EXCEPT !.status = "idle", !.source = arg[t], !.stopChan = Closed(pgm.stopChan)]
        \/ \E p \in Pids :
             /\ os[p] = "none" /\ os' = [after EXCEPT ![p] = "alive"]
             /\ pgm' = [pgm EXCEPT !.status = "live", !.source = arg[t], !.pid = p,
                                   !.stopChan = "open", !.latest = p]
             /\ used' = [used EXCEPT ![p] = [push |-> pgm.push, overlays |-> overlays]]
  BY SwitchCases
<1>2. after \in [Pids -> {"none", "alive", "exited"}] /\ arg[t] \in Sources \cup {None}
  BY KillType DEF TypeOK
<1>3. PgmType' /\ ProcessType'
  <2>1. CASE /\ os' = after /\ used' = used
             /\ pgm' = [pgm EXCEPT !.status = "idle", !.source = arg[t], !.stopChan = Closed(pgm.stopChan)]
    BY <1>2, <2>1 DEF TypeOK, PgmType, ProcessType, Closed
  <2>2. ASSUME NEW p \in Pids,
               os' = [after EXCEPT ![p] = "alive"],
               pgm' = [pgm EXCEPT !.status = "live", !.source = arg[t], !.pid = p,
                                  !.stopChan = "open", !.latest = p],
               used' = [used EXCEPT ![p] = [push |-> pgm.push, overlays |-> overlays]]
        PROVE  PgmType' /\ ProcessType'
    <3>1. PgmType'
      BY <1>2, <2>2 DEF TypeOK, PgmType
    <3>2. [push |-> pgm.push, overlays |-> overlays]
            \in [push : PushURLs \cup {None}, overlays : [Overlays -> Versions \cup {None}]]
      BY DEF TypeOK
    <3>3. used' \in [Pids -> [push : PushURLs \cup {None}, overlays : [Overlays -> Versions \cup {None}]]]
      BY <2>2, <3>2 DEF TypeOK
    <3> QED  BY <1>2, <2>2, <3>1, <3>3 DEF ProcessType
  <2> QED  BY <1>1, <2>1, <2>2
<1>4. ThreadType' /\ TableType'
  BY ReturnType DEF Switch, TypeOK, ThreadType, TableType
<1> QED  BY <1>3, <1>4, Split DEF TypeOK, PgmType, ProcessType, ThreadType, TableType

\* What a thread does keeps the types.
LEMMA ThreadStepType ==
  ASSUME TypeOK, NEW t \in Threads, ThreadStep(t)
  PROVE  TypeOK'
<1>1. CASE Switch(t)
  BY <1>1, SwitchType
<1>2. CASE Panic(t)
  BY <1>2, ReturnType DEF Panic, Goto, TypeOK
<1>3. CASE Goto(t, "sync") /\ UNCHANGED <<devices, sources, overlays, pgm, os, used, arg, crashed>>
  BY <1>3 DEF Goto, TypeOK
<1>4. CASE SyncForSwitch(t)
  BY <1>4 DEF SyncForSwitch, SyncSources, Goto, TypeOK, Sources
<1>5. CASE /\ pgm' = [pgm EXCEPT !.status = "idle"] /\ Return(t)
           /\ UNCHANGED <<devices, sources, overlays, os, used, crashed>>
  BY <1>5, ReturnType DEF TypeOK
<1> QED  BY <1>1, <1>2, <1>3, <1>4, <1>5 DEF ThreadStep, SwitchTo, RetrySwitch

\* The handlers keep the types.
LEMMA RequestType ==
  ASSUME TypeOK, NEW r \in Requests,
         \/ Recovered(r) \/ StopRequest(r) \/ PushRestart(r)
         \/ \E s \in Sources : SwitchRequest(r, s)
         \/ \E u \in PushURLs \cup {None} : PushRequest(r, u)
  PROVE  TypeOK'
<1>0. r \in Threads
  BY Distinct
<1>1. CASE Recovered(r)
  BY <1>0, <1>1, ReturnType DEF Recovered, TypeOK
<1>2. CASE StopRequest(r)
  <2>1. os' \in [Pids -> {"none", "alive", "exited"}]
    BY <1>2, KillType DEF StopRequest
  <2>2. PgmType'
    BY <1>2 DEF StopRequest, Closed, TypeOK, PgmType
  <2> QED  BY <1>2, <2>1, <2>2 DEF StopRequest, Goto, TypeOK, PgmType
<1>3. CASE PushRestart(r)
  BY <1>3 DEF PushRestart, Goto, TypeOK
<1>4. ASSUME NEW s \in Sources, SwitchRequest(r, s) PROVE TypeOK'
  BY <1>4 DEF SwitchRequest, Goto, TypeOK
<1>5. ASSUME NEW u \in PushURLs \cup {None}, PushRequest(r, u) PROVE TypeOK'
  BY <1>5 DEF PushRequest, Goto, TypeOK
<1> QED  BY <1>1, <1>2, <1>3, <1>4, <1>5

\* Every step keeps the types.
LEMMA TypeStep == TypeOK /\ [Next]_vars => TypeOK'
<1> SUFFICES ASSUME TypeOK, [Next]_vars PROVE TypeOK'
  OBVIOUS
<1>1. ASSUME NEW g \in Restarts, ReadSource(g) PROVE TypeOK'
  BY <1>1 DEF ReadSource, Goto, TypeOK
<1>2. ASSUME NEW p \in Pids, ProcessGone(p) PROVE TypeOK'
  BY <1>2 DEF ProcessGone, Unused, TypeOK
<1>3. ASSUME NEW p \in Pids, ProcessExits(p) PROVE TypeOK'
  BY <1>3 DEF ProcessExits, TypeOK
<1>4. CASE ListSources
  BY <1>4 DEF ListSources, SyncSources, Sources, TypeOK
<1>5. ASSUME NEW o \in Overlays, RemoveOverlay(o) PROVE TypeOK'
  BY <1>5 DEF RemoveOverlay, TypeOK
<1>6. ASSUME NEW o \in Overlays, NEW v \in Versions, SetOverlay(o, v) PROVE TypeOK'
  BY <1>6 DEF SetOverlay, StartRestart, TypeOK
<1>7. CASE DevicesChange
  BY <1>7 DEF DevicesChange, TypeOK
<1>8. CASE UNCHANGED vars
  BY <1>8 DEF vars, TypeOK
<1> QED  BY <1>1, <1>2, <1>3, <1>4, <1>5, <1>6, <1>7, <1>8, ThreadStepType, RequestType DEF Next

\* The types hold in every reachable state: a refused or failed switch never leaves a
\* status of its own.
THEOREM TypeCorrect == Spec => []TypeOK
  BY InitType, TypeStep, PTL DEF Spec

------------------------------------------------------------------------------
\* The director loses sight of the process started last only by a stop, which leaves a
\* closed channel and no source.
KnownInv ==
  /\ LiveIsMonitored
  /\ pgm.stopChan = "nil" => pgm.latest = None
  /\ (pgm.latest # None /\ pgm.pid # pgm.latest) => pgm.stopChan = "closed" /\ pgm.source = None

\* A switch keeps KnownInv: a closed channel stops it.
LEMMA SwitchKnown ==
  ASSUME TypeOK, KnownInv, NEW t \in Threads, Switch(t)
  PROVE  KnownInv'
<1>1. PICK after \in AfterKill :
        \/ /\ os' = after /\ used' = used
           /\ pgm' = [pgm EXCEPT !.status = "idle", !.source = arg[t], !.stopChan = Closed(pgm.stopChan)]
        \/ \E p \in Pids :
             /\ os[p] = "none" /\ os' = [after EXCEPT ![p] = "alive"]
             /\ pgm' = [pgm EXCEPT !.status = "live", !.source = arg[t], !.pid = p,
                                   !.stopChan = "open", !.latest = p]
             /\ used' = [used EXCEPT ![p] = [push |-> pgm.push, overlays |-> overlays]]
  BY SwitchCases
<1>2. pgm.stopChan # "closed"
  BY SwitchCases
<1>3. CASE pgm' = [pgm EXCEPT !.status = "idle", !.source = arg[t], !.stopChan = Closed(pgm.stopChan)]
  BY <1>2, <1>3 DEF KnownInv, LiveIsMonitored, Closed, TypeOK
<1>4. ASSUME NEW p \in Pids,
             os' = [after EXCEPT ![p] = "alive"],
             pgm' = [pgm EXCEPT !.status = "live", !.source = arg[t], !.pid = p,
                                !.stopChan = "open", !.latest = p]
      PROVE  KnownInv'
  <2>1. os'[p] = "alive"
    BY <1>4, KillType
  <2>2. pgm'.pid = p /\ pgm'.latest = p /\ pgm'.stopChan = "open" /\ p # None
    BY <1>4, Distinct DEF TypeOK
  <2> QED  BY <2>1, <2>2 DEF KnownInv, LiveIsMonitored
<1> QED  BY <1>1, <1>3, <1>4

\* A stop forgets the process, and closes the channel.
LEMMA StopKnown ==
  ASSUME TypeOK, KnownInv, NEW r \in Requests, StopRequest(r)
  PROVE  KnownInv'
<1>1. os' \in AfterKill
  BY DEF StopRequest
<1>2. CASE UNCHANGED pgm
  BY <1>1, <1>2, KillType DEF KnownInv, LiveIsMonitored, TypeOK
<1>3. CASE pgm' = [pgm EXCEPT !.stopChan = Closed(pgm.stopChan), !.status = "idle",
                              !.source = None, !.pid = None]
  BY <1>3 DEF KnownInv, LiveIsMonitored, Closed, TypeOK
<1> QED  BY <1>2, <1>3 DEF StopRequest

\* The end of a process keeps KnownInv: only the monitor of the latest resets the program.
LEMMA GoneKnown ==
  ASSUME TypeOK, KnownInv, NEW p \in Pids, ProcessGone(p)
  PROVE  KnownInv'
<1>1. CASE pgm.latest = p
  <2>1. pgm' = [pgm EXCEPT !.status = "idle", !.pid = None, !.latest = None]
    BY <1>1 DEF ProcessGone
  <2> QED  BY <2>1 DEF KnownInv, LiveIsMonitored, TypeOK
<1>2. CASE pgm.latest # p
  <2>1. pgm' = pgm /\ os' = [os EXCEPT ![p] = "none"]
    BY <1>2 DEF ProcessGone
  <2> QED  BY <1>2, <2>1 DEF KnownInv, LiveIsMonitored, TypeOK
<1> QED  BY <1>1, <1>2

\* Every step keeps KnownInv.
LEMMA KnownStep == TypeOK /\ KnownInv /\ [Next]_vars => KnownInv'
<1> SUFFICES ASSUME TypeOK, KnownInv, [Next]_vars PROVE KnownInv'
  OBVIOUS
<1>1. CASE UNCHANGED <<pgm, os>>
  BY <1>1 DEF KnownInv, LiveIsMonitored
<1>2. ASSUME NEW t \in Threads, ThreadStep(t) PROVE KnownInv'
  <2>1. CASE Switch(t)
    BY <2>1, SwitchKnown
  <2>2. CASE pgm' = [pgm EXCEPT !.status = "idle"] /\ UNCHANGED os
    BY <2>2 DEF KnownInv, LiveIsMonitored, TypeOK
  <2> QED  BY <1>1, <1>2, <2>1, <2>2 DEF ThreadStep, SwitchTo, SyncForSwitch, RetrySwitch, Panic
<1>3. ASSUME NEW r \in Requests, NEW u, PushRequest(r, u) PROVE KnownInv'
  BY <1>3 DEF PushRequest, KnownInv, LiveIsMonitored, TypeOK
<1>4. ASSUME NEW r \in Requests, Recovered(r) \/ PushRestart(r) \/ \E s \in Sources : SwitchRequest(r, s)
      PROVE  KnownInv'
  BY <1>1, <1>4 DEF Recovered, PushRestart, SwitchRequest
<1>5. ASSUME NEW p \in Pids, ProcessExits(p) PROVE KnownInv'
  BY <1>5 DEF ProcessExits, KnownInv, LiveIsMonitored, TypeOK
<1>6. CASE ListSources \/ DevicesChange \/ \E g \in Restarts : ReadSource(g)
  BY <1>1, <1>6 DEF ListSources, DevicesChange, ReadSource
<1>7. CASE \E o \in Overlays : RemoveOverlay(o) \/ \E v \in Versions : SetOverlay(o, v)
  BY <1>1, <1>7 DEF RemoveOverlay, SetOverlay
<1>8. CASE UNCHANGED vars
  BY <1>1, <1>8 DEF vars
<1> QED  BY <1>2, <1>3, <1>4, <1>5, <1>6, <1>7, <1>8, StopKnown, GoneKnown DEF Next

\* KnownInv holds in every reachable state.
LEMMA Known == Spec => [](TypeOK /\ KnownInv)
<1>1. Init => TypeOK /\ KnownInv
  BY InitType DEF Init, KnownInv, LiveIsMonitored
<1> QED  BY <1>1, TypeStep, KnownStep, PTL DEF Spec

\* A live program always has the monitor that will end it.
THEOREM LiveMonitored == Spec => []LiveIsMonitored
<1>1. KnownInv => LiveIsMonitored
  BY DEF KnownInv
<1> QED  BY <1>1, Known, PTL

\* The generation guard keeps the last process known while a source is selected.
THEOREM ProgramKnown == Spec => []ProgramIsKnown
<1>1. KnownInv => ProgramIsKnown
  BY DEF KnownInv, ProgramIsKnown
<1> QED  BY <1>1, Known, PTL

------------------------------------------------------------------------------
\* What a live program lacks: the current push URL, or an overlay that was added.
StalePush == used[pgm.pid].push # pgm.push
StaleOverlay(o) == overlays[o] # None /\ used[pgm.pid].overlays[o] = None
Pushing == \E r \in Requests : pc[r] = "pushed"

\* A switch leaves the program with the current push URL and overlays, or not live.
LEMMA SwitchFresh ==
  ASSUME TypeOK, NEW t \in Threads, Switch(t)
  PROVE  pgm'.status = "live" => ~StalePush' /\ \A o \in Overlays : ~StaleOverlay(o)'
<1>1. PICK after \in AfterKill :
        \/ /\ os' = after /\ used' = used
           /\ pgm' = [pgm EXCEPT !.status = "idle", !.source = arg[t], !.stopChan = Closed(pgm.stopChan)]
        \/ \E p \in Pids :
             /\ os[p] = "none" /\ os' = [after EXCEPT ![p] = "alive"]
             /\ pgm' = [pgm EXCEPT !.status = "live", !.source = arg[t], !.pid = p,
                                   !.stopChan = "open", !.latest = p]
             /\ used' = [used EXCEPT ![p] = [push |-> pgm.push, overlays |-> overlays]]
  BY SwitchCases
<1>2. CASE pgm' = [pgm EXCEPT !.status = "idle", !.source = arg[t], !.stopChan = Closed(pgm.stopChan)]
  BY <1>2 DEF TypeOK
<1>3. ASSUME NEW p \in Pids,
             pgm' = [pgm EXCEPT !.status = "live", !.source = arg[t], !.pid = p,
                                !.stopChan = "open", !.latest = p],
             used' = [used EXCEPT ![p] = [push |-> pgm.push, overlays |-> overlays]]
      PROVE  ~StalePush' /\ \A o \in Overlays : ~StaleOverlay(o)'
  <2>1. pgm'.pid = p /\ pgm'.push = pgm.push
    BY <1>3 DEF TypeOK
  <2>2. used'[p] = [push |-> pgm.push, overlays |-> overlays]
    BY <1>3 DEF TypeOK
  <2>3. overlays' = overlays
    BY DEF Switch
  <2> QED  BY <2>1, <2>2, <2>3 DEF StalePush, StaleOverlay
<1> QED  BY <1>1, <1>2, <1>3

\* What a step does that keeps the property: what is stale after it was stale before, and
\* no restart or push that was under way has ended.
LEMMA Undisturbed ==
  ASSUME StaleIsRestarted, ~crashed,
         pgm'.status = "live" => /\ pgm.status = "live" /\ (StalePush' => StalePush)
                                 /\ \A o \in Overlays : StaleOverlay(o)' => StaleOverlay(o),
         Restarting => Restarting', Pushing => Pushing'
  PROVE  StaleIsRestarted'
  BY DEF StaleIsRestarted, StalePush, StaleOverlay, Pushing

\* A thread that moves from a place that is neither idle nor "pushed", and does not go idle,
\* ends no restart and no push.
LEMMA MovesOn ==
  ASSUME TypeOK, NEW t \in Threads, NEW l, l # "idle" \/ t \notin Restarts, Goto(t, l),
         pc[t] # "pushed"
  PROVE  (Restarting => Restarting') /\ (Pushing => Pushing')
  BY Distinct DEF Goto, Restarting, Pushing, TypeOK

\* A thread that ends without a fresh program ends the backend or the status "live".
LEMMA ThreadStale ==
  ASSUME TypeOK, StaleIsRestarted, ~crashed, NEW t \in Threads, ThreadStep(t)
  PROVE  StaleIsRestarted'
<1>1. CASE Switch(t)
  BY <1>1, SwitchFresh DEF StaleIsRestarted, StalePush, StaleOverlay
<1>2. ASSUME NEW l \in {"sync", "retry", "panicked"}, Goto(t, l), pc[t] # "pushed",
             UNCHANGED <<overlays, pgm, used>>
      PROVE  StaleIsRestarted'
  BY <1>2, MovesOn, Undisturbed DEF StalePush, StaleOverlay
<1>3. CASE Panic(t) /\ pc[t] # "pushed"
  BY <1>2, <1>3 DEF Panic, StaleIsRestarted
<1>4. CASE pgm' = [pgm EXCEPT !.status = "idle"]
  BY <1>4 DEF StaleIsRestarted, TypeOK
<1> QED  BY <1>1, <1>2, <1>3, <1>4 DEF ThreadStep, SwitchTo, SyncForSwitch, RetrySwitch

\* A handler: the one that has set the URL starts a restart, or finds nothing live.
LEMMA RequestStale ==
  ASSUME TypeOK, StaleIsRestarted, ~crashed, NEW r \in Requests,
         \/ Recovered(r) \/ StopRequest(r) \/ PushRestart(r)
         \/ \E s \in Sources : SwitchRequest(r, s)
         \/ \E u \in PushURLs \cup {None} : PushRequest(r, u)
  PROVE  StaleIsRestarted'
<1>0. r \in Threads /\ r \notin Restarts
  BY Distinct, ConstantsAssumption DEF ConstantsAssumption
<1>1. ASSUME NEW l, Goto(r, l), pc[r] # "pushed", UNCHANGED <<overlays, pgm, used>>
      PROVE  StaleIsRestarted'
  BY <1>0, <1>1, MovesOn, Undisturbed DEF StalePush, StaleOverlay
<1>2. CASE Recovered(r) \/ \E s \in Sources : SwitchRequest(r, s)
  BY <1>1, <1>2 DEF Recovered, Return, SwitchRequest
<1>3. CASE StopRequest(r)
  <2>1. CASE Goto(r, "panicked") /\ UNCHANGED pgm
    BY <1>1, <1>3, <2>1 DEF StopRequest
  <2>2. CASE pgm'.status = "idle"
    BY <2>2 DEF StaleIsRestarted
  <2> QED  BY <1>3, <2>1, <2>2 DEF StopRequest, TypeOK
<1>4. CASE PushRestart(r)
  <2>1. CASE pgm.status # "live" /\ UNCHANGED pgm
    BY <2>1 DEF StaleIsRestarted
  <2>2. ASSUME NEW g \in Restarts, pc' = [pc EXCEPT ![g] = "read", ![r] = "idle"]
        PROVE  StaleIsRestarted'
    <3>1. g \in Threads /\ g # r /\ pc'[g] = "read"
      BY <1>0, <2>2, Distinct DEF TypeOK
    <3> QED  BY <3>1 DEF StaleIsRestarted, Restarting
  <2> QED  BY <1>4, <2>1, <2>2 DEF PushRestart
<1>5. ASSUME NEW u \in PushURLs \cup {None}, PushRequest(r, u) PROVE StaleIsRestarted'
  <2>1. pc'[r] = "pushed" /\ (Restarting => Restarting')
    BY <1>0, <1>5, Distinct DEF PushRequest, Goto, Restarting, TypeOK
  <2>2. pgm'.status = pgm.status /\ pgm'.pid = pgm.pid /\ UNCHANGED <<overlays, used>>
    BY <1>5 DEF PushRequest, TypeOK
  <2> QED  BY <2>1, <2>2 DEF StaleIsRestarted
<1> QED  BY <1>2, <1>3, <1>4, <1>5

\* The other steps: a new overlay starts a restart with it, and the end of a process that
\* has been replaced touches nothing the live program was started with.
LEMMA OtherStale ==
  ASSUME TypeOK, LiveIsMonitored, StaleIsRestarted, ~crashed,
         \/ \E g \in Restarts : ReadSource(g)
         \/ \E p \in Pids : ProcessGone(p) \/ ProcessExits(p)
         \/ ListSources \/ DevicesChange
         \/ \E o \in Overlays : RemoveOverlay(o) \/ \E v \in Versions : SetOverlay(o, v)
  PROVE  StaleIsRestarted'
<1>1. ASSUME NEW g \in Restarts, ReadSource(g) PROVE StaleIsRestarted'
  BY <1>1, Distinct, MovesOn, Undisturbed DEF ReadSource, StalePush, StaleOverlay
<1>2. ASSUME NEW p \in Pids, ProcessGone(p) PROVE StaleIsRestarted'
  <2>1. CASE pgm.latest = p
    BY <1>2, <2>1 DEF ProcessGone, StaleIsRestarted, TypeOK
  <2>2. CASE pgm.latest # p /\ pgm.status = "live"
    <3>1. UNCHANGED <<pgm, overlays, pc>> /\ pgm.pid \in Pids /\ used'[pgm.pid] = used[pgm.pid]
      BY <1>2, <2>2 DEF ProcessGone, LiveIsMonitored, TypeOK
    <3> QED  BY <3>1 DEF StaleIsRestarted, Restarting
  <2>3. CASE pgm.latest # p /\ pgm.status # "live"
    BY <1>2, <2>3 DEF ProcessGone, StaleIsRestarted
  <2> QED  BY <2>1, <2>2, <2>3
<1>3. CASE (\E p \in Pids : ProcessExits(p)) \/ ListSources \/ DevicesChange
  BY <1>3 DEF ProcessExits, ListSources, DevicesChange, StaleIsRestarted, Restarting
<1>4. ASSUME NEW o \in Overlays, RemoveOverlay(o) PROVE StaleIsRestarted'
  BY <1>4 DEF RemoveOverlay, StaleIsRestarted, Restarting, TypeOK
<1>5. ASSUME NEW o \in Overlays, NEW v \in Versions, SetOverlay(o, v) PROVE StaleIsRestarted'
  <2>0. UNCHANGED <<pgm, used, crashed>> /\ \A q \in Overlays : q # o => overlays'[q] = overlays[q]
    BY <1>5 DEF SetOverlay, TypeOK
  <2>1. CASE StartRestart
    <3>1. Restarting'
      BY <2>1, Distinct DEF StartRestart, Restarting, TypeOK
    <3> QED  BY <3>1 DEF StaleIsRestarted
  <2>2. CASE pgm.status # "live"
    BY <2>0, <2>2 DEF StaleIsRestarted
  <2>3. CASE overlays[o] # None /\ UNCHANGED pc
    BY <2>0, <2>3 DEF StaleIsRestarted, Restarting
  <2> QED  BY <1>5, <2>1, <2>2, <2>3 DEF SetOverlay
<1> QED  BY <1>1, <1>2, <1>3, <1>4, <1>5

\* A live program that lacks the push URL or an added overlay is always on its way to be
\* replaced, for any number of handlers, restarts and processes.
THEOREM StaleRestarted == Spec => []StaleIsRestarted
<1>1. Init => StaleIsRestarted
  BY DEF Init, StaleIsRestarted
<1>2. TypeOK /\ KnownInv /\ StaleIsRestarted /\ [Next]_vars => StaleIsRestarted'
  <2> SUFFICES ASSUME TypeOK, KnownInv, StaleIsRestarted, [Next]_vars PROVE StaleIsRestarted'
    OBVIOUS
  <2>1. CASE UNCHANGED vars
    BY <2>1 DEF vars, StaleIsRestarted, Restarting
  <2>2. CASE Next
    BY <2>2, ThreadStale, RequestStale, OtherStale DEF Next, KnownInv
  <2> QED  BY <2>1, <2>2
<1> QED  BY <1>1, <1>2, Known, PTL DEF Spec
==============================================================================
