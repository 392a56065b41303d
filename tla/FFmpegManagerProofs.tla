------------------------- MODULE FFmpegManagerProofs -------------------------
(***************************************************************************)
(* Safety of FFmpegManager for any number of devices, requests and          *)
(* processes: the types, the accounting of the semaphore and the bound on   *)
(* live ffmpeg processes.                                                   *)
(***************************************************************************)
EXTENDS FFmpegManager, FiniteSetTheorems, TLAPS

\* The process a launch is about to register is its own: no other launch, no map
\* entry, no stop and no exit handler refers to it yet.
LaunchesDisjoint ==
  \A t \in Threads : pc[t] = "register" =>
    /\ hold[t] \in Procs
    /\ pc[hold[t]] = "idle" /\ dev[hold[t]] = dev[t]
    /\ \A d \in Devices : proxies[d] # hold[t]
    /\ \A u \in Threads \ {t} : hold[u] # hold[t]

\* Every thread at work has a device.
BusyHasDevice == \A t \in Threads : pc[t] # "idle" => dev[t] \in Devices

\* An exit handler that has marked its entry has waited for its process.
MarkedHasExited == \A p \in Procs : pc[p] = "marked" => os[p] \in {"clean", "failed"}

\* The inductive invariant.
IInv == /\ TypeOK /\ BusyHasDevice /\ LaunchesDisjoint /\ RunningIsWatched
        /\ MarkedHasExited /\ LiveIsAttended /\ TokenAccounting

USE DEF Threads, Launching, Starting, Watching, Points

\* The initial state: nobody works, so every part of the invariant but the
\* accounting holds at once.
LEMMA InitIInv ==
  Init => /\ TypeOK /\ BusyHasDevice /\ LaunchesDisjoint
          /\ RunningIsWatched /\ MarkedHasExited /\ LiveIsAttended
BY ConstantsAssumption DEF Init, TypeOK, BusyHasDevice, LaunchesDisjoint, RunningIsWatched,
     MarkedHasExited, LiveIsAttended, IsRunning, Live

\* Every step keeps the types; the counter of the semaphore needs the accounting
\* (a token given back was taken).
LEMMA TypeStep ==
  ASSUME TypeOK, BusyHasDevice, LaunchesDisjoint, TokenAccounting, [Next]_vars
  PROVE  TypeOK'
<1> USE ConstantsAssumption DEF TypeOK
<1>0. IsFiniteSet(TokenOwners)
  BY FiniteAssumption, FS_Subset, FS_Union DEF TokenOwners
<1>a. ASSUME NEW t \in TokenOwners PROVE sem - 1 \in 0..MaxConcurrent
  <2>1. sem # 0
    BY <1>0, FS_EmptySet DEF TokenAccounting
  <2> QED BY <2>1
<1>1. ASSUME NEW r \in Requests, NEW d \in Devices, NEW c \in Configs, StartRequest(r, d, c) PROVE TypeOK'
  BY <1>1 DEF StartRequest, Goto, tables, procs
<1>2. ASSUME NEW t \in Threads, Lookup(t) PROVE TypeOK'
  BY <1>2 DEF Lookup, Goto, tables, procs, locals
<1>3. ASSUME NEW t \in Threads, CheckRunning(t) PROVE TypeOK'
  BY <1>3 DEF CheckRunning, Goto, Return, tables, procs, locals
<1>4. ASSUME NEW t \in Threads, Acquire(t) PROVE TypeOK'
  BY <1>4 DEF Acquire, Goto, tables, procs, locals
<1>5. ASSUME NEW t \in Threads, KillHolders(t) PROVE TypeOK'
  BY <1>5 DEF KillHolders, Killed, Live, Goto, tables, locals
<1>6. ASSUME NEW t \in Threads, SaveConfig(t) PROVE TypeOK'
  BY <1>6 DEF SaveConfig, Goto, procs, BusyHasDevice
<1>7. ASSUME NEW t \in Threads, NEW p \in Procs, Spawn(t, p) PROVE TypeOK'
  BY <1>7 DEF Spawn, Goto, tables
<1>8. ASSUME NEW t \in Threads, SpawnFails(t) PROVE TypeOK'
  BY <1>8, <1>a DEF SpawnFails, Goto, tables, procs, locals, TokenOwners
<1>9. ASSUME NEW t \in Threads, ReturnError(t) PROVE TypeOK'
  BY <1>9 DEF ReturnError, Return, Goto, tables, procs
<1>10. ASSUME NEW t \in Threads, Register(t) PROVE TypeOK'
  <2>1. hold[t] \in Procs
    BY <1>10 DEF Register, LaunchesDisjoint
  <2>2. pc' \in [Threads -> Points]
    BY <1>10, <2>1 DEF Register
  <2>3. /\ proxies' \in [Devices -> Procs \cup {None}]
        /\ running' \in [Procs -> BOOLEAN]
        /\ retries' \in [Devices -> 0..RetryCap]
    <3>1. 0 \in 0..RetryCap
      OBVIOUS
    <3>2. /\ proxies' = [proxies EXCEPT ![dev[t]] = hold[t]]
          /\ running' = [running EXCEPT ![hold[t]] = TRUE]
          /\ retries' = [retries EXCEPT ![dev[t]] = 0]
      BY <1>10 DEF Register
    <3> QED BY <2>1, <3>1, <3>2
  <2>4. /\ dev' \in [Threads -> Devices \cup {None}]
        /\ cfg' \in [Threads -> Configs \cup {None}]
        /\ hold' \in [Threads -> Procs \cup {None}]
        /\ seen' \in [Threads -> 0..RetryCap]
    BY <1>10 DEF Register
  <2> QED
    BY <1>10, <2>2, <2>3, <2>4 DEF Register, procs
<1>11. ASSUME NEW p \in Procs, MarkExited(p) PROVE TypeOK'
  BY <1>11 DEF MarkExited, Goto, procs, BusyHasDevice
<1>12. ASSUME NEW p \in Procs, ReleaseToken(p) PROVE TypeOK'
  BY <1>12, <1>a DEF ReleaseToken, Return, Goto, tables, locals, TokenOwners
<1>13. ASSUME NEW p \in Procs, DecideRestart(p) PROVE TypeOK'
  <2>a. seen[p] \in 0..RetryCap
    OBVIOUS
  <2>1. retries' \in [Devices -> 0..RetryCap]
    <3> DEFINE n == IF seen[p] < RetryCap THEN seen[p] + 1 ELSE RetryCap
    <3>1. n \in 0..RetryCap
      BY <2>a
    <3>2. retries' = [retries EXCEPT ![dev[p]] = n]
      BY <1>13 DEF DecideRestart
    <3> HIDE DEF n
    <3> QED BY <3>1, <3>2
  <2>2. CASE proxies[dev[p]] # None
    <3>1. 0 \in 0..RetryCap
      OBVIOUS
    <3>2. seen' \in [Threads -> 0..RetryCap] /\ pc' \in [Threads -> Points]
      BY <1>13, <2>2, <3>1 DEF DecideRestart, Goto
    <3> QED BY <1>13, <2>1, <2>2, <3>2 DEF DecideRestart
  <2>3. CASE proxies[dev[p]] = None
    BY <1>13, <2>1, <2>3 DEF DecideRestart, Return, Goto
  <2> QED BY <2>2, <2>3
<1>14. ASSUME NEW p \in Procs, Wake(p) PROVE TypeOK'
  BY <1>14 DEF Wake, Goto, tables, procs
<1>15. ASSUME NEW r \in Requests, NEW d \in Devices, StopRequest(r, d) PROVE TypeOK'
  BY <1>15 DEF StopRequest, RemoveEntry, Goto, procs
<1>16. ASSUME NEW r \in Requests, NEW d \in Devices, NEW c \in Configs, ConfigRequest(r, d, c) PROVE TypeOK'
  BY <1>16 DEF ConfigRequest, RemoveEntry, Goto, procs
<1>17. ASSUME NEW r \in Requests, Cancel(r) PROVE TypeOK'
  <2>1. os' \in [Procs -> {"none", "alive", "stuck", "clean", "failed"}]
    BY <1>17 DEF Cancel, Killed
  <2>2. CASE pc[r] = "cancel"
    <3>1. /\ dev' \in [Threads -> Devices \cup {None}]
          /\ cfg' \in [Threads -> Configs \cup {None}]
          /\ hold' \in [Threads -> Procs \cup {None}]
          /\ seen' \in [Threads -> 0..RetryCap]
          /\ pc' \in [Threads -> Points]
      BY <1>17, <2>2 DEF Cancel, Return, Goto
    <3> QED BY <1>17, <2>1, <3>1 DEF Cancel, tables
  <2>3. CASE pc[r] = "cfgCancel"
    BY <1>17, <2>1, <2>3 DEF Cancel, Goto, tables
  <2> QED BY <1>17, <2>2, <2>3 DEF Cancel
<1>18. ASSUME NEW r \in Requests, SetConfig(r) PROVE TypeOK'
  BY <1>18 DEF SetConfig, Goto, procs, locals
<1>19. ASSUME NEW late \in SUBSET Devices, NEW reaped \in SUBSET Devices, HealthCheck(late, reaped) PROVE TypeOK'
  BY <1>19 DEF HealthCheck, Killed, Live, locals
<1>20. ASSUME NEW p \in Procs, ProcExits(p) \/ ProcHangs(p) \/ PullExits(p) PROVE TypeOK'
  <2>1. CASE ProcExits(p)
    BY <2>1 DEF ProcExits, tables, locals
  <2>2. CASE ProcHangs(p)
    BY <2>2 DEF ProcHangs, tables, locals
  <2>3. CASE PullExits(p)
    BY <2>3 DEF PullExits, tables, locals
  <2> QED BY <1>20, <2>1, <2>2, <2>3
<1>21. ASSUME NEW d \in Devices, DeleteDevice(d) PROVE TypeOK'
  BY <1>21 DEF DeleteDevice, tables, procs, locals
<1>22. ASSUME UNCHANGED vars PROVE TypeOK'
  BY <1>22 DEF vars, tables, procs, locals
<1> QED
  BY <1>1, <1>2, <1>3, <1>4, <1>5, <1>6, <1>7, <1>8, <1>9, <1>10, <1>11, <1>12, <1>13, <1>14,
     <1>15, <1>16, <1>17, <1>18, <1>19, <1>20, <1>21, <1>22
  DEF Next, StartStep, HandlerStep, RequestStep, HealthTick

\* A thread that leaves "idle" is given a device first.
LEMMA BusyStep ==
  ASSUME TypeOK, BusyHasDevice, LaunchesDisjoint, [Next]_vars
  PROVE  BusyHasDevice'
<1> USE DEF TypeOK, BusyHasDevice, LaunchesDisjoint
<1>1. ASSUME NEW r \in Requests, NEW d \in Devices, NEW c \in Configs, StartRequest(r, d, c) PROVE BusyHasDevice'
  BY <1>1 DEF StartRequest, Goto, tables, procs
<1>2. ASSUME NEW t \in Threads, Lookup(t) PROVE BusyHasDevice'
  BY <1>2 DEF Lookup, Goto, tables, procs, locals
<1>3. ASSUME NEW t \in Threads, CheckRunning(t) PROVE BusyHasDevice'
  BY <1>3 DEF CheckRunning, Goto, Return, tables, procs, locals
<1>4. ASSUME NEW t \in Threads, Acquire(t) PROVE BusyHasDevice'
  BY <1>4 DEF Acquire, Goto, tables, procs, locals
<1>5. ASSUME NEW t \in Threads, KillHolders(t) PROVE BusyHasDevice'
  BY <1>5 DEF KillHolders, Killed, Goto, tables, locals
<1>6. ASSUME NEW t \in Threads, SaveConfig(t) PROVE BusyHasDevice'
  BY <1>6 DEF SaveConfig, Goto, procs
<1>7. ASSUME NEW t \in Threads, NEW p \in Procs, Spawn(t, p) PROVE BusyHasDevice'
  BY <1>7 DEF Spawn, Fresh, Goto, tables
<1>8. ASSUME NEW t \in Threads, SpawnFails(t) PROVE BusyHasDevice'
  BY <1>8 DEF SpawnFails, Goto, tables, procs, locals
<1>9. ASSUME NEW t \in Threads, ReturnError(t) PROVE BusyHasDevice'
  BY <1>9 DEF ReturnError, Return, Goto, tables, procs
<1>10. ASSUME NEW t \in Threads, Register(t) PROVE BusyHasDevice'
  BY <1>10 DEF Register, procs
<1>11. ASSUME NEW p \in Procs, MarkExited(p) PROVE BusyHasDevice'
  BY <1>11 DEF MarkExited, Goto, procs
<1>12. ASSUME NEW p \in Procs, ReleaseToken(p) PROVE BusyHasDevice'
  BY <1>12 DEF ReleaseToken, Return, Goto, tables, locals
<1>13. ASSUME NEW p \in Procs, DecideRestart(p) PROVE BusyHasDevice'
  BY <1>13 DEF DecideRestart, Return, Goto, locals
<1>14. ASSUME NEW p \in Procs, Wake(p) PROVE BusyHasDevice'
  BY <1>14 DEF Wake, Goto, tables, procs
<1>15. ASSUME NEW r \in Requests, NEW d \in Devices, StopRequest(r, d) PROVE BusyHasDevice'
  BY <1>15 DEF StopRequest, RemoveEntry, Goto, procs
<1>16. ASSUME NEW r \in Requests, NEW d \in Devices, NEW c \in Configs, ConfigRequest(r, d, c) PROVE BusyHasDevice'
  BY <1>16 DEF ConfigRequest, RemoveEntry, Goto, procs
<1>17. ASSUME NEW r \in Requests, Cancel(r) PROVE BusyHasDevice'
  BY <1>17 DEF Cancel, Killed, Return, Goto, tables
<1>18. ASSUME NEW r \in Requests, SetConfig(r) PROVE BusyHasDevice'
  BY <1>18 DEF SetConfig, Goto, procs, locals
<1>19. ASSUME NEW late \in SUBSET Devices, NEW reaped \in SUBSET Devices, HealthCheck(late, reaped) PROVE BusyHasDevice'
  BY <1>19 DEF HealthCheck, Killed, locals
<1>20. ASSUME NEW p \in Procs, ProcExits(p) PROVE BusyHasDevice'
  BY <1>20 DEF ProcExits, tables, locals
<1>21. ASSUME NEW p \in Procs, ProcHangs(p) PROVE BusyHasDevice'
  BY <1>21 DEF ProcHangs, tables, locals
<1>22. ASSUME NEW p \in Procs, PullExits(p) PROVE BusyHasDevice'
  BY <1>22 DEF PullExits, tables, locals
<1>23. ASSUME NEW d \in Devices, DeleteDevice(d) PROVE BusyHasDevice'
  BY <1>23 DEF DeleteDevice, tables, procs, locals
<1>24. ASSUME UNCHANGED vars PROVE BusyHasDevice'
  BY <1>24 DEF vars, tables, procs, locals
<1> QED
  BY <1>1, <1>2, <1>3, <1>4, <1>5, <1>6, <1>7, <1>8, <1>9, <1>10, <1>11, <1>12, <1>13, <1>14,
     <1>15, <1>16, <1>17, <1>18, <1>19, <1>20, <1>21, <1>22, <1>23, <1>24
  DEF Next, StartStep, HandlerStep, RequestStep, HealthTick

\* A launch takes a fresh process, and nobody can refer to it before Register.
LEMMA LaunchesStep ==
  ASSUME TypeOK, LaunchesDisjoint, RunningIsWatched, [Next]_vars
  PROVE  LaunchesDisjoint'
<1> USE ConstantsAssumption DEF TypeOK, LaunchesDisjoint
<1>1. ASSUME NEW r \in Requests, NEW d \in Devices, NEW c \in Configs, StartRequest(r, d, c) PROVE LaunchesDisjoint'
  BY <1>1 DEF StartRequest, Goto, tables, procs
<1>2. ASSUME NEW t \in Threads, Lookup(t) PROVE LaunchesDisjoint'
  BY <1>2 DEF Lookup, Goto, tables, procs, locals
<1>3. ASSUME NEW t \in Threads, CheckRunning(t) PROVE LaunchesDisjoint'
  BY <1>3 DEF CheckRunning, Goto, Return, tables, procs, locals
<1>4. ASSUME NEW t \in Threads, Acquire(t) PROVE LaunchesDisjoint'
  BY <1>4 DEF Acquire, Goto, tables, procs, locals
<1>5. ASSUME NEW t \in Threads, KillHolders(t) PROVE LaunchesDisjoint'
  BY <1>5 DEF KillHolders, Killed, Goto, tables, locals
<1>6. ASSUME NEW t \in Threads, SaveConfig(t) PROVE LaunchesDisjoint'
  BY <1>6 DEF SaveConfig, Goto, procs
<1>7. ASSUME NEW t \in Threads, NEW p \in Procs, Spawn(t, p) PROVE LaunchesDisjoint'
  BY <1>7 DEF Spawn, Fresh, Goto, tables
<1>8. ASSUME NEW t \in Threads, SpawnFails(t) PROVE LaunchesDisjoint'
  BY <1>8 DEF SpawnFails, Goto, tables, procs, locals
<1>9. ASSUME NEW t \in Threads, ReturnError(t) PROVE LaunchesDisjoint'
  BY <1>9 DEF ReturnError, Return, Goto, tables, procs
<1>10. ASSUME NEW t \in Threads, Register(t) PROVE LaunchesDisjoint'
  BY <1>10 DEF Register, procs
<1>11. ASSUME NEW p \in Procs, MarkExited(p) PROVE LaunchesDisjoint'
  BY <1>11 DEF MarkExited, Goto, procs
<1>12. ASSUME NEW p \in Procs, ReleaseToken(p) PROVE LaunchesDisjoint'
  BY <1>12 DEF ReleaseToken, Return, Goto, tables, locals
<1>13. ASSUME NEW p \in Procs, DecideRestart(p) PROVE LaunchesDisjoint'
  BY <1>13 DEF DecideRestart, Return, Goto, locals
<1>14. ASSUME NEW p \in Procs, Wake(p) PROVE LaunchesDisjoint'
  BY <1>14 DEF Wake, Goto, tables, procs
<1>15. ASSUME NEW r \in Requests, NEW d \in Devices, StopRequest(r, d) PROVE LaunchesDisjoint'
  BY <1>15 DEF StopRequest, RemoveEntry, Goto, procs
<1>16. ASSUME NEW r \in Requests, NEW d \in Devices, NEW c \in Configs, ConfigRequest(r, d, c) PROVE LaunchesDisjoint'
  BY <1>16 DEF ConfigRequest, RemoveEntry, Goto, procs
<1>17. ASSUME NEW r \in Requests, Cancel(r) PROVE LaunchesDisjoint'
  BY <1>17 DEF Cancel, Killed, Return, Goto, tables
<1>18. ASSUME NEW r \in Requests, SetConfig(r) PROVE LaunchesDisjoint'
  BY <1>18 DEF SetConfig, Goto, procs, locals
<1>19. ASSUME NEW late \in SUBSET Devices, NEW reaped \in SUBSET Devices, HealthCheck(late, reaped) PROVE LaunchesDisjoint'
  BY <1>19 DEF HealthCheck, Killed, locals
<1>20. ASSUME NEW p \in Procs, ProcExits(p) PROVE LaunchesDisjoint'
  BY <1>20 DEF ProcExits, tables, locals
<1>21. ASSUME NEW p \in Procs, ProcHangs(p) PROVE LaunchesDisjoint'
  BY <1>21 DEF ProcHangs, tables, locals
<1>22. ASSUME NEW p \in Procs, PullExits(p) PROVE LaunchesDisjoint'
  BY <1>22 DEF PullExits, tables, locals
<1>23. ASSUME NEW d \in Devices, DeleteDevice(d) PROVE LaunchesDisjoint'
  BY <1>23 DEF DeleteDevice, tables, procs, locals
<1>24. ASSUME UNCHANGED vars PROVE LaunchesDisjoint'
  BY <1>24 DEF vars, tables, procs, locals
<1> QED
  BY <1>1, <1>2, <1>3, <1>4, <1>5, <1>6, <1>7, <1>8, <1>9, <1>10, <1>11, <1>12, <1>13, <1>14,
     <1>15, <1>16, <1>17, <1>18, <1>19, <1>20, <1>21, <1>22, <1>23, <1>24
  DEF Next, StartStep, HandlerStep, RequestStep, HealthTick

\* Running is set together with the exit handler and cleared by the handler that
\* leaves "wait" (for the entry of its device, its own included).
LEMMA RunningStep ==
  ASSUME TypeOK, BusyHasDevice, LaunchesDisjoint, RunningIsWatched, [Next]_vars
  PROVE  RunningIsWatched'
<1> USE DEF TypeOK, RunningIsWatched, IsRunning
<1>1. ASSUME NEW r \in Requests, NEW d \in Devices, NEW c \in Configs, StartRequest(r, d, c) PROVE RunningIsWatched'
  BY <1>1 DEF StartRequest, Goto, tables, procs
<1>2. ASSUME NEW t \in Threads, Lookup(t) PROVE RunningIsWatched'
  BY <1>2 DEF Lookup, Goto, tables, procs, locals
<1>3. ASSUME NEW t \in Threads, CheckRunning(t) PROVE RunningIsWatched'
  BY <1>3 DEF CheckRunning, Goto, Return, tables, procs, locals
<1>4. ASSUME NEW t \in Threads, Acquire(t) PROVE RunningIsWatched'
  BY <1>4 DEF Acquire, Goto, tables, procs, locals
<1>5. ASSUME NEW t \in Threads, KillHolders(t) PROVE RunningIsWatched'
  BY <1>5 DEF KillHolders, Goto, tables, locals
<1>6. ASSUME NEW t \in Threads, SaveConfig(t) PROVE RunningIsWatched'
  BY <1>6 DEF SaveConfig, Goto, procs
<1>7. ASSUME NEW t \in Threads, NEW p \in Procs, Spawn(t, p) PROVE RunningIsWatched'
  BY <1>7 DEF Spawn, Fresh, Goto, tables
<1>8. ASSUME NEW t \in Threads, SpawnFails(t) PROVE RunningIsWatched'
  BY <1>8 DEF SpawnFails, Goto, tables, procs, locals
<1>9. ASSUME NEW t \in Threads, ReturnError(t) PROVE RunningIsWatched'
  BY <1>9 DEF ReturnError, Return, Goto, tables, procs
<1>10. ASSUME NEW t \in Threads, Register(t) PROVE RunningIsWatched'
  <2>1. hold[t] \in Procs /\ t # hold[t] /\ dev[t] \in Devices /\ hold[t] # None
    BY <1>10, ConstantsAssumption DEF Register, LaunchesDisjoint, BusyHasDevice
  <2> SUFFICES ASSUME NEW d \in Devices, IsRunning(d)'
               PROVE  pc'[proxies'[d]] = "wait" /\ dev'[proxies'[d]] = d
    OBVIOUS
  <2>2. CASE d = dev[t]
    BY <1>10, <2>1, <2>2 DEF Register, LaunchesDisjoint
  <2>3. CASE d # dev[t]
    <3>1. proxies'[d] = proxies[d] /\ proxies[d] # hold[t]
      BY <1>10, <2>1, <2>3 DEF Register, LaunchesDisjoint
    <3>2. proxies[d] \in Procs /\ running[proxies[d]]
      BY <1>10, <2>1, <3>1 DEF Register
    <3>3. proxies[d] # t /\ pc[proxies[d]] = "wait" /\ dev[proxies[d]] = d
      BY <1>10, <3>2, ConstantsAssumption DEF Register
    <3> QED BY <1>10, <2>1, <3>1, <3>2, <3>3 DEF Register
  <2> QED BY <2>2, <2>3
<1>11. ASSUME NEW p \in Procs, MarkExited(p) PROVE RunningIsWatched'
  <2> SUFFICES ASSUME NEW d \in Devices, IsRunning(d)'
               PROVE  pc'[proxies'[d]] = "wait" /\ dev'[proxies'[d]] = d
    OBVIOUS
  <2>1. proxies[d] \in Procs /\ running[proxies[d]] /\ proxies[d] # proxies[dev[p]]
    BY <1>11 DEF MarkExited
  <2>2. pc[proxies[d]] = "wait" /\ dev[proxies[d]] = d
    BY <2>1, ConstantsAssumption
  <2> QED BY <1>11, <2>1, <2>2 DEF MarkExited, Goto
<1>12. ASSUME NEW p \in Procs, ReleaseToken(p) PROVE RunningIsWatched'
  BY <1>12 DEF ReleaseToken, Return, Goto, tables, locals
<1>13. ASSUME NEW p \in Procs, DecideRestart(p) PROVE RunningIsWatched'
  BY <1>13 DEF DecideRestart, Return, Goto, locals
<1>14. ASSUME NEW p \in Procs, Wake(p) PROVE RunningIsWatched'
  BY <1>14 DEF Wake, Goto, tables, procs
<1>15. ASSUME NEW r \in Requests, NEW d \in Devices, StopRequest(r, d) PROVE RunningIsWatched'
  BY <1>15 DEF StopRequest, RemoveEntry, Goto, procs
<1>16. ASSUME NEW r \in Requests, NEW d \in Devices, NEW c \in Configs, ConfigRequest(r, d, c) PROVE RunningIsWatched'
  BY <1>16 DEF ConfigRequest, RemoveEntry, Goto, procs
<1>17. ASSUME NEW r \in Requests, Cancel(r) PROVE RunningIsWatched'
  BY <1>17 DEF Cancel, Killed, Return, Goto, tables
<1>18. ASSUME NEW r \in Requests, SetConfig(r) PROVE RunningIsWatched'
  BY <1>18 DEF SetConfig, Goto, procs, locals
<1>19. ASSUME NEW late \in SUBSET Devices, NEW reaped \in SUBSET Devices, HealthCheck(late, reaped) PROVE RunningIsWatched'
  BY <1>19 DEF HealthCheck, Killed, locals
<1>20. ASSUME NEW p \in Procs, ProcExits(p) PROVE RunningIsWatched'
  BY <1>20 DEF ProcExits, tables, locals
<1>21. ASSUME NEW p \in Procs, ProcHangs(p) PROVE RunningIsWatched'
  BY <1>21 DEF ProcHangs, tables, locals
<1>22. ASSUME NEW p \in Procs, PullExits(p) PROVE RunningIsWatched'
  BY <1>22 DEF PullExits, tables, locals
<1>23. ASSUME NEW d \in Devices, DeleteDevice(d) PROVE RunningIsWatched'
  BY <1>23 DEF DeleteDevice, tables, procs, locals
<1>24. ASSUME UNCHANGED vars PROVE RunningIsWatched'
  BY <1>24 DEF vars, tables, procs, locals
<1> QED
  BY <1>1, <1>2, <1>3, <1>4, <1>5, <1>6, <1>7, <1>8, <1>9, <1>10, <1>11, <1>12, <1>13, <1>14,
     <1>15, <1>16, <1>17, <1>18, <1>19, <1>20, <1>21, <1>22, <1>23, <1>24
  DEF Next, StartStep, HandlerStep, RequestStep, HealthTick

\* A handler reaches "marked" only when its process has exited, and nothing starts
\* that process again before the handler returns.
LEMMA MarkedStep ==
  ASSUME TypeOK, LaunchesDisjoint, MarkedHasExited, [Next]_vars
  PROVE  MarkedHasExited'
<1> USE DEF TypeOK, MarkedHasExited, Live
<1>1. ASSUME NEW r \in Requests, NEW d \in Devices, NEW c \in Configs, StartRequest(r, d, c) PROVE MarkedHasExited'
  BY <1>1 DEF StartRequest, Goto, tables, procs
<1>2. ASSUME NEW t \in Threads, Lookup(t) PROVE MarkedHasExited'
  BY <1>2 DEF Lookup, Goto, tables, procs, locals
<1>3. ASSUME NEW t \in Threads, CheckRunning(t) PROVE MarkedHasExited'
  BY <1>3 DEF CheckRunning, Goto, Return, tables, procs, locals
<1>4. ASSUME NEW t \in Threads, Acquire(t) PROVE MarkedHasExited'
  BY <1>4 DEF Acquire, Goto, tables, procs, locals
<1>5. ASSUME NEW t \in Threads, KillHolders(t) PROVE MarkedHasExited'
  BY <1>5 DEF KillHolders, Killed, Goto, tables, locals
<1>6. ASSUME NEW t \in Threads, SaveConfig(t) PROVE MarkedHasExited'
  BY <1>6 DEF SaveConfig, Goto, procs
<1>7. ASSUME NEW t \in Threads, NEW p \in Procs, Spawn(t, p) PROVE MarkedHasExited'
  BY <1>7 DEF Spawn, Fresh, Goto, tables
<1>8. ASSUME NEW t \in Threads, SpawnFails(t) PROVE MarkedHasExited'
  BY <1>8 DEF SpawnFails, Goto, tables, procs, locals
<1>9. ASSUME NEW t \in Threads, ReturnError(t) PROVE MarkedHasExited'
  BY <1>9 DEF ReturnError, Return, Goto, tables, procs
<1>10. ASSUME NEW t \in Threads, Register(t) PROVE MarkedHasExited'
  BY <1>10 DEF Register, procs, LaunchesDisjoint
<1>11. ASSUME NEW p \in Procs, MarkExited(p) PROVE MarkedHasExited'
  BY <1>11 DEF MarkExited, Goto, procs
<1>12. ASSUME NEW p \in Procs, ReleaseToken(p) PROVE MarkedHasExited'
  BY <1>12 DEF ReleaseToken, Return, Goto, tables, locals
<1>13. ASSUME NEW p \in Procs, DecideRestart(p) PROVE MarkedHasExited'
  BY <1>13 DEF DecideRestart, Return, Goto, locals
<1>14. ASSUME NEW p \in Procs, Wake(p) PROVE MarkedHasExited'
  BY <1>14 DEF Wake, Goto, tables, procs
<1>15. ASSUME NEW r \in Requests, NEW d \in Devices, StopRequest(r, d) PROVE MarkedHasExited'
  BY <1>15 DEF StopRequest, RemoveEntry, Goto, procs
<1>16. ASSUME NEW r \in Requests, NEW d \in Devices, NEW c \in Configs, ConfigRequest(r, d, c) PROVE MarkedHasExited'
  BY <1>16 DEF ConfigRequest, RemoveEntry, Goto, procs
<1>17. ASSUME NEW r \in Requests, Cancel(r) PROVE MarkedHasExited'
  BY <1>17 DEF Cancel, Killed, Return, Goto, tables
<1>18. ASSUME NEW r \in Requests, SetConfig(r) PROVE MarkedHasExited'
  BY <1>18 DEF SetConfig, Goto, procs, locals
<1>19. ASSUME NEW late \in SUBSET Devices, NEW reaped \in SUBSET Devices, HealthCheck(late, reaped) PROVE MarkedHasExited'
  BY <1>19 DEF HealthCheck, Killed, locals
<1>20. ASSUME NEW p \in Procs, ProcExits(p) PROVE MarkedHasExited'
  BY <1>20 DEF ProcExits, tables, locals
<1>21. ASSUME NEW p \in Procs, ProcHangs(p) PROVE MarkedHasExited'
  BY <1>21 DEF ProcHangs, tables, locals
<1>22. ASSUME NEW p \in Procs, PullExits(p) PROVE MarkedHasExited'
  BY <1>22 DEF PullExits, tables, locals
<1>23. ASSUME NEW d \in Devices, DeleteDevice(d) PROVE MarkedHasExited'
  BY <1>23 DEF DeleteDevice, tables, procs, locals
<1>24. ASSUME UNCHANGED vars PROVE MarkedHasExited'
  BY <1>24 DEF vars, tables, procs, locals
<1> QED
  BY <1>1, <1>2, <1>3, <1>4, <1>5, <1>6, <1>7, <1>8, <1>9, <1>10, <1>11, <1>12, <1>13, <1>14,
     <1>15, <1>16, <1>17, <1>18, <1>19, <1>20, <1>21, <1>22, <1>23, <1>24
  DEF Next, StartStep, HandlerStep, RequestStep, HealthTick

\* A process is started in the hands of a launch, handed to its exit handler, and
\* that handler leaves "wait" only after the process has exited.
LEMMA LiveStep ==
  ASSUME TypeOK, LaunchesDisjoint, LiveIsAttended, [Next]_vars
  PROVE  LiveIsAttended'
<1> USE DEF TypeOK, LiveIsAttended, Attended, Live
<1>1. ASSUME NEW r \in Requests, NEW d \in Devices, NEW c \in Configs, StartRequest(r, d, c) PROVE LiveIsAttended'
  BY <1>1 DEF StartRequest, Goto, tables, procs
<1>2. ASSUME NEW t \in Threads, Lookup(t) PROVE LiveIsAttended'
  BY <1>2 DEF Lookup, Goto, tables, procs, locals
<1>3. ASSUME NEW t \in Threads, CheckRunning(t) PROVE LiveIsAttended'
  BY <1>3 DEF CheckRunning, Goto, Return, tables, procs, locals
<1>4. ASSUME NEW t \in Threads, Acquire(t) PROVE LiveIsAttended'
  BY <1>4 DEF Acquire, Goto, tables, procs, locals
<1>5. ASSUME NEW t \in Threads, KillHolders(t) PROVE LiveIsAttended'
  BY <1>5 DEF KillHolders, Killed, Goto, tables, locals
<1>6. ASSUME NEW t \in Threads, SaveConfig(t) PROVE LiveIsAttended'
  BY <1>6 DEF SaveConfig, Goto, procs
<1>7. ASSUME NEW t \in Threads, NEW p \in Procs, Spawn(t, p) PROVE LiveIsAttended'
  BY <1>7 DEF Spawn, Fresh, Goto, tables
<1>8. ASSUME NEW t \in Threads, SpawnFails(t) PROVE LiveIsAttended'
  BY <1>8 DEF SpawnFails, Goto, tables, procs, locals
<1>9. ASSUME NEW t \in Threads, ReturnError(t) PROVE LiveIsAttended'
  BY <1>9 DEF ReturnError, Return, Goto, tables, procs
<1>10. ASSUME NEW t \in Threads, Register(t) PROVE LiveIsAttended'
  BY <1>10 DEF Register, procs, LaunchesDisjoint
<1>11. ASSUME NEW p \in Procs, MarkExited(p) PROVE LiveIsAttended'
  BY <1>11 DEF MarkExited, Goto, procs
<1>12. ASSUME NEW p \in Procs, ReleaseToken(p) PROVE LiveIsAttended'
  BY <1>12 DEF ReleaseToken, Return, Goto, tables, locals
<1>13. ASSUME NEW p \in Procs, DecideRestart(p) PROVE LiveIsAttended'
  BY <1>13 DEF DecideRestart, Return, Goto, locals
<1>14. ASSUME NEW p \in Procs, Wake(p) PROVE LiveIsAttended'
  BY <1>14 DEF Wake, Goto, tables, procs
<1>15. ASSUME NEW r \in Requests, NEW d \in Devices, StopRequest(r, d) PROVE LiveIsAttended'
  BY <1>15 DEF StopRequest, RemoveEntry, Goto, procs
<1>16. ASSUME NEW r \in Requests, NEW d \in Devices, NEW c \in Configs, ConfigRequest(r, d, c) PROVE LiveIsAttended'
  BY <1>16 DEF ConfigRequest, RemoveEntry, Goto, procs
<1>17. ASSUME NEW r \in Requests, Cancel(r) PROVE LiveIsAttended'
  BY <1>17 DEF Cancel, Killed, Return, Goto, tables
<1>18. ASSUME NEW r \in Requests, SetConfig(r) PROVE LiveIsAttended'
  BY <1>18 DEF SetConfig, Goto, procs, locals
<1>19. ASSUME NEW late \in SUBSET Devices, NEW reaped \in SUBSET Devices, HealthCheck(late, reaped) PROVE LiveIsAttended'
  BY <1>19 DEF HealthCheck, Killed, locals
<1>20. ASSUME NEW p \in Procs, ProcExits(p) PROVE LiveIsAttended'
  BY <1>20 DEF ProcExits, tables, locals
<1>21. ASSUME NEW p \in Procs, ProcHangs(p) PROVE LiveIsAttended'
  BY <1>21 DEF ProcHangs, tables, locals
<1>22. ASSUME NEW p \in Procs, PullExits(p) PROVE LiveIsAttended'
  BY <1>22 DEF PullExits, tables, locals
<1>23. ASSUME NEW d \in Devices, DeleteDevice(d) PROVE LiveIsAttended'
  BY <1>23 DEF DeleteDevice, tables, procs, locals
<1>24. ASSUME UNCHANGED vars PROVE LiveIsAttended'
  BY <1>24 DEF vars, tables, procs, locals
<1> QED
  BY <1>1, <1>2, <1>3, <1>4, <1>5, <1>6, <1>7, <1>8, <1>9, <1>10, <1>11, <1>12, <1>13, <1>14,
     <1>15, <1>16, <1>17, <1>18, <1>19, <1>20, <1>21, <1>22, <1>23, <1>24
  DEF Next, StartStep, HandlerStep, RequestStep, HealthTick

\* What a step does to the owners of the semaphore and to its count.
TokenStep ==
  \/ TokenOwners' = TokenOwners /\ sem' = sem
  \/ \E t \in Threads \ TokenOwners :
       sem < MaxConcurrent /\ TokenOwners' = TokenOwners \cup {t} /\ sem' = sem + 1
  \/ \E t \in TokenOwners, p \in Threads \ TokenOwners :
       TokenOwners' = (TokenOwners \ {t}) \cup {p} /\ sem' = sem
  \/ \E t \in TokenOwners : TokenOwners' = TokenOwners \ {t} /\ sem' = sem - 1

\* What a step does to the set of token owners and to sem: nothing, one owner more
\* and one token more, one fewer of both, or one owner in the place of another.
LEMMA OwnersStep ==
  ASSUME TypeOK, LaunchesDisjoint, [Next]_vars
  PROVE  TokenStep
<1> USE DEF TypeOK, TokenOwners
<1>1. ASSUME NEW r \in Requests, NEW d \in Devices, NEW c \in Configs, StartRequest(r, d, c) PROVE TokenStep
  <2>1. TokenOwners' = TokenOwners /\ sem' = sem
    BY <1>1 DEF StartRequest, Goto, tables, procs
  <2> QED BY <2>1 DEF TokenStep
<1>2. ASSUME NEW t \in Threads, Lookup(t) PROVE TokenStep
  <2>1. TokenOwners' = TokenOwners /\ sem' = sem
    BY <1>2 DEF Lookup, Goto, tables, procs, locals
  <2> QED BY <2>1 DEF TokenStep
<1>3. ASSUME NEW t \in Threads, CheckRunning(t) PROVE TokenStep
  <2>1. TokenOwners' = TokenOwners /\ sem' = sem
    BY <1>3 DEF CheckRunning, Goto, Return, tables, procs, locals
  <2> QED BY <2>1 DEF TokenStep
<1>4. ASSUME NEW t \in Threads, Acquire(t) PROVE TokenStep
  <2>1. t \in Threads \ TokenOwners /\ sem < MaxConcurrent /\ TokenOwners' = TokenOwners \cup {t} /\ sem' = sem + 1
    BY <1>4 DEF Acquire, Goto, tables, procs, locals
  <2> QED BY <2>1 DEF TokenStep
<1>5. ASSUME NEW t \in Threads, KillHolders(t) PROVE TokenStep
  <2>1. TokenOwners' = TokenOwners /\ sem' = sem
    BY <1>5 DEF KillHolders, Goto, tables, locals
  <2> QED BY <2>1 DEF TokenStep
<1>6. ASSUME NEW t \in Threads, SaveConfig(t) PROVE TokenStep
  <2>1. TokenOwners' = TokenOwners /\ sem' = sem
    BY <1>6 DEF SaveConfig, Goto, procs
  <2> QED BY <2>1 DEF TokenStep
<1>7. ASSUME NEW t \in Threads, NEW p \in Procs, Spawn(t, p) PROVE TokenStep
  <2>1. TokenOwners' = TokenOwners /\ sem' = sem
    BY <1>7 DEF Spawn, Goto, tables
  <2> QED BY <2>1 DEF TokenStep
<1>8. ASSUME NEW t \in Threads, SpawnFails(t) PROVE TokenStep
  <2>1. t \in TokenOwners /\ TokenOwners' = TokenOwners \ {t} /\ sem' = sem - 1
    BY <1>8 DEF SpawnFails, Goto, tables, procs, locals
  <2> QED BY <2>1 DEF TokenStep
<1>9. ASSUME NEW t \in Threads, ReturnError(t) PROVE TokenStep
  <2>1. TokenOwners' = TokenOwners /\ sem' = sem
    BY <1>9 DEF ReturnError, Return, Goto, tables, procs
  <2> QED BY <2>1 DEF TokenStep
<1>10. ASSUME NEW t \in Threads, Register(t) PROVE TokenStep
  <2>1. hold[t] \in Threads \ TokenOwners /\ t \in TokenOwners
    BY <1>10 DEF Register, LaunchesDisjoint
  <2>2. TokenOwners' = (TokenOwners \ {t}) \cup {hold[t]} /\ sem' = sem
    BY <1>10, <2>1 DEF Register
  <2> QED BY <2>1, <2>2 DEF TokenStep
<1>11. ASSUME NEW p \in Procs, MarkExited(p) PROVE TokenStep
  <2>1. TokenOwners' = TokenOwners /\ sem' = sem
    BY <1>11 DEF MarkExited, Goto, procs
  <2> QED BY <2>1 DEF TokenStep
<1>12. ASSUME NEW p \in Procs, ReleaseToken(p) PROVE TokenStep
  <2>1. p \in TokenOwners /\ TokenOwners' = TokenOwners \ {p} /\ sem' = sem - 1
    BY <1>12 DEF ReleaseToken, Return, Goto, tables, locals
  <2> QED BY <2>1 DEF TokenStep
<1>13. ASSUME NEW p \in Procs, DecideRestart(p) PROVE TokenStep
  <2>1. TokenOwners' = TokenOwners /\ sem' = sem
    BY <1>13 DEF DecideRestart, Return, Goto, locals
  <2> QED BY <2>1 DEF TokenStep
<1>14. ASSUME NEW p \in Procs, Wake(p) PROVE TokenStep
  <2>1. TokenOwners' = TokenOwners /\ sem' = sem
    BY <1>14 DEF Wake, Goto, tables, procs
  <2> QED BY <2>1 DEF TokenStep
<1>15. ASSUME NEW r \in Requests, NEW d \in Devices, StopRequest(r, d) PROVE TokenStep
  <2>1. TokenOwners' = TokenOwners /\ sem' = sem
    BY <1>15 DEF StopRequest, RemoveEntry, Goto, procs
  <2> QED BY <2>1 DEF TokenStep
<1>16. ASSUME NEW r \in Requests, NEW d \in Devices, NEW c \in Configs, ConfigRequest(r, d, c) PROVE TokenStep
  <2>1. TokenOwners' = TokenOwners /\ sem' = sem
    BY <1>16 DEF ConfigRequest, RemoveEntry, Goto, procs
  <2> QED BY <2>1 DEF TokenStep
<1>17. ASSUME NEW r \in Requests, Cancel(r) PROVE TokenStep
  <2>1. TokenOwners' = TokenOwners /\ sem' = sem
    BY <1>17 DEF Cancel, Return, Goto, tables
  <2> QED BY <2>1 DEF TokenStep
<1>18. ASSUME NEW r \in Requests, SetConfig(r) PROVE TokenStep
  <2>1. TokenOwners' = TokenOwners /\ sem' = sem
    BY <1>18 DEF SetConfig, Goto, procs, locals
  <2> QED BY <2>1 DEF TokenStep
<1>19. ASSUME NEW late \in SUBSET Devices, NEW reaped \in SUBSET Devices, HealthCheck(late, reaped) PROVE TokenStep
  <2>1. TokenOwners' = TokenOwners /\ sem' = sem
    BY <1>19 DEF HealthCheck, locals
  <2> QED BY <2>1 DEF TokenStep
<1>20. ASSUME NEW p \in Procs, ProcExits(p) PROVE TokenStep
  <2>1. TokenOwners' = TokenOwners /\ sem' = sem
    BY <1>20 DEF ProcExits, tables, locals
  <2> QED BY <2>1 DEF TokenStep
<1>21. ASSUME NEW p \in Procs, ProcHangs(p) PROVE TokenStep
  <2>1. TokenOwners' = TokenOwners /\ sem' = sem
    BY <1>21 DEF ProcHangs, tables, locals
  <2> QED BY <2>1 DEF TokenStep
<1>22. ASSUME NEW p \in Procs, PullExits(p) PROVE TokenStep
  <2>1. TokenOwners' = TokenOwners /\ sem' = sem
    BY <1>22 DEF PullExits, tables, locals
  <2> QED BY <2>1 DEF TokenStep
<1>23. ASSUME NEW d \in Devices, DeleteDevice(d) PROVE TokenStep
  <2>1. TokenOwners' = TokenOwners /\ sem' = sem
    BY <1>23 DEF DeleteDevice, tables, procs, locals
  <2> QED BY <2>1 DEF TokenStep
<1>24. ASSUME UNCHANGED vars PROVE TokenStep
  <2>1. TokenOwners' = TokenOwners /\ sem' = sem
    BY <1>24 DEF vars, tables, procs, locals
  <2> QED BY <2>1 DEF TokenStep
<1> QED
  BY <1>1, <1>2, <1>3, <1>4, <1>5, <1>6, <1>7, <1>8, <1>9, <1>10, <1>11, <1>12, <1>13, <1>14,
     <1>15, <1>16, <1>17, <1>18, <1>19, <1>20, <1>21, <1>22, <1>23, <1>24
  DEF Next, StartStep, HandlerStep, RequestStep, HealthTick

\* The cardinality of the owners follows the four cases of OwnersStep.
LEMMA AccountingStep ==
  ASSUME TypeOK, LaunchesDisjoint, TokenAccounting, [Next]_vars
  PROVE  TokenAccounting'
<1>1. IsFiniteSet(TokenOwners)
  BY FiniteAssumption, FS_Subset, FS_Union DEF TokenOwners
<1>2. TokenStep
  BY OwnersStep
<1>3. ASSUME NEW t \in Threads \ TokenOwners, TokenOwners' = TokenOwners \cup {t}, sem' = sem + 1
      PROVE  TokenAccounting'
  BY <1>1, <1>3, FS_AddElement DEF TokenAccounting
<1>4. ASSUME NEW t \in TokenOwners, NEW p \in Threads \ TokenOwners,
             TokenOwners' = (TokenOwners \ {t}) \cup {p}, sem' = sem
      PROVE  TokenAccounting'
  <2>1. /\ IsFiniteSet(TokenOwners \ {t})
        /\ Cardinality(TokenOwners \ {t}) = Cardinality(TokenOwners) - 1
    BY <1>1, FS_RemoveElement
  <2>2. Cardinality((TokenOwners \ {t}) \cup {p}) = Cardinality(TokenOwners \ {t}) + 1
    BY <2>1, FS_AddElement
  <2>3. Cardinality(TokenOwners) \in Nat
    BY <1>1, FS_CardinalityType
  <2> QED BY <1>4, <2>1, <2>2, <2>3 DEF TokenAccounting
<1>5. ASSUME NEW t \in TokenOwners, TokenOwners' = TokenOwners \ {t}, sem' = sem - 1
      PROVE  TokenAccounting'
  BY <1>1, <1>5, FS_RemoveElement DEF TokenAccounting
<1> QED
  BY <1>2, <1>3, <1>4, <1>5 DEF TokenStep, TokenAccounting

\* The invariant holds in every reachable state.
THEOREM Invariance == Spec => []IInv
<1>1. Init => IInv
  <2>1. Init => TokenOwners = {} /\ sem = 0
    BY DEF Init, TokenOwners
  <2>2. Init => TokenAccounting
    BY <2>1, FS_EmptySet DEF TokenAccounting
  <2> QED BY <2>2, InitIInv DEF IInv
<1>2. IInv /\ [Next]_vars => IInv'
  BY TypeStep, BusyStep, LaunchesStep, RunningStep, MarkedStep, LiveStep, AccountingStep DEF IInv
<1> QED BY <1>1, <1>2, PTL DEF Spec

\* The type invariant.
THEOREM TypeCorrect == Spec => []TypeOK
BY Invariance, PTL DEF IInv

\* The semaphore's length is always the number of threads that own a token: no
\* path of start, failure, exit and restart loses one or returns one twice.
THEOREM TokensAccounted == Spec => []TokenAccounting
BY Invariance, PTL DEF IInv

\* An entry marked Running has the exit handler that will clear the mark.
THEOREM RunningWatched == Spec => []RunningIsWatched
BY Invariance, PTL DEF IInv

\* No ffmpeg runs without a goroutine that will wait for it, whatever the number of
\* devices and the orphan kills among them.
THEOREM LiveAttended == Spec => []LiveIsAttended
BY Invariance, PTL DEF IInv

\* The four places of a slot, as ImplementsPool reads them off the program.
Launchers == {t \in Threads : pc[t] \in {"kill", "config", "spawn"}}
LiveProcs == {p \in Procs : Live(p)}
DeadProcs == {p \in Procs : os[p] \in {"clean", "failed"}}
Places == <<MaxConcurrent - sem, Launchers, LiveProcs, DeadProcs>>

\* What a step may do to the slots: nothing, or one of the moves of SlotPool.
SlotStep ==
  \/ sem' = sem /\ Launchers' = Launchers /\ LiveProcs' \subseteq LiveProcs
       /\ DeadProcs' = DeadProcs \cup (LiveProcs \ LiveProcs')
  \/ \E t \in Threads \ Launchers :
       /\ sem < MaxConcurrent /\ sem' = sem + 1 /\ Launchers' = Launchers \cup {t}
       /\ LiveProcs' = LiveProcs /\ DeadProcs' = DeadProcs
  \/ \E t \in Launchers :
       /\ sem' = sem - 1 /\ Launchers' = Launchers \ {t}
       /\ LiveProcs' = LiveProcs /\ DeadProcs' = DeadProcs
  \/ \E t \in Launchers, p \in Procs \ (LiveProcs \cup DeadProcs) :
       /\ sem' = sem /\ Launchers' = Launchers \ {t}
       /\ LiveProcs' = LiveProcs \cup {p} /\ DeadProcs' = DeadProcs
  \/ \E p \in DeadProcs :
       /\ sem' = sem - 1 /\ DeadProcs' = DeadProcs \ {p}
       /\ Launchers' = Launchers /\ LiveProcs' = LiveProcs

\* A slot goes from the launch to its process, stays with the process when it ends
\* and is free only when the exit handler has collected it.
LEMMA SlotsStep ==
  ASSUME TypeOK, LaunchesDisjoint, MarkedHasExited, [Next]_vars
  PROVE  SlotStep
<1> USE DEF TypeOK, Launchers, LiveProcs, DeadProcs, Live
<1> DEFINE Quiet == sem' = sem /\ Launchers' = Launchers /\ LiveProcs' = LiveProcs /\ DeadProcs' = DeadProcs
           Ends == /\ sem' = sem /\ Launchers' = Launchers /\ LiveProcs' \subseteq LiveProcs
                   /\ DeadProcs' = DeadProcs \cup (LiveProcs \ LiveProcs')
<1>q. ASSUME Quiet PROVE SlotStep
  BY <1>q DEF SlotStep
<1>e. ASSUME Ends PROVE SlotStep
  BY <1>e DEF SlotStep
<1>1. ASSUME NEW r \in Requests, NEW d \in Devices, NEW c \in Configs, StartRequest(r, d, c) PROVE Quiet
  BY <1>1 DEF StartRequest, Goto, tables, procs
<1>2. ASSUME NEW t \in Threads, Lookup(t) PROVE Quiet
  BY <1>2 DEF Lookup, Goto, tables, procs, locals
<1>3. ASSUME NEW t \in Threads, CheckRunning(t) PROVE Quiet
  BY <1>3 DEF CheckRunning, Goto, Return, tables, procs, locals
<1>4. ASSUME NEW t \in Threads, Acquire(t) PROVE SlotStep
  <2>1. /\ t \in Threads \ Launchers /\ sem < MaxConcurrent /\ sem' = sem + 1
        /\ Launchers' = Launchers \cup {t} /\ LiveProcs' = LiveProcs /\ DeadProcs' = DeadProcs
    BY <1>4 DEF Acquire, Goto, tables, procs, locals
  <2> QED BY <2>1 DEF SlotStep
<1>5. ASSUME NEW t \in Threads, KillHolders(t) PROVE Ends
  <2>1. PICK ps \in SUBSET Procs : os' = Killed(ps)
    BY <1>5 DEF KillHolders, Holders
  <2>2. sem' = sem /\ Launchers' = Launchers
    BY <1>5 DEF KillHolders, Goto
  <2>3. LiveProcs' \subseteq LiveProcs /\ DeadProcs' = DeadProcs \cup (LiveProcs \ LiveProcs')
    BY <2>1 DEF Killed
  <2> QED BY <2>2, <2>3
<1>6. ASSUME NEW t \in Threads, SaveConfig(t) PROVE Quiet
  BY <1>6 DEF SaveConfig, Goto, procs
<1>7. ASSUME NEW t \in Threads, NEW p \in Procs, Spawn(t, p) PROVE SlotStep
  <2>1. t \in Launchers /\ p \in Procs \ (LiveProcs \cup DeadProcs)
    BY <1>7 DEF Spawn, Fresh
  <2>2. sem' = sem /\ Launchers' = Launchers \ {t}
    BY <1>7 DEF Spawn, Goto
  <2>3. LiveProcs' = LiveProcs \cup {p} /\ DeadProcs' = DeadProcs
    BY <1>7 DEF Spawn, Fresh
  <2> QED BY <2>1, <2>2, <2>3 DEF SlotStep
<1>8. ASSUME NEW t \in Threads, SpawnFails(t) PROVE SlotStep
  <2>1. /\ t \in Launchers /\ sem' = sem - 1 /\ Launchers' = Launchers \ {t}
        /\ LiveProcs' = LiveProcs /\ DeadProcs' = DeadProcs
    BY <1>8 DEF SpawnFails, Goto, tables, procs, locals
  <2> QED BY <2>1 DEF SlotStep
<1>9. ASSUME NEW t \in Threads, ReturnError(t) PROVE Quiet
  BY <1>9 DEF ReturnError, Return, Goto, tables, procs
<1>10. ASSUME NEW t \in Threads, Register(t) PROVE Quiet
  <2>1. hold[t] \in Procs
    BY <1>10 DEF Register, LaunchesDisjoint
  <2>2. Launchers' = Launchers
    BY <1>10, <2>1 DEF Register, LaunchesDisjoint
  <2> QED BY <1>10, <2>2 DEF Register, procs
<1>11. ASSUME NEW p \in Procs, MarkExited(p) PROVE Quiet
  BY <1>11 DEF MarkExited, Goto, procs
<1>12. ASSUME NEW p \in Procs, ReleaseToken(p) PROVE SlotStep
  <2>1. p \in DeadProcs /\ sem' = sem - 1
    BY <1>12 DEF ReleaseToken, MarkedHasExited
  <2>2. DeadProcs' = DeadProcs \ {p} /\ LiveProcs' = LiveProcs
    BY <1>12, <2>1 DEF ReleaseToken
  <2>3. Launchers' = Launchers
    BY <1>12 DEF ReleaseToken, Return, Goto
  <2> QED BY <2>1, <2>2, <2>3 DEF SlotStep
<1>13. ASSUME NEW p \in Procs, DecideRestart(p) PROVE Quiet
  BY <1>13 DEF DecideRestart, Return, Goto
<1>14. ASSUME NEW p \in Procs, Wake(p) PROVE Quiet
  BY <1>14 DEF Wake, Goto, tables, procs
<1>15. ASSUME NEW r \in Requests, NEW d \in Devices, StopRequest(r, d) PROVE Quiet
  BY <1>15 DEF StopRequest, RemoveEntry, Goto, procs
<1>16. ASSUME NEW r \in Requests, NEW d \in Devices, NEW c \in Configs, ConfigRequest(r, d, c) PROVE Quiet
  BY <1>16 DEF ConfigRequest, RemoveEntry, Goto, procs
<1>17. ASSUME NEW r \in Requests, Cancel(r) PROVE Ends
  <2>1. sem' = sem /\ Launchers' = Launchers
    BY <1>17 DEF Cancel, Return, Goto
  <2>2. LiveProcs' \subseteq LiveProcs /\ DeadProcs' = DeadProcs \cup (LiveProcs \ LiveProcs')
    BY <1>17 DEF Cancel, Killed
  <2> QED BY <2>1, <2>2
<1>18. ASSUME NEW r \in Requests, SetConfig(r) PROVE Quiet
  BY <1>18 DEF SetConfig, Goto, procs, locals
<1>19. ASSUME NEW late \in SUBSET Devices, NEW reaped \in SUBSET Devices, HealthCheck(late, reaped) PROVE Ends
  <2>1. sem' = sem /\ Launchers' = Launchers
    BY <1>19 DEF HealthCheck
  <2>2. PICK ps : os' = Killed(ps)
    BY <1>19 DEF HealthCheck
  <2>3. LiveProcs' \subseteq LiveProcs /\ DeadProcs' = DeadProcs \cup (LiveProcs \ LiveProcs')
    BY <2>2 DEF Killed
  <2> QED BY <2>1, <2>3
<1>20. ASSUME NEW p \in Procs, ProcExits(p) PROVE Ends
  BY <1>20 DEF ProcExits, tables, locals
<1>21. ASSUME NEW p \in Procs, ProcHangs(p) PROVE Quiet
  BY <1>21 DEF ProcHangs, tables, locals
<1>22. ASSUME NEW p \in Procs, PullExits(p) PROVE Quiet
  BY <1>22 DEF PullExits, tables, locals
<1>23. ASSUME NEW d \in Devices, DeleteDevice(d) PROVE Quiet
  BY <1>23 DEF DeleteDevice, tables, procs, locals
<1>24. ASSUME UNCHANGED vars PROVE Quiet
  BY <1>24 DEF vars, tables, procs, locals
<1> HIDE DEF Quiet, Ends
<1> QED
  BY <1>q, <1>e, <1>1, <1>2, <1>3, <1>4, <1>5, <1>6, <1>7, <1>8, <1>9, <1>10, <1>11, <1>12, <1>13,
     <1>14, <1>15, <1>16, <1>17, <1>18, <1>19, <1>20, <1>21, <1>22, <1>23, <1>24
  DEF Next, StartStep, HandlerStep, RequestStep, HealthTick

\* The semaphore channel and the processes implement the pool of slots: no slot is
\* lost, made up or given back before its ffmpeg is dead and collected.
THEOREM Refinement == Spec => ImplementsPool
<1> USE DEF Places, Launchers, LiveProcs, DeadProcs
<1>1. Init => Pool!PoolInit
  BY ConstantsAssumption DEF Init, Live, Pool!PoolInit
<1>2. IInv /\ [Next]_vars => [Pool!PoolNext]_Places
  <2> SUFFICES ASSUME IInv, [Next]_vars PROVE [Pool!PoolNext]_Places
    OBVIOUS
  <2>1. SlotStep
    BY SlotsStep DEF IInv
  <2>2. sem \in 0..MaxConcurrent
    BY DEF IInv, TypeOK
  <2>3. Launchers \subseteq Threads /\ DeadProcs \subseteq Procs
    OBVIOUS
  <2>4. ASSUME sem' = sem, Launchers' = Launchers, LiveProcs' \subseteq LiveProcs,
               DeadProcs' = DeadProcs \cup (LiveProcs \ LiveProcs')
        PROVE  Pool!PoolNext
    <3>1. Pool!End
      BY <2>4 DEF Pool!End
    <3> QED BY <3>1 DEF Pool!PoolNext
  <2>5. ASSUME NEW t \in Threads \ Launchers, sem < MaxConcurrent, sem' = sem + 1,
               Launchers' = Launchers \cup {t}, LiveProcs' = LiveProcs, DeadProcs' = DeadProcs
        PROVE  Pool!PoolNext
    <3>1. Pool!Take(t)
      BY <2>2, <2>5, ConstantsAssumption DEF Pool!Take
    <3> QED BY <3>1 DEF Pool!PoolNext
  <2>6. ASSUME NEW t \in Launchers, sem' = sem - 1, Launchers' = Launchers \ {t},
               LiveProcs' = LiveProcs, DeadProcs' = DeadProcs
        PROVE  Pool!PoolNext
    <3>1. Pool!Fail(t)
      BY <2>2, <2>6, ConstantsAssumption DEF Pool!Fail
    <3> QED BY <2>3, <3>1 DEF Pool!PoolNext
  <2>7. ASSUME NEW t \in Launchers, NEW p \in Procs \ (LiveProcs \cup DeadProcs), sem' = sem,
               Launchers' = Launchers \ {t}, LiveProcs' = LiveProcs \cup {p}, DeadProcs' = DeadProcs
        PROVE  Pool!PoolNext
    <3>1. Pool!Launch(t, p)
      BY <2>7 DEF Pool!Launch
    <3> QED BY <2>3, <3>1 DEF Pool!PoolNext
  <2>8. ASSUME NEW p \in DeadProcs, sem' = sem - 1, DeadProcs' = DeadProcs \ {p},
               Launchers' = Launchers, LiveProcs' = LiveProcs
        PROVE  Pool!PoolNext
    <3>1. Pool!Collect(p)
      BY <2>2, <2>8, ConstantsAssumption DEF Pool!Collect
    <3> QED BY <2>3, <3>1 DEF Pool!PoolNext
  <2> QED
    BY <2>1, <2>4, <2>5, <2>6, <2>7, <2>8 DEF SlotStep
<1> QED
  BY <1>1, <1>2, Invariance, PTL DEF Spec, ImplementsPool, Pool!PoolSpec, Pool!slots

\* The goroutine that attends a live process: its exit handler, or the thread
\* about to register it.
Attendant(p) == IF pc[p] = "wait" THEN p
                ELSE CHOOSE t \in Threads : pc[t] = "register" /\ hold[t] = p

\* No interleaving of starts, restarts, failures, stops and health checks has
\* more than maxConcurrentFFmpeg live ffmpeg processes.
THEOREM LiveBounded == Spec => []LiveWithinLimit
<1>1. IInv => LiveWithinLimit
  <2> SUFFICES ASSUME IInv PROVE LiveWithinLimit
    OBVIOUS
  <2> DEFINE L == {p \in Procs : Live(p)}
             f == [p \in L |-> Attendant(p)]
  <2>1. IsFiniteSet(TokenOwners)
    BY FiniteAssumption, FS_Subset, FS_Union DEF TokenOwners
  <2>2. ASSUME NEW p \in L
        PROVE  /\ Attendant(p) \in TokenOwners
               /\ Attendant(p) = p \/ (pc[Attendant(p)] = "register" /\ hold[Attendant(p)] = p)
               /\ Attendant(p) = p => pc[p] = "wait"
    <3>1. CASE pc[p] = "wait"
      BY <3>1 DEF Attendant, TokenOwners
    <3>2. CASE pc[p] # "wait"
      <4>1. \E t \in Threads : pc[t] = "register" /\ hold[t] = p
        BY <3>2 DEF IInv, LiveIsAttended, Attended
      <4>2. /\ Attendant(p) \in Threads
            /\ pc[Attendant(p)] = "register" /\ hold[Attendant(p)] = p
        BY <3>2, <4>1 DEF Attendant
      <4>3. Attendant(p) # p
        BY <4>2 DEF IInv, LaunchesDisjoint
      <4> QED BY <4>2, <4>3 DEF TokenOwners
    <3> QED BY <3>1, <3>2
  <2>3. ASSUME NEW p \in L, NEW q \in L, Attendant(p) = Attendant(q) PROVE p = q
    BY <2>2, <2>3
  <2>4. f \in Injection(L, TokenOwners)
    BY <2>2, <2>3 DEF Injection, IsInjective
  <2>5. Cardinality(L) <= Cardinality(TokenOwners)
    BY <2>1, <2>4, FS_Injection DEF ExistsInjection
  <2>6. IsFiniteSet(L) /\ Cardinality(L) \in Nat
    BY <2>1, <2>4, FS_Injection, FS_CardinalityType
  <2>7. Cardinality(TokenOwners) \in 0..MaxConcurrent
    BY DEF IInv, TypeOK, TokenAccounting
  <2>8. Cardinality(L) <= MaxConcurrent
    BY <2>5, <2>6, <2>7, ConstantsAssumption
  <2> QED
    BY <2>8 DEF LiveWithinLimit
<1> QED BY <1>1, Invariance, PTL
==============================================================================
