---------------------------- MODULE FFmpegManager ----------------------------
(***************************************************************************)
(* The live-proxy half of the gateway's FFmpegManager: one ffmpeg process   *)
(* per device, pushed to MediaMTX, restarted by the goroutine that waits    *)
(* for it, and limited by the semaphore channel sem.                        *)
(*                                                                          *)
(* A thread is an HTTP handler goroutine (Requests) or the exit-handler     *)
(* goroutine of a launched process (that process names it: Procs).  pc is   *)
(* the point a thread has reached; one action is what runs between two      *)
(* points where another goroutine can interleave (a mutex section, a        *)
(* channel operation, an exec call).                                        *)
(***************************************************************************)
EXTENDS Integers, FiniteSets

CONSTANTS
  Devices,        \* device ids
  Procs,          \* FFmpegProc objects, each with its ffmpeg and its goroutine
  Requests,       \* goroutines serving proxy requests (bound on their number)
  Configs,        \* ProxyConfig values
  AutoConfig,     \* the configuration detectResolution answers
  Protocol,       \* Protocol[d]: "rtsp", "usb", "http" or "wapa"
  Input,          \* Input[d]: the URL or device file ffmpeg reads
  MaxConcurrent,  \* maxConcurrentFFmpeg, the capacity of sem
  HealthLimit,    \* failed checks before a stuck ffmpeg is killed (5)
  Deletable,      \* devices an operator may delete (bound on deletions)
  Reserve,        \* process slots kept back for restarts (bound on requests)
  RetryCap,       \* retry count from which the backoff is backoffMax (5)
  None            \* absent map entry, nil

ASSUME ConstantsAssumption ==
  /\ MaxConcurrent \in Nat \ {0}
  /\ HealthLimit \in Nat \ {0}
  /\ RetryCap \in Nat
  /\ Reserve \in Nat
  /\ AutoConfig \in Configs
  /\ None \notin Devices \cup Procs \cup Requests \cup Configs
  /\ Procs \cap Requests = {}

ASSUME FiniteAssumption == IsFiniteSet(Procs) /\ IsFiniteSet(Requests)

Threads == Requests \cup Procs

\* Points of StartLiveProxyWithConfig at which its thread holds a token of sem.
Launching == {"kill", "config", "spawn", "register"}
\* All points of StartLiveProxyWithConfig.
Starting == {"lookup", "check", "acquire"} \cup Launching
\* Points of the exit handler at which the token is still held.
Watching == {"wait", "marked"}
Points == {"idle", "startErr", "cancel", "cfgCancel", "setCfg", "decide", "sleep"}
            \cup Starting \cup Watching

VARIABLES
  registered,  \* ids with a row in the devices table
  proxies,     \* m.proxies: device -> process, or None
  running,     \* proc.Running
  retries,     \* m.retries, counted up to RetryCap
  cfgs,        \* m.proxyCfgs
  fails,       \* m.healthFails
  sem,         \* len(m.sem)
  os,          \* the ffmpeg process: "none", "alive", "stuck" or how it exited
  pull,        \* is the wapa-pull helper of the process alive
  pc,          \* where each thread is
  dev,         \* the device a thread works for
  cfg,         \* its local cfg
  hold,        \* the FFmpegProc it has launched or is about to cancel
  seen         \* the retry count the exit handler has read, until it has used it

tables == <<proxies, running, retries, cfgs, fails>>
procs  == <<os, pull>>
locals == <<dev, cfg, hold, seen>>
vars   == <<registered, tables, sem, procs, pc, locals>>

------------------------------------------------------------------------------
Live(p) == os[p] \in {"alive", "stuck"}

IsRunning(d) == proxies[d] # None /\ running[proxies[d]]

\* A process slot that no map entry, goroutine or operating system process uses.
Fresh(p) == /\ pc[p] = "idle" /\ os[p] = "none" /\ ~pull[p]
            /\ \A d \in Devices : proxies[d] # p
            /\ \A t \in Threads : hold[t] # p

\* Bound of the model: a request may start a proxy only while a process slot is
\* left for it beside the Reserve.  With a Reserve of 1 no restart waits for a slot.
SlotLeft == Cardinality({r \in Requests : pc[r] \in Starting \cup {"cfgCancel", "setCfg"}})
              + Reserve < Cardinality({p \in Procs : Fresh(p)})

\* Processes that fuser -k, or ps | grep on the input URL, finds for device d.
Holders(d) == IF Protocol[d] \in {"usb", "http"}
                THEN {p \in Procs : Live(p) /\ Input[dev[p]] = Input[d]}
                ELSE {}

Goto(t, l) == pc' = [pc EXCEPT ![t] = l]

\* The thread t returns; what a finished goroutine had in its locals is gone.
Return(t) == /\ Goto(t, "idle")
             /\ dev' = [dev EXCEPT ![t] = None]
             /\ cfg' = [cfg EXCEPT ![t] = None]
             /\ hold' = [hold EXCEPT ![t] = None]
             /\ seen' = [seen EXCEPT ![t] = 0]

Killed(ps) == [p \in Procs |-> IF p \in ps /\ Live(p) THEN "failed" ELSE os[p]]

Init ==
  /\ registered = Devices
  /\ proxies = [d \in Devices |-> None]
  /\ running = [p \in Procs |-> FALSE]
  /\ retries = [d \in Devices |-> 0]
  /\ cfgs = [d \in Devices |-> None]
  /\ fails = [d \in Devices |-> 0]
  /\ sem = 0
  /\ os = [p \in Procs |-> "none"]
  /\ pull = [p \in Procs |-> FALSE]
  /\ pc = [t \in Threads |-> "idle"]
  /\ dev = [t \in Threads |-> None]
  /\ cfg = [t \in Threads |-> None]
  /\ hold = [t \in Threads |-> None]
  /\ seen = [t \in Threads |-> 0]

------------------------------------------------------------------------------
\* StartLiveProxyWithConfig, run by any thread.

\* POST /api/proxy/start/{id}, and the auto-start of an imported device.
StartRequest(r, d, c) ==
  /\ pc[r] = "idle" /\ d \in registered /\ SlotLeft
  /\ Goto(r, "lookup")
  /\ dev' = [dev EXCEPT ![r] = d]
  /\ cfg' = [cfg EXCEPT ![r] = c]
  /\ UNCHANGED <<registered, tables, sem, procs, hold, seen>>

\* store.GetDevice, which copies the row: nothing re-reads it later.
Lookup(t) ==
  /\ pc[t] = "lookup"
  /\ Goto(t, IF dev[t] \in registered THEN "check" ELSE "startErr")
  /\ UNCHANGED <<registered, tables, sem, procs, locals>>

\* The mutex section that looks for a running proxy.
CheckRunning(t) ==
  /\ pc[t] = "check"
  /\ \/ IsRunning(dev[t]) /\ Return(t)
     \/ ~IsRunning(dev[t]) /\ Goto(t, "acquire") /\ UNCHANGED locals
  /\ UNCHANGED <<registered, tables, sem, procs>>

\* Mutant: the semaphore does not block.
Acquire_Unbounded(t) ==
  /\ pc[t] = "acquire"
  /\ sem' = sem + 1
  /\ Goto(t, "kill")
  /\ UNCHANGED <<registered, tables, procs, locals>>

\* m.sem <- struct{}{}: blocks while the channel is full.
Acquire(t) ==
  /\ pc[t] = "acquire" /\ sem < MaxConcurrent
  /\ sem' = sem + 1
  /\ Goto(t, "kill")
  /\ UNCHANGED <<registered, tables, procs, locals>>

\* Kill whatever else reads a USB or HTTP input; the command may time out.
KillHolders(t) ==
  /\ pc[t] = "kill"
  /\ \E ps \in {{}, Holders(dev[t])} : os' = Killed(ps)
  /\ Goto(t, "config")
  /\ UNCHANGED <<registered, tables, sem, pull, locals>>

\* A stored configuration wins over the one this call was given.
SaveConfig(t) ==
  LET c == IF cfgs[dev[t]] # None THEN cfgs[dev[t]] ELSE cfg[t] IN
  /\ pc[t] = "config"
  /\ cfg' = [cfg EXCEPT ![t] = c]
  /\ cfgs' = [cfgs EXCEPT ![dev[t]] = c]
  /\ Goto(t, "spawn")
  /\ UNCHANGED <<registered, proxies, running, retries, fails, sem, procs, dev, hold, seen>>

\* wapa-pull (for a WAPA camera) and ffmpeg are started.
Spawn(t, p) ==
  /\ pc[t] = "spawn" /\ Fresh(p)
  /\ os' = [os EXCEPT ![p] = "alive"]
  /\ pull' = [pull EXCEPT ![p] = Protocol[dev[t]] = "wapa"]
  /\ hold' = [hold EXCEPT ![t] = p]
  /\ dev' = [dev EXCEPT ![p] = dev[t]]
  /\ Goto(t, "register")
  /\ UNCHANGED <<registered, tables, sem, cfg, seen>>

\* Mutant: an error path that forgets <-m.sem.
SpawnFails_KeepsToken(t) ==
  /\ pc[t] = "spawn"
  /\ Goto(t, "startErr")
  /\ UNCHANGED <<registered, tables, sem, procs, locals>>

\* FIFO, helper, pipe or ffmpeg cannot be started: cancel, release, return.
SpawnFails(t) ==
  /\ pc[t] = "spawn"
  /\ sem' = sem - 1
  /\ Goto(t, "startErr")
  /\ UNCHANGED <<registered, tables, procs, locals>>

\* The caller gets an error; the exit handler ignores it.
ReturnError(t) ==
  /\ pc[t] = "startErr"
  /\ Return(t)
  /\ UNCHANGED <<registered, tables, sem, procs>>

\* Mutant: the process is registered but nobody waits for it.
Register_NoHandler(t) ==
  /\ pc[t] = "register"
  /\ proxies' = [proxies EXCEPT ![dev[t]] = hold[t]]
  /\ running' = [running EXCEPT ![hold[t]] = TRUE]
  /\ retries' = [retries EXCEPT ![dev[t]] = 0]
  /\ Return(t)
  /\ UNCHANGED <<registered, cfgs, fails, sem, procs>>

\* The new process replaces the map entry and its exit handler is started.
Register(t) ==
  LET p == hold[t]
      d == dev[t] IN
  /\ pc[t] = "register"
  /\ proxies' = [proxies EXCEPT ![d] = p]
  /\ running' = [running EXCEPT ![p] = TRUE]
  /\ retries' = [retries EXCEPT ![d] = 0]
  /\ pc' = [pc EXCEPT ![t] = "idle", ![p] = "wait"]
  /\ dev' = [dev EXCEPT ![t] = None]
  /\ cfg' = [cfg EXCEPT ![t] = None]
  /\ hold' = [hold EXCEPT ![t] = None]
  /\ seen' = [seen EXCEPT ![t] = 0]
  /\ UNCHANGED <<registered, cfgs, fails, sem, procs>>

------------------------------------------------------------------------------
\* The exit handler of process p.

\* Mutant: the handler forgets p.Running = false.
MarkExited_StaysRunning(p) ==
  /\ pc[p] = "wait" /\ os[p] \in {"clean", "failed"}
  /\ seen' = [seen EXCEPT ![p] = retries[dev[p]]]
  /\ Goto(p, "marked")
  /\ UNCHANGED <<registered, tables, sem, procs, dev, cfg, hold>>

\* Mutant: only a process that failed is handled.
MarkExited_OnlyFailed(p) ==
  /\ pc[p] = "wait" /\ os[p] = "failed"
  /\ running' = [x \in Procs |-> running[x] /\ x # proxies[dev[p]]]
  /\ seen' = [seen EXCEPT ![p] = retries[dev[p]]]
  /\ Goto(p, "marked")
  /\ UNCHANGED <<registered, proxies, retries, cfgs, fails, sem, procs, dev, cfg, hold>>

\* cmd.Wait returned: whatever entry the map has for the device is marked.
MarkExited(p) ==
  LET q == proxies[dev[p]] IN
  /\ pc[p] = "wait" /\ os[p] \in {"clean", "failed"}
  /\ running' = [x \in Procs |-> running[x] /\ x # q]
  /\ seen' = [seen EXCEPT ![p] = retries[dev[p]]]
  /\ Goto(p, "marked")
  /\ UNCHANGED <<registered, proxies, retries, cfgs, fails, sem, procs, dev, cfg, hold>>

\* Mutant: the token is given back only when there is no restart.
ReleaseToken_OnlyClean(p) ==
  /\ pc[p] = "marked"
  /\ os' = [os EXCEPT ![p] = "none"]
  /\ \/ os[p] = "clean" /\ sem' = sem - 1 /\ Return(p)
     \/ os[p] = "failed" /\ Goto(p, "decide") /\ UNCHANGED <<sem, locals>>
  /\ UNCHANGED <<registered, tables, pull>>

\* <-m.sem; a process that exited without an error is not restarted.
ReleaseToken(p) ==
  /\ pc[p] = "marked"
  /\ sem' = sem - 1
  /\ os' = [os EXCEPT ![p] = "none"]
  /\ \/ os[p] = "clean" /\ Return(p)
     \/ os[p] = "failed" /\ Goto(p, "decide") /\ UNCHANGED locals
  /\ UNCHANGED <<registered, tables, pull>>

\* The retry count grows; restart only if the device still has an entry.
DecideRestart(p) ==
  LET d == dev[p] IN
  /\ pc[p] = "decide"
  /\ retries' = [retries EXCEPT ![d] = IF seen[p] < RetryCap THEN seen[p] + 1 ELSE RetryCap]
  /\ \/ /\ proxies[d] # None
        /\ pull' = [pull EXCEPT ![p] = FALSE]
        /\ Goto(p, "sleep")
        /\ seen' = [seen EXCEPT ![p] = 0]
        /\ UNCHANGED <<dev, cfg, hold>>
     \/ /\ proxies[d] = None
        /\ Return(p)
        /\ UNCHANGED pull
  /\ UNCHANGED <<registered, proxies, running, cfgs, fails, sem, os>>

\* The backoff is over: StartLiveProxy(deviceID).
Wake(p) ==
  /\ pc[p] = "sleep"
  /\ Goto(p, "lookup")
  /\ cfg' = [cfg EXCEPT ![p] = AutoConfig]
  /\ UNCHANGED <<registered, tables, sem, procs, dev, hold, seen>>

------------------------------------------------------------------------------
\* StopLiveProxy, alone or as the first call of POST /api/proxy/config/{id}.

RemoveEntry(r, d, l) ==
  /\ proxies' = [proxies EXCEPT ![d] = None]
  /\ hold' = [hold EXCEPT ![r] = proxies[d]]
  /\ dev' = [dev EXCEPT ![r] = d]
  /\ Goto(r, l)

StopRequest(r, d) ==
  /\ pc[r] = "idle" /\ proxies[d] # None
  /\ RemoveEntry(r, d, "cancel")
  /\ UNCHANGED <<registered, running, retries, cfgs, fails, sem, procs, cfg, seen>>

ConfigRequest(r, d, c) ==
  /\ pc[r] = "idle" /\ SlotLeft
  /\ RemoveEntry(r, d, IF proxies[d] = None THEN "setCfg" ELSE "cfgCancel")
  /\ cfg' = [cfg EXCEPT ![r] = c]
  /\ UNCHANGED <<registered, running, retries, cfgs, fails, sem, procs, seen>>

\* The helper is killed and the context cancelled, which kills ffmpeg.
Cancel(r) ==
  /\ pc[r] \in {"cancel", "cfgCancel"}
  /\ os' = Killed({hold[r]})
  /\ pull' = [pull EXCEPT ![hold[r]] = FALSE]
  /\ \/ pc[r] = "cancel" /\ Return(r)
     \/ /\ pc[r] = "cfgCancel"
        /\ Goto(r, "setCfg")
        /\ hold' = [hold EXCEPT ![r] = None]
        /\ UNCHANGED <<dev, cfg, seen>>
  /\ UNCHANGED <<registered, tables, sem>>

\* handleProxyConfig stores the configuration and starts the proxy again.
SetConfig(r) ==
  /\ pc[r] = "setCfg"
  /\ cfgs' = [cfgs EXCEPT ![dev[r]] = cfg[r]]
  /\ Goto(r, "lookup")
  /\ UNCHANGED <<registered, proxies, running, retries, fails, sem, procs, locals>>

------------------------------------------------------------------------------
\* streamAlive: a working ffmpeg of the device publishes to MediaMTX.
Served(d) == \E p \in Procs : os[p] = "alive" /\ dev[p] = d

\* Mutant: the count is reset at the limit, but nothing is killed.
HealthCheck_NeverKills(late, reaped) ==
  /\ fails' = [d \in Devices |->
                 IF proxies[d] = None THEN fails[d]
                 ELSE IF ~IsRunning(d) \/ (Served(d) /\ d \notin late) THEN 0
                 ELSE (fails[d] + 1) % HealthLimit]
  /\ UNCHANGED <<registered, proxies, running, retries, cfgs, sem, procs, pc, locals>>

\* runHealthCheck holds the mutex throughout.  late: devices whose stream is not
\* up yet or whose playlist request times out; reaped: entries whose exited
\* process cmd.Wait has already collected.
HealthCheck(late, reaped) ==
  LET Skipped(d) == ~IsRunning(d) \/ (d \in reaped /\ ~Live(proxies[d]))
      Missed(d) == IF Served(d) /\ d \notin late THEN 0 ELSE fails[d] + 1
      Stuck == {d \in Devices : proxies[d] # None /\ ~Skipped(d) /\ Missed(d) >= HealthLimit}
  IN /\ fails' = [d \in Devices |->
                    IF proxies[d] = None THEN fails[d]
                    ELSE IF Skipped(d) \/ d \in Stuck THEN 0 ELSE Missed(d)]
     /\ os' = Killed({proxies[d] : d \in Stuck})
     /\ UNCHANGED <<registered, proxies, running, retries, cfgs, sem, pull, pc, locals>>

HealthTick == \E late \in SUBSET {d \in Devices : Served(d)},
                 reaped \in SUBSET {d \in Devices : IsRunning(d) /\ ~Live(proxies[d])} :
                HealthCheck(late, reaped)

\* ffmpeg ends by itself: the camera closed the stream, or an error.
ProcExits(p) ==
  /\ Live(p)
  /\ \E how \in {"clean", "failed"} : os' = [os EXCEPT ![p] = how]
  /\ UNCHANGED <<registered, tables, sem, pull, pc, locals>>

\* ffmpeg hangs: it neither publishes nor exits.
ProcHangs(p) ==
  /\ os[p] = "alive"
  /\ os' = [os EXCEPT ![p] = "stuck"]
  /\ UNCHANGED <<registered, tables, sem, pull, pc, locals>>

\* wapa-pull ends by itself.
PullExits(p) ==
  /\ pull[p]
  /\ pull' = [pull EXCEPT ![p] = FALSE]
  /\ UNCHANGED <<registered, tables, sem, os, pc, locals>>

\* DELETE /api/devices/{id} removes the row and nothing else.
DeleteDevice(d) ==
  /\ d \in registered \cap Deletable
  /\ registered' = registered \ {d}
  /\ UNCHANGED <<tables, sem, procs, pc, locals>>

------------------------------------------------------------------------------
StartStep(t) == \/ Lookup(t) \/ CheckRunning(t) \/ KillHolders(t) \/ SaveConfig(t)
                \/ (\E p \in Procs : Spawn(t, p)) \/ SpawnFails(t)
                \/ ReturnError(t) \/ Register(t)

HandlerStep(p) == MarkExited(p) \/ ReleaseToken(p) \/ DecideRestart(p) \/ Wake(p)

RequestStep(r) == Cancel(r) \/ SetConfig(r)

Next ==
  \/ \E t \in Threads : StartStep(t) \/ Acquire(t)
  \/ \E p \in Procs : HandlerStep(p) \/ ProcExits(p) \/ ProcHangs(p) \/ PullExits(p)
  \/ \E r \in Requests : RequestStep(r)
  \/ \E r \in Requests, d \in Devices :
       \/ StopRequest(r, d)
       \/ \E c \in Configs : StartRequest(r, d, c) \/ ConfigRequest(r, d, c)
  \/ HealthTick
  \/ \E d \in Devices : DeleteDevice(d)

\* Goroutines that can run do run, the ticker of healthCheckLoop included; a
\* send on sem is served in arrival order.
Fairness ==
  /\ \A t \in Threads : WF_vars(StartStep(t)) /\ SF_vars(Acquire(t))
  /\ \A p \in Procs : WF_vars(HandlerStep(p))
  /\ \A r \in Requests : WF_vars(RequestStep(r))
  /\ WF_vars(HealthCheck({}, {}))

Spec == Init /\ [][Next]_vars
FairSpec == Spec /\ Fairness

------------------------------------------------------------------------------
\* Properties.

\* Every variable has its type (the shape of FFmpegManager and of its goroutines).
TypeOK ==
  /\ registered \subseteq Devices
  /\ proxies \in [Devices -> Procs \cup {None}]
  /\ running \in [Procs -> BOOLEAN]
  /\ retries \in [Devices -> 0..RetryCap]
  /\ cfgs \in [Devices -> Configs \cup {None}]
  /\ fails \in [Devices -> 0..(HealthLimit - 1)]
  /\ sem \in 0..MaxConcurrent
  /\ os \in [Procs -> {"none", "alive", "stuck", "clean", "failed"}]
  /\ pull \in [Procs -> BOOLEAN]
  /\ pc \in [Threads -> Points]
  /\ dev \in [Threads -> Devices \cup {None}]
  /\ cfg \in [Threads -> Configs \cup {None}]
  /\ hold \in [Threads -> Procs \cup {None}]
  /\ seen \in [Threads -> 0..RetryCap]

\* Threads that own a token of sem: launching, or watching a launched process.
TokenOwners == {t \in Threads : pc[t] \in Launching \cup Watching}

\* No path through start, error, exit and restart loses a token of the channel
\* or returns one twice: its length is the number of threads that own one.
TokenAccounting == sem = Cardinality(TokenOwners)

\* Refinement: each slot of the semaphore channel is free, with one launch, or
\* bound to one ffmpeg until that ffmpeg is dead and collected: the channel and the
\* processes of the operating system together implement SlotPool, also when two
\* launches of one camera kill each other's ffmpeg.
Pool == INSTANCE SlotPool WITH
          Owners <- Threads, Processes <- Procs, Capacity <- MaxConcurrent,
          free <- MaxConcurrent - sem,
          launching <- {t \in Threads : pc[t] \in {"kill", "config", "spawn"}},
          live <- {p \in Procs : Live(p)},
          ended <- {p \in Procs : os[p] \in {"clean", "failed"}}
ImplementsPool == Pool!PoolSpec

\* A live ffmpeg is in the hands of one goroutine: the one about to register it
\* or its own exit handler.  None runs without somebody to wait for it.
Attended(p) == \/ \E t \in Threads : pc[t] = "register" /\ hold[t] = p
               \/ pc[p] = "wait"
LiveIsAttended == \A p \in Procs : Live(p) => Attended(p)

\* At most maxConcurrentFFmpeg ffmpeg processes are alive at any time, however
\* starts, failures, restarts and stops interleave.
LiveWithinLimit == Cardinality({p \in Procs : Live(p)}) <= MaxConcurrent

\* An entry that says Running still has the exit handler that will clear it, for
\* the same device: IsProxyRunning and the metrics cannot stay true for ever
\* for a process nobody watches.
RunningIsWatched ==
  \A d \in Devices : IsRunning(d) => pc[proxies[d]] = "wait" /\ dev[proxies[d]] = d

\* Once a process has exited, its exit handler gives the token back.
TokenReturned ==
  \A p \in Procs : (pc[p] = "wait" /\ ~Live(p)) ~> pc[p] \notin Watching

\* The self-healing of the health check: a device does not keep a hung ffmpeg as its
\* running entry, whoever put it there and however often it is replaced, unless
\* something else serves the device.
IsStuck(d) == IsRunning(d) /\ os[proxies[d]] = "stuck"
StuckIsHealed == \A d \in Devices : IsStuck(d) ~> (~IsStuck(d) \/ Served(d))


\* proxy.go:433, "remove from map so auto-restart won't fire": the exit handler
\* never puts an entry back for a device that StopLiveProxy has removed.
StopIsFinal ==
  [][\A p \in Procs, d \in Devices :
       (pc[p] = "register" /\ dev[p] = d /\ proxies[d] = None) => proxies'[d] = None]_vars
==============================================================================
