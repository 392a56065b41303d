------------------------------- MODULE Director -------------------------------
(***************************************************************************)
(* The director (PGM output): one ffmpeg that encodes the selected source,  *)
(* replaced on every switch, with push URL and overlays taken when it is    *)
(* started.  Threads are HTTP handler goroutines (Requests) and the         *)
(* goroutines SetPushURL, StopPush and SetOverlay start to switch to the    *)
(* current source again (Restarts).  The mutex sections are single actions; *)
(* what the code reads without the mutex is an action of its own.           *)
(***************************************************************************)
EXTENDS Integers, FiniteSets

CONSTANTS
  Cameras,    \* ids of the camera sources the devices table can hold
  BuiltIns,   \* the sources SyncSources always adds ("black", "test")
  Requests,   \* HTTP handler goroutines (bound on their number)
  Restarts,   \* "go SwitchTo" goroutines (bound on their number)
  Pids,       \* ffmpeg processes, each with its monitor goroutine
  PushURLs,   \* push URLs a client may set
  Overlays,   \* overlay ids
  Versions,   \* contents an overlay may have
  None        \* "", nil, 0: no source, URL, process or overlay

ASSUME ConstantsAssumption ==
  /\ None \notin Cameras \cup BuiltIns \cup Requests \cup Restarts \cup Pids \cup PushURLs \cup Versions
  /\ Requests \cap Restarts = {}

Threads == Requests \cup Restarts
Sources == Cameras \cup BuiltIns

VARIABLES
  devices,   \* cameras in the devices table
  sources,   \* d.sources
  overlays,  \* d.overlays: id -> content, or None
  pgm,       \* d.pgm: status, source, push, pid, stopChan and latest
  os,        \* ffmpeg processes: "none", "alive" or "exited"
  used,      \* push URL and overlays each process was started with
  pc,        \* where each thread is
  arg,       \* the source a thread switches to
  crashed    \* an unrecovered panic has ended the backend

\* latest abstracts pgm.generation: the process that was started last is the one
\* whose monitor finds its own generation.
vars == <<devices, sources, overlays, pgm, os, used, pc, arg, crashed>>

Unused == [push |-> None, overlays |-> [o \in Overlays |-> None]]

Init ==
  /\ devices \in SUBSET Cameras
  /\ sources = {}
  /\ overlays = [o \in Overlays |-> None]
  /\ pgm = [status |-> "idle", source |-> None, push |-> None, pid |-> None,
            stopChan |-> "nil", latest |-> None]
  /\ os = [p \in Pids |-> "none"]
  /\ used = [p \in Pids |-> Unused]
  /\ pc = [t \in Threads |-> "idle"]
  /\ arg = [t \in Threads |-> None]
  /\ crashed = FALSE

------------------------------------------------------------------------------
Goto(t, l) == pc' = [pc EXCEPT ![t] = l]
Return(t) == Goto(t, "idle") /\ arg' = [arg EXCEPT ![t] = None]

\* kill <pid> and up to ten looks whether it is gone: ffmpeg may outlive them.
AfterKill == IF pgm.pid # None /\ os[pgm.pid] = "alive"
               THEN {os, [os EXCEPT ![pgm.pid] = "exited"]}
               ELSE {os}

\* close(stopChan) of a channel that is already closed panics.
ClosePanics == pgm.stopChan = "closed"
Closed(ch) == IF ch = "nil" THEN "nil" ELSE "closed"

\* A panic is recovered by net/http in a handler; in any other goroutine it ends
\* the process.  Deferred unlocks run in both cases.
Panic(t) ==
  /\ \/ t \in Requests /\ Goto(t, "panicked") /\ UNCHANGED <<arg, crashed>>
     \/ t \in Restarts /\ crashed' = TRUE /\ Return(t)
  /\ UNCHANGED <<devices, sources, overlays, pgm, os, used>>

\* Mutant: the error path of cmd.Start leaves the status of the attempt.
Switch_StaysTransitioning(t) ==
  /\ ~ClosePanics
  /\ \E after \in AfterKill :
       \/ /\ os' = after
          /\ pgm' = [pgm EXCEPT !.status = "transitioning", !.source = arg[t],
                                !.stopChan = Closed(pgm.stopChan)]
          /\ UNCHANGED used
       \/ \E p \in Pids :
            /\ os[p] = "none"
            /\ os' = [after EXCEPT ![p] = "alive"]
            /\ pgm' = [pgm EXCEPT !.status = "live", !.source = arg[t], !.pid = p,
                                  !.stopChan = "open", !.latest = p]
            /\ used' = [used EXCEPT ![p] = [push |-> pgm.push, overlays |-> overlays]]
  /\ Return(t)
  /\ UNCHANGED <<devices, sources, overlays, crashed>>

\* The locked part of SwitchTo once the source is known.
Switch(t) ==
  /\ ~ClosePanics
  /\ \E after \in AfterKill :
       \* cmd.Start fails
       \/ /\ os' = after
          /\ pgm' = [pgm EXCEPT !.status = "idle", !.source = arg[t], !.stopChan = Closed(pgm.stopChan)]
          /\ UNCHANGED used
       \* a new process, generation and stop channel
       \/ \E p \in Pids :
            /\ os[p] = "none"
            /\ os' = [after EXCEPT ![p] = "alive"]
            /\ pgm' = [pgm EXCEPT !.status = "live", !.source = arg[t], !.pid = p,
                                  !.stopChan = "open", !.latest = p]
            /\ used' = [used EXCEPT ![p] = [push |-> pgm.push, overlays |-> overlays]]
  /\ Return(t)
  /\ UNCHANGED <<devices, sources, overlays, crashed>>

\* SwitchTo under the mutex: an unknown source makes it unlock and synchronise.
SwitchTo(t) ==
  /\ pc[t] = "switch"
  /\ \/ arg[t] \in sources /\ Switch(t)
     \/ arg[t] \in sources /\ ClosePanics /\ Panic(t)
     \/ /\ arg[t] \notin sources
        /\ Goto(t, "sync")
        /\ UNCHANGED <<devices, sources, overlays, pgm, os, used, arg, crashed>>

\* SyncSources: the cameras of the devices table and the built-in sources.
SyncSources == sources' = devices \cup BuiltIns

SyncForSwitch(t) ==
  /\ pc[t] = "sync"
  /\ SyncSources
  /\ Goto(t, "retry")
  /\ UNCHANGED <<devices, overlays, pgm, os, used, arg, crashed>>

\* The mutex again: still unknown sets the status and gives up.
RetrySwitch(t) ==
  /\ pc[t] = "retry"
  /\ \/ arg[t] \in sources /\ Switch(t)
     \/ arg[t] \in sources /\ ClosePanics /\ Panic(t)
     \/ /\ arg[t] \notin sources
        /\ pgm' = [pgm EXCEPT !.status = "idle"]
        /\ Return(t)
        /\ UNCHANGED <<devices, sources, overlays, os, used, crashed>>

\* The connection of a handler that panicked is closed.
Recovered(r) ==
  /\ pc[r] = "panicked"
  /\ Return(r)
  /\ UNCHANGED <<devices, sources, overlays, pgm, os, used, crashed>>

\* Mutant: the exit of any process resets the program.
ProcessGone_NoGuard(p) ==
  /\ os[p] = "exited"
  /\ os' = [os EXCEPT ![p] = "none"]
  /\ used' = [used EXCEPT ![p] = Unused]
  /\ pgm' = [pgm EXCEPT !.status = "idle", !.pid = None]
  /\ UNCHANGED <<devices, sources, overlays, pc, arg, crashed>>

\* The monitor goroutine of p: only the latest generation resets the program.
ProcessGone(p) ==
  /\ os[p] = "exited"
  /\ os' = [os EXCEPT ![p] = "none"]
  /\ used' = [used EXCEPT ![p] = Unused]
  /\ IF pgm.latest = p
       THEN pgm' = [pgm EXCEPT !.status = "idle", !.pid = None, !.latest = None]
       ELSE UNCHANGED pgm
  /\ UNCHANGED <<devices, sources, overlays, pc, arg, crashed>>

------------------------------------------------------------------------------
\* The HTTP handlers.

\* POST /api/director/switch
SwitchRequest(r, s) ==
  /\ pc[r] = "idle"
  /\ Goto(r, "switch")
  /\ arg' = [arg EXCEPT ![r] = s]
  /\ UNCHANGED <<devices, sources, overlays, pgm, os, used, crashed>>

\* GET /api/director/sources
ListSources ==
  /\ SyncSources
  /\ UNCHANGED <<devices, overlays, pgm, os, used, pc, arg, crashed>>

\* Mutant: the killed process is forgotten but its status is not.
StopRequest_StaysLive(r) ==
  /\ pc[r] = "idle" /\ ~ClosePanics
  /\ os' \in AfterKill
  /\ pgm' = [pgm EXCEPT !.stopChan = Closed(pgm.stopChan), !.source = None, !.pid = None]
  /\ UNCHANGED <<devices, sources, overlays, used, pc, arg, crashed>>

\* POST /api/director/stop.  kill comes before close, so a second stop still kills.
StopRequest(r) ==
  /\ pc[r] = "idle"
  /\ os' \in AfterKill
  /\ \/ /\ ClosePanics
        /\ Goto(r, "panicked")
        /\ UNCHANGED pgm
     \/ /\ ~ClosePanics
        /\ pgm' = [pgm EXCEPT !.stopChan = Closed(pgm.stopChan), !.status = "idle",
                              !.source = None, !.pid = None]
        /\ UNCHANGED pc
  /\ UNCHANGED <<devices, sources, overlays, used, arg, crashed>>

\* POST /api/director/push: SetPushURL, or StopPush for an empty URL.
PushRequest(r, u) ==
  /\ pc[r] = "idle"
  /\ pgm' = [pgm EXCEPT !.push = u]
  /\ Goto(r, "pushed")
  /\ UNCHANGED <<devices, sources, overlays, os, used, arg, crashed>>

\* The bound Restarts: a request that would start one more waits for a free one.
StartRestart == \E g \in Restarts : pc[g] = "idle" /\ pc' = [pc EXCEPT ![g] = "read"]

\* Mutant: the program is not restarted for a new push URL.
PushRestart_Missing(r) ==
  /\ pc[r] = "pushed"
  /\ Goto(r, "idle")
  /\ UNCHANGED <<devices, sources, overlays, pgm, os, used, arg, crashed>>

\* Mutant: StopPush, which clears the URL, does not restart the program.
PushRestart_NotForStop(r) ==
  /\ pc[r] = "pushed"
  /\ \/ /\ pgm.status = "live" /\ pgm.push # None
        /\ \E g \in Restarts : pc[g] = "idle" /\ pc' = [pc EXCEPT ![g] = "read", ![r] = "idle"]
     \/ (pgm.status # "live" \/ pgm.push = None) /\ Goto(r, "idle")
  /\ UNCHANGED <<devices, sources, overlays, pgm, os, used, arg, crashed>>

\* After the unlock the status is read; a live program is restarted.
PushRestart(r) ==
  /\ pc[r] = "pushed"
  /\ \/ /\ pgm.status = "live"
        /\ \E g \in Restarts : pc[g] = "idle" /\ pc' = [pc EXCEPT ![g] = "read", ![r] = "idle"]
     \/ pgm.status # "live" /\ Goto(r, "idle")
  /\ UNCHANGED <<devices, sources, overlays, pgm, os, used, arg, crashed>>

\* The restart goroutine reads the current source without the mutex.
ReadSource(g) ==
  /\ pc[g] = "read"
  /\ arg' = [arg EXCEPT ![g] = pgm.source]
  /\ Goto(g, "switch")
  /\ UNCHANGED <<devices, sources, overlays, pgm, os, used, crashed>>

\* Mutant: a new overlay does not restart a live program.
SetOverlay_NoRestart(o, v) ==
  /\ overlays' = [overlays EXCEPT ![o] = v]
  /\ UNCHANGED <<devices, sources, pgm, os, used, pc, arg, crashed>>

\* POST /api/director/overlays: an id that exists is replaced and that is all; a
\* new one is appended and a live program restarted.
SetOverlay(o, v) ==
  /\ overlays' = [overlays EXCEPT ![o] = v]
  /\ \/ overlays[o] = None /\ pgm.status = "live" /\ StartRestart
     \/ (overlays[o] # None \/ pgm.status # "live") /\ UNCHANGED pc
  /\ UNCHANGED <<devices, sources, pgm, os, used, arg, crashed>>

\* DELETE /api/director/overlays/{id}
RemoveOverlay(o) ==
  /\ overlays[o] # None
  /\ overlays' = [overlays EXCEPT ![o] = None]
  /\ UNCHANGED <<devices, sources, pgm, os, used, pc, arg, crashed>>

------------------------------------------------------------------------------
\* ffmpeg ends by itself, or at last on the signal it was sent.
ProcessExits(p) ==
  /\ os[p] = "alive"
  /\ os' = [os EXCEPT ![p] = "exited"]
  /\ UNCHANGED <<devices, sources, overlays, pgm, used, pc, arg, crashed>>

\* Devices are added and deleted by other handlers.
DevicesChange ==
  /\ devices' \in SUBSET Cameras
  /\ UNCHANGED <<sources, overlays, pgm, os, used, pc, arg, crashed>>

ThreadStep(t) == SwitchTo(t) \/ SyncForSwitch(t) \/ RetrySwitch(t)

Next ==
  /\ ~crashed
  /\ \/ \E t \in Threads : ThreadStep(t)
     \/ \E r \in Requests :
          \/ Recovered(r) \/ StopRequest(r) \/ PushRestart(r)
          \/ \E s \in Sources : SwitchRequest(r, s)
          \/ \E u \in PushURLs \cup {None} : PushRequest(r, u)
     \/ \E g \in Restarts : ReadSource(g)
     \/ \E p \in Pids : ProcessGone(p) \/ ProcessExits(p)
     \/ ListSources
     \/ \E o \in Overlays : RemoveOverlay(o) \/ \E v \in Versions : SetOverlay(o, v)
     \/ DevicesChange

\* Goroutines that can run do run.
Fairness ==
  /\ \A t \in Threads : WF_vars(~crashed /\ ThreadStep(t))
  /\ \A r \in Requests : WF_vars(~crashed /\ (Recovered(r) \/ PushRestart(r)))
  /\ \A g \in Restarts : WF_vars(~crashed /\ ReadSource(g))
  /\ \A p \in Pids : WF_vars(~crashed /\ ProcessGone(p))

Spec == Init /\ [][Next]_vars
FairSpec == Spec /\ Fairness

------------------------------------------------------------------------------
\* Properties.

\* Every variable has its type (the fields of Director and DirectorPGM).
TypeOK ==
  /\ devices \subseteq Cameras
  /\ sources \subseteq Sources
  /\ overlays \in [Overlays -> Versions \cup {None}]
  /\ pgm \in [status : {"idle", "live"}, source : Sources \cup {None},
              push : PushURLs \cup {None}, pid : Pids \cup {None},
              stopChan : {"nil", "open", "closed"}, latest : Pids \cup {None}]
  /\ os \in [Pids -> {"none", "alive", "exited"}]
  /\ used \in [Pids -> [push : PushURLs \cup {None}, overlays : [Overlays -> Versions \cup {None}]]]
  /\ pc \in [Threads -> {"idle", "switch", "sync", "retry", "panicked", "pushed", "read"}]
  /\ arg \in [Threads -> Sources \cup {None}]
  /\ crashed \in BOOLEAN

\* A status of "live" is about the process that was started last, and that process
\* still has a monitor that will reset the status when it ends.
LiveIsMonitored ==
  pgm.status = "live" => pgm.pid # None /\ pgm.pid = pgm.latest /\ os[pgm.pid] # "none"

\* The generation guard does what its comment says: while a program has been
\* selected and not stopped, the process started last stays the one the director
\* knows, whatever older processes do when they end.
ProgramIsKnown ==
  (pgm.latest # None /\ os[pgm.latest] = "alive" /\ pgm.source # None) => pgm.pid = pgm.latest

Restarting == \E g \in Restarts : pc[g] # "idle"

\* A live program that does not have the current push URL, or an overlay that was added, is
\* on its way to be replaced: its request has not looked at the status yet, or a restart
\* goroutine is at work.  No end of a restart, switch, stop or process leaves it forgotten.
StaleIsRestarted ==
  pgm.status = "live" /\ ~crashed =>
    /\ used[pgm.pid].push # pgm.push => Restarting \/ \E r \in Requests : pc[r] = "pushed"
    /\ \A o \in Overlays :
         overlays[o] # None /\ used[pgm.pid].overlays[o] = None => Restarting

\* A live program that was started with another push URL than the current one is
\* replaced or stops being live, or the backend crashes trying.
PushReachesProgram ==
  (pgm.status = "live" /\ used[pgm.pid].push # pgm.push)
    ~> (crashed \/ pgm.status # "live" \/ used[pgm.pid].push = pgm.push)

\* director.go:248, "restart with new overlays", for an overlay with a new id: the
\* live program gets it or stops being live, unless the overlay is removed again.
NewOverlayReachesProgram ==
  \A o \in Overlays :
    (pgm.status = "live" /\ overlays[o] # None /\ used[pgm.pid].overlays[o] = None)
      ~> (crashed \/ pgm.status # "live" \/ overlays[o] = None \/ used[pgm.pid].overlays[o] # None)

\* gateway/README.md:332-333, the PGM can be switched and stopped: neither panics.
NeverPanics == ~crashed /\ \A r \in Requests : pc[r] # "panicked"
==============================================================================
