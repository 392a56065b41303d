--------------------------- MODULE RecorderProofs ---------------------------
(***************************************************************************)
(* Safety of Recorder for any number of schedules, clips and windows.       *)
(* MarkInv relates the marks of the loop, and the stale view it goes by, to *)
(* the windows that were recorded.                                          *)
(***************************************************************************)
EXTENDS Recorder, TLAPS

\* The assumptions on the constants, for citing.
LEMMA Bounds == MaxWindows \in Nat /\ 1 <= MaxWindows /\ None \notin Clips /\ None \notin Views
  BY ConstantsAssumption DEF ConstantsAssumption

\* TypeOK in the three parts that the steps change.
ScheduleType ==
  /\ plan \in [Schedules -> {"on", "off", "deleted"}]
  /\ when \in [Schedules -> {"in", "out", "other"}]
  /\ window \in [Schedules -> 0..MaxWindows]

LoopType ==
  /\ todo \subseteq Views
  /\ active \subseteq Schedules
  /\ busy \in Views \cup {None}
  /\ made \in [Schedules -> 0..MaxWindows]

ClipType ==
  /\ mine \in Clips \cup {None}
  /\ writing \subseteq Clips /\ rows \subseteq Clips
  /\ (busy = None) = (mine = None) /\ (mine # None => mine \in writing)
  /\ writing \cap rows = {}

\* The parts are the whole.
LEMMA Split == TypeOK <=> ScheduleType /\ LoopType /\ ClipType
  BY DEF TypeOK, ScheduleType, LoopType, ClipType

\* The gateway starts with its types.
LEMMA InitType == Init => TypeOK
<1> SUFFICES ASSUME Init PROVE TypeOK
  OBVIOUS
<1>1. window \in [Schedules -> 0..MaxWindows] /\ made \in [Schedules -> 0..MaxWindows]
  BY Bounds DEF Init
<1>2. plan \in [Schedules -> {"on", "off", "deleted"}]
  BY DEF Init
<1> QED  BY <1>1, <1>2 DEF Init, TypeOK

------------------------------------------------------------------------------
\* What a step does to the clips.

\* A view is one of Views.
LEMMA ViewType == ASSUME TypeOK, NEW s \in Schedules PROVE View(s) \in Views
  BY DEF View, Views, TypeOK

\* The handler's recording keeps the clips.
LEMMA ManualClips ==
  ASSUME TypeOK, ManualBegins \/ ManualEnds
  PROVE  ClipType'
<1>1. CASE ManualBegins
  BY <1>1 DEF ManualBegins, BeginClip, Free, TypeOK, ClipType, schedule, loop
<1>2. CASE ManualEnds
  <2> PICK c \in Clips \ {mine} : SaveClip(c) \/ FailClip(c)
    BY <1>2 DEF ManualEnds
  <2>1. CASE SaveClip(c)
    BY <1>2, <2>1 DEF ManualEnds, SaveClip, TypeOK, ClipType, schedule, loop
  <2>2. CASE FailClip(c)
    BY <1>2, <2>2 DEF ManualEnds, FailClip, TypeOK, ClipType, schedule, loop
  <2> QED  BY <2>1, <2>2
<1> QED  BY <1>1, <1>2

\* The loop's recording keeps the clips.
LEMMA LoopClips ==
  ASSUME TypeOK, LoopStep \/ ScheduledSaved \/ ScheduledFailed
  PROVE  ClipType'
<1>1. CASE LoopStep
  <2> PICK v \in todo : LeaveWindow(v) \/ StayActive(v) \/ StartScheduled(v)
    BY <1>1 DEF LoopStep
  <2>1. CASE LeaveWindow(v) \/ StayActive(v)
    BY <2>1 DEF LeaveWindow, StayActive, TypeOK, ClipType, clips
  <2>2. CASE StartScheduled(v)
    <3>1. v # None /\ busy' # None
      BY <2>2, Bounds DEF StartScheduled, TypeOK
    <3>2. PICK c \in Clips : BeginClip(c) /\ mine' = c
      BY <2>2 DEF StartScheduled
    <3>3. c # None
      BY Bounds
    <3> QED  BY <3>1, <3>2, <3>3 DEF BeginClip, Free, TypeOK, ClipType
  <2> QED  BY <2>1, <2>2
<1>2. CASE ScheduledSaved
  BY <1>2 DEF ScheduledSaved, SaveClip, TypeOK, ClipType
<1>3. CASE ScheduledFailed
  BY <1>3 DEF ScheduledFailed, FailClip, TypeOK, ClipType
<1> QED  BY <1>1, <1>2, <1>3

\* A deletion keeps the clips.
LEMMA DeleteClips ==
  ASSUME TypeOK, DeleteRows
  PROVE  ClipType'
  BY DEF DeleteRows, TypeOK, ClipType, schedule, loop

\* A restart keeps the clips.
LEMMA RestartClips ==
  ASSUME TypeOK, GatewayRestarts
  PROVE  ClipType'
  BY DEF GatewayRestarts, TypeOK, ClipType

------------------------------------------------------------------------------
\* What a step does to the schedules and the loop.

\* A step of the loop keeps the types.
LEMMA LoopTypes ==
  ASSUME TypeOK, Tick \/ LoopStep \/ ScheduledSaved \/ ScheduledFailed
  PROVE  ScheduleType' /\ LoopType'
<1>1. CASE Tick
  BY <1>1, ViewType DEF Tick, TypeOK, ScheduleType, LoopType, schedule
<1>2. CASE LoopStep
  <2> PICK v \in todo : LeaveWindow(v) \/ StayActive(v) \/ StartScheduled(v)
    BY <1>2 DEF LoopStep
  <2>1. CASE LeaveWindow(v) \/ StayActive(v)
    BY <2>1 DEF LeaveWindow, StayActive, TypeOK, ScheduleType, LoopType, schedule
  <2>2. CASE StartScheduled(v)
    BY <2>2 DEF StartScheduled, TypeOK, ScheduleType, LoopType, schedule
  <2> QED  BY <2>1, <2>2
<1>3. CASE ScheduledSaved
  <2>1. busy \in Views
    BY <1>3 DEF ScheduledSaved, TypeOK
  <2>2. busy.schedule \in Schedules /\ busy.window \in 0..MaxWindows
    BY <2>1 DEF Views
  <2>3. made' \in [Schedules -> 0..MaxWindows] /\ active' \subseteq Schedules
    BY <1>3, <2>2 DEF ScheduledSaved, TypeOK
  <2>4. plan' \in [Schedules -> {"on", "off", "deleted"}]
    BY <1>3, <2>2 DEF ScheduledSaved, TypeOK
  <2> QED  BY <1>3, <2>3, <2>4 DEF ScheduledSaved, TypeOK, ScheduleType, LoopType
<1>4. CASE ScheduledFailed
  BY <1>4 DEF ScheduledFailed, TypeOK, ScheduleType, LoopType, schedule
<1> QED  BY <1>1, <1>2, <1>3, <1>4

\* The clock keeps the types.
LEMMA TimeType ==
  ASSUME TypeOK, NEW s \in Schedules, TimePasses(s)
  PROVE  ScheduleType'
<1>1. PICK w \in {"in", "out", "other"} :
        /\ when' = [when EXCEPT ![s] = w]
        /\ window' = IF w = "in" THEN [window EXCEPT ![s] = @ + 1] ELSE window
  BY DEF TimePasses
<1>2. window' \in [Schedules -> 0..MaxWindows]
  <2>1. CASE w = "in"
    <3>1. window'[s] = window[s] + 1 /\ window[s] \in 0..MaxWindows /\ window'[s] <= MaxWindows
      BY <1>1, <2>1 DEF TypeOK, TimePasses
    <3>2. window[s] + 1 \in 0..MaxWindows
      BY <3>1, Bounds
    <3> QED  BY <1>1, <2>1, <3>2 DEF TypeOK
  <2>2. CASE w # "in"
    BY <1>1, <2>2 DEF TypeOK
  <2> QED  BY <2>1, <2>2
<1>3. when' \in [Schedules -> {"in", "out", "other"}]
  BY <1>1 DEF TypeOK
<1> QED  BY <1>2, <1>3 DEF TimePasses, TypeOK, ScheduleType

\* Every step keeps the types.
LEMMA TypeStep == TypeOK /\ [Next]_vars => TypeOK'
<1> SUFFICES ASSUME TypeOK, [Next]_vars PROVE TypeOK'
  OBVIOUS
<1>0. ScheduleType /\ LoopType /\ ClipType
  BY Split
<1>1. CASE Tick
  <2>1. ClipType'
    BY <1>0, <1>1 DEF Tick, ClipType, clips
  <2> QED  BY <1>1, <2>1, LoopTypes, Split DEF ScheduleType, LoopType, ClipType, TypeOK
<1>2. CASE LoopStep \/ ScheduledSaved \/ ScheduledFailed
  BY <1>2, LoopTypes, LoopClips DEF ScheduleType, LoopType, ClipType, TypeOK
<1>3. CASE ManualBegins \/ ManualEnds
  <2>1. UNCHANGED <<schedule, loop>>
    BY <1>3 DEF ManualBegins, ManualEnds
  <2> QED  BY <1>0, <1>3, <2>1, ManualClips DEF ScheduleType, LoopType, ClipType, TypeOK, schedule, loop
<1>4. CASE DeleteRows
  <2>1. UNCHANGED <<schedule, loop>>
    BY <1>4 DEF DeleteRows
  <2> QED  BY <1>0, <1>4, <2>1, DeleteClips DEF ScheduleType, LoopType, ClipType, TypeOK, schedule, loop
<1>5. CASE GatewayRestarts
  <2>1. made' \in [Schedules -> 0..MaxWindows]
    BY <1>5, Bounds DEF GatewayRestarts
  <2>2. ScheduleType' /\ LoopType'
    BY <1>0, <1>5, <2>1 DEF GatewayRestarts, ScheduleType, LoopType, schedule
  <2> QED  BY <1>5, <2>2, RestartClips DEF ScheduleType, LoopType, ClipType, TypeOK
<1>6. ASSUME NEW s \in Schedules, TimePasses(s) PROVE TypeOK'
  BY <1>0, <1>6, TimeType DEF TimePasses, ScheduleType, LoopType, ClipType, TypeOK, loop, clips
<1>7. ASSUME NEW s \in Schedules, EditSchedule(s) PROVE TypeOK'
  BY <1>0, <1>7 DEF EditSchedule, TypeOK, loop, clips
<1>8. CASE UNCHANGED vars
  BY <1>8 DEF vars, schedule, loop, clips, TypeOK
<1> QED  BY <1>1, <1>2, <1>3, <1>4, <1>5, <1>6, <1>7, <1>8 DEF Next

\* Types hold through every deletion, failure and restart, and no clip is listed while it
\* is being written.
THEOREM TypeCorrect == Spec => []TypeOK
  BY InitType, TypeStep, PTL DEF Spec

------------------------------------------------------------------------------
\* The marks.

\* A view the loop goes by is no older than what was recorded last, and no younger than
\* the clock; a window that it saw open and unmarked is not recorded, and one that it saw
\* shut has a successor if the schedule is in a window again.
ViewInv(v) ==
  /\ made[v.schedule] <= v.window /\ v.window <= window[v.schedule]
  /\ v.when = "in" /\ v.schedule \notin active => made[v.schedule] < v.window
  /\ v.when # "in" => when[v.schedule] # "in" \/ v.window < window[v.schedule]

\* The same of the present; without its mark a window that is open is not recorded.
ClockInv ==
  \A s \in Schedules :
    /\ made[s] <= window[s]
    /\ when[s] = "in" => 0 < window[s]
    /\ when[s] = "in" /\ s \notin active => made[s] < window[s]

\* A tick looks at a schedule once.
TodoInv ==
  /\ \A v \in todo : ViewInv(v)
  /\ \A v, w \in todo : v.schedule = w.schedule => v = w

\* The recording of the loop is the first of its window.
BusyInv ==
  busy # None =>
    /\ busy.when = "in" /\ ViewInv(busy)
    /\ made[busy.schedule] < busy.window
    /\ \A v \in todo : v.schedule # busy.schedule

MarkInv == ClockInv /\ TodoInv /\ BusyInv

\* What the arithmetic of MarkInv is about.
LEMMA Counts ==
  ASSUME TypeOK
  PROVE  /\ \A s \in Schedules : made[s] \in Int /\ window[s] \in Int
         /\ \A v \in Views : v.schedule \in Schedules /\ v.window \in Int
  BY Bounds DEF TypeOK, Views

\* A tick takes its views of the present.
LEMMA TickMarks == ASSUME TypeOK, MarkInv, Tick PROVE MarkInv'
<1>1. ClockInv' /\ BusyInv'
  BY DEF Tick, MarkInv, ClockInv, BusyInv, schedule
<1>2. ASSUME NEW s \in Schedules PROVE ViewInv(View(s))'
  <2>1. made[s] \in Int /\ window[s] \in Int
    BY Counts
  <2> QED  BY <2>1 DEF Tick, MarkInv, ClockInv, ViewInv, View, schedule
<1>3. TodoInv'
  BY <1>2 DEF Tick, TodoInv, ViewInv, View, schedule
<1> QED  BY <1>1, <1>3 DEF MarkInv

\* A mark is lost only where the loop saw the window shut.
LEMMA LoopMarks == ASSUME TypeOK, MarkInv, LoopStep PROVE MarkInv'
<1> PICK v \in todo : LeaveWindow(v) \/ StayActive(v) \/ StartScheduled(v)
  BY DEF LoopStep
<1>0. busy = None /\ v \in Views /\ ViewInv(v)
  BY DEF LoopStep, MarkInv, TodoInv, TypeOK
<1>1. CASE LeaveWindow(v)
  <2>1. ASSUME NEW s \in Schedules, s \in active, s \notin active' PROVE s = v.schedule /\ v.when # "in"
    BY <1>1, <2>1 DEF LeaveWindow
  <2>2. ClockInv'
    BY <1>0, <1>1, <2>1, Counts DEF LeaveWindow, MarkInv, ClockInv, ViewInv, schedule
  <2>3. ASSUME NEW w \in todo' PROVE ViewInv(w)'
    <3>1. w \in todo /\ w.schedule # v.schedule /\ ViewInv(w) /\ w \in Views
      BY <1>1, <2>3 DEF LeaveWindow, MarkInv, TodoInv, TypeOK
    <3>2. w.schedule \in active' <=> w.schedule \in active
      BY <1>1, <3>1 DEF LeaveWindow
    <3> QED  BY <1>1, <3>1, <3>2 DEF LeaveWindow, ViewInv, schedule
  <2>4. TodoInv'
    BY <1>1, <2>3 DEF LeaveWindow, MarkInv, TodoInv
  <2> QED  BY <1>0, <1>1, <2>2, <2>4 DEF LeaveWindow, MarkInv, BusyInv
<1>2. CASE StayActive(v)
  BY <1>0, <1>2 DEF StayActive, MarkInv, ClockInv, TodoInv, BusyInv, ViewInv, schedule
<1>3. CASE StartScheduled(v)
  <2>1. ClockInv' /\ TodoInv'
    BY <1>3 DEF StartScheduled, MarkInv, ClockInv, TodoInv, ViewInv, schedule
  <2>2. busy' = v /\ v.when = "in" /\ ViewInv(v)' /\ made'[v.schedule] < v.window
    BY <1>0, <1>3 DEF StartScheduled, ViewInv, schedule
  <2>3. \A w \in todo' : w.schedule # v.schedule
    BY <1>3 DEF StartScheduled, MarkInv, TodoInv
  <2> QED  BY <2>1, <2>2, <2>3 DEF MarkInv, BusyInv
<1> QED  BY <1>1, <1>2, <1>3

\* A recording that succeeds marks its schedule.
LEMMA SavedMarks == ASSUME TypeOK, MarkInv, ScheduledSaved PROVE MarkInv'
<1> DEFINE b == busy.schedule
<1>1. busy \in Views /\ b \in Schedules /\ ViewInv(busy)
  BY DEF ScheduledSaved, TypeOK, Views, MarkInv, BusyInv
<1>2. /\ made'[b] = busy.window /\ b \in active'
      /\ \A s \in Schedules \ {b} : made'[s] = made[s] /\ (s \in active' <=> s \in active)
      /\ UNCHANGED <<when, window, todo>>
  BY <1>1 DEF ScheduledSaved, TypeOK
<1>3. ClockInv'
  BY <1>1, <1>2 DEF MarkInv, ClockInv, ViewInv
<1>4. ASSUME NEW v \in todo' PROVE ViewInv(v)'
  <2>1. v \in todo /\ v.schedule \in Schedules \ {b} /\ ViewInv(v)
    BY <1>2, <1>4, Counts DEF ScheduledSaved, MarkInv, TodoInv, BusyInv, TypeOK
  <2> QED  BY <1>2, <2>1 DEF ViewInv
<1>5. TodoInv'
  BY <1>2, <1>4 DEF MarkInv, TodoInv
<1>6. BusyInv'
  BY DEF ScheduledSaved, BusyInv
<1> QED  BY <1>3, <1>5, <1>6 DEF MarkInv

\* The clock makes views older, never younger.
LEMMA TimeMarks ==
  ASSUME TypeOK, MarkInv, NEW s \in Schedules, TimePasses(s)
  PROVE  MarkInv'
<1>1. /\ \A t \in Schedules : window[t] <= window'[t] /\ window'[t] \in Int
      /\ \A t \in Schedules : when'[t] = "in" => when[t] = "in" \/ window[t] < window'[t]
      /\ \A t \in Schedules : when'[t] = "in" => 0 < window'[t]
  <2>1. PICK w \in {"in", "out", "other"} \ {when[s]} :
          /\ when' = [when EXCEPT ![s] = w]
          /\ window' = IF w = "in" THEN [window EXCEPT ![s] = @ + 1] ELSE window
    BY DEF TimePasses
  <2>2. \A t \in Schedules : window[t] \in Nat
    BY Bounds DEF TypeOK
  <2>3. CASE w = "in"
    <3>1. window' = [window EXCEPT ![s] = window[s] + 1] /\ when' = [when EXCEPT ![s] = "in"]
      BY <2>1, <2>3
    <3>2. window'[s] = window[s] + 1 /\ \A t \in Schedules \ {s} : window'[t] = window[t] /\ when'[t] = when[t]
      BY <3>1 DEF TypeOK
    <3> QED  BY <2>2, <3>2 DEF MarkInv, ClockInv
  <2>4. CASE w # "in"
    <3>1. window' = window /\ \A t \in Schedules : when'[t] = "in" => when[t] = "in"
      BY <2>1, <2>4 DEF TypeOK
    <3> QED  BY <2>2, <3>1 DEF MarkInv, ClockInv
  <2> QED  BY <2>3, <2>4
<1>2. UNCHANGED <<todo, active, busy, made>>
  BY DEF TimePasses, loop
<1>3. ASSUME NEW v \in Views, ViewInv(v) PROVE ViewInv(v)'
  <2>1. v.schedule \in Schedules /\ v.window \in Int /\ made[v.schedule] \in Int /\ window[v.schedule] \in Int
    BY Counts
  <2> QED  BY <1>1, <1>2, <1>3, <2>1 DEF ViewInv
<1>4. ClockInv'
  BY <1>1, <1>2, Counts DEF MarkInv, ClockInv
<1>5. TodoInv'
  BY <1>2, <1>3 DEF MarkInv, TodoInv, TypeOK
<1>6. BusyInv'
  BY <1>2, <1>3 DEF MarkInv, BusyInv, TypeOK
<1> QED  BY <1>4, <1>5, <1>6 DEF MarkInv

\* Every step keeps the marks.
LEMMA MarkStep == TypeOK /\ MarkInv /\ [Next]_vars => MarkInv'
<1> SUFFICES ASSUME TypeOK, MarkInv, [Next]_vars PROVE MarkInv'
  OBVIOUS
<1>1. CASE UNCHANGED <<when, window, todo, active, busy, made>>
  BY <1>1 DEF MarkInv, ClockInv, TodoInv, BusyInv, ViewInv
<1>2. CASE ScheduledFailed
  BY <1>2 DEF ScheduledFailed, MarkInv, ClockInv, TodoInv, BusyInv, ViewInv, schedule
<1>3. CASE GatewayRestarts
  <2>1. ClockInv'
    <3>1. \A s \in Schedules : made'[s] = 0 /\ window[s] \in Nat
      BY <1>3, Bounds DEF GatewayRestarts, TypeOK
    <3> QED  BY <1>3, <3>1 DEF GatewayRestarts, MarkInv, ClockInv, schedule
  <2> QED  BY <1>3, <2>1 DEF GatewayRestarts, MarkInv, TodoInv, BusyInv
<1>4. CASE DeleteRows \/ ManualBegins \/ ManualEnds
  BY <1>1, <1>4 DEF DeleteRows, ManualBegins, ManualEnds, schedule, loop
<1>5. ASSUME NEW s \in Schedules, EditSchedule(s) PROVE MarkInv'
  BY <1>1, <1>5 DEF EditSchedule, loop
<1>6. CASE UNCHANGED vars
  BY <1>1, <1>6 DEF vars, schedule, loop
<1> QED  BY <1>2, <1>3, <1>4, <1>5, <1>6, TickMarks, LoopMarks, SavedMarks, TimeMarks DEF Next

\* MarkInv holds in every reachable state.
THEOREM MarksInvariant == Spec => [](TypeOK /\ MarkInv)
<1>1. Init => TypeOK /\ MarkInv
  <2> SUFFICES ASSUME Init PROVE TypeOK /\ MarkInv
    OBVIOUS
  <2>1. ClockInv
    <3>1. ASSUME NEW s \in Schedules
          PROVE  /\ made[s] <= window[s]
                 /\ when[s] = "in" => 0 < window[s] /\ made[s] < window[s]
      <4>1. CASE when[s] = "in"
        BY <4>1 DEF Init
      <4>2. CASE when[s] # "in"
        BY <4>2 DEF Init
      <4> QED  BY <4>1, <4>2
    <3> QED  BY <3>1 DEF ClockInv
  <2> QED  BY <2>1, InitType DEF Init, MarkInv, TodoInv, BusyInv
<1> QED  BY <1>1, TypeStep, MarkStep, PTL DEF Spec

\* A mark comes with a recording only, and goes before its recording is forgotten.
EarnedInv == \A s \in active : 0 < made[s]

\* Every step keeps the marks earned.
LEMMA EarnedStep == TypeOK /\ MarkInv /\ EarnedInv /\ [Next]_vars => EarnedInv'
<1> SUFFICES ASSUME TypeOK, MarkInv, EarnedInv, [Next]_vars PROVE EarnedInv'
  OBVIOUS
<1>1. ASSUME active' \subseteq active, made' = made PROVE EarnedInv'
  BY <1>1 DEF EarnedInv
<1>2. CASE LoopStep
  BY <1>1, <1>2 DEF LoopStep, LeaveWindow, StayActive, StartScheduled
<1>3. CASE ScheduledSaved
  <2>1. /\ busy.schedule \in Schedules /\ busy.window \in Int /\ made[busy.schedule] \in Nat
        /\ made[busy.schedule] < busy.window
    BY <1>3, Bounds, Counts DEF ScheduledSaved, TypeOK, MarkInv, BusyInv
  <2>2. ASSUME NEW s \in active' PROVE 0 < made'[s]
    <3>1. CASE s = busy.schedule
      BY <1>3, <2>1, <3>1 DEF ScheduledSaved, TypeOK
    <3>2. CASE s # busy.schedule
      BY <1>3, <2>2, <3>2 DEF ScheduledSaved, EarnedInv, TypeOK
    <3> QED  BY <3>1, <3>2
  <2> QED  BY <2>2 DEF EarnedInv
<1>4. CASE GatewayRestarts
  BY <1>4 DEF GatewayRestarts, EarnedInv
<1>5. CASE Tick \/ ScheduledFailed \/ DeleteRows \/ ManualBegins \/ ManualEnds
  BY <1>1, <1>5 DEF Tick, ScheduledFailed, DeleteRows, ManualBegins, ManualEnds, loop
<1>6. CASE (\E s \in Schedules : TimePasses(s) \/ EditSchedule(s)) \/ UNCHANGED vars
  BY <1>1, <1>6 DEF TimePasses, EditSchedule, vars, loop
<1> QED  BY <1>2, <1>3, <1>4, <1>5, <1>6 DEF Next

\* A window that is recorded has its mark and a mark has its recording, for any number of
\* schedules and windows and whatever the ticks see late.
THEOREM MarksTrue == Spec => []MarksAreTrue
<1>1. Init => EarnedInv
  BY DEF Init, EarnedInv
<1>2. TypeOK /\ MarkInv /\ EarnedInv => MarksAreTrue
  <2> SUFFICES ASSUME TypeOK, MarkInv, EarnedInv, NEW s \in Schedules
               PROVE  /\ when[s] = "in" /\ made[s] = window[s] => s \in active
                      /\ s \in active => made[s] > 0
    BY DEF MarksAreTrue
  <2>1. made[s] \in Int /\ window[s] \in Int
    BY Counts
  <2>2. when[s] = "in" /\ s \notin active => made[s] < window[s]
    BY DEF MarkInv, ClockInv
  <2> QED  BY <2>1, <2>2 DEF EarnedInv
<1> QED  BY <1>1, <1>2, EarnedStep, MarksInvariant, PTL DEF Spec

\* The recording that the loop saves is the first of its window, however long the
\* recordings before it took and however old the view it went by.
THEOREM RecordedOnce == Spec => OncePerWindow
<1>1. ASSUME TypeOK, MarkInv, [Next]_vars
      PROVE  [(mine \in rows') => busy.window > made[busy.schedule]]_vars
  <2> SUFFICES ASSUME mine \in rows', ~ UNCHANGED vars PROVE busy.window > made[busy.schedule]
    OBVIOUS
  <2>1. mine # None /\ mine \notin rows /\ busy # None
    <3>1. rows' \subseteq Clips
      BY <1>1, TypeStep DEF TypeOK
    <3>2. mine # None
      BY <3>1, Bounds
    <3> QED  BY <1>1, <3>2 DEF TypeOK
  <2>2. busy.schedule \in Schedules /\ busy.window \in Int /\ made[busy.schedule] \in Int
    BY <1>1, <2>1, Counts DEF TypeOK
  <2>3. made[busy.schedule] < busy.window
    BY <1>1, <2>1 DEF MarkInv, BusyInv
  <2> QED  BY <2>2, <2>3
<1> QED  BY <1>1, MarksInvariant, PTL DEF Spec, OncePerWindow

\* A deleted schedule stays deleted: the row written back is never inserted.
THEOREM DeletionsStay == Spec => DeletedStaysDeleted
<1>1. ASSUME TypeOK, [Next]_vars
      PROVE  [\A s \in Schedules : plan[s] = "deleted" => plan'[s] = "deleted"]_vars
  <2> SUFFICES ASSUME NEW s \in Schedules, plan[s] = "deleted" PROVE plan'[s] = "deleted"
    OBVIOUS
  <2>1. CASE UNCHANGED plan
    BY <2>1
  <2>2. CASE ScheduledSaved
    BY <1>1, <2>2 DEF ScheduledSaved, TypeOK
  <2>3. ASSUME NEW t \in Schedules, EditSchedule(t) PROVE plan'[s] = "deleted"
    BY <1>1, <2>3 DEF EditSchedule, TypeOK
  <2>4. CASE UNCHANGED vars
    BY <2>1, <2>4 DEF vars, schedule
  <2> QED  BY <1>1, <2>1, <2>2, <2>3, <2>4
           DEF Next, Tick, DeleteRows, ManualBegins, ManualEnds, GatewayRestarts, LoopStep,
               LeaveWindow, StayActive, StartScheduled, ScheduledFailed, TimePasses, schedule
<1> QED  BY <1>1, MarksInvariant, PTL DEF Spec, DeletedStaysDeleted

------------------------------------------------------------------------------
\* The refinement of RecordingArchive.
archive == <<rows, plan, window, made>>

\* A clip that is saved is new in the list.
LEMMA SavedIsNew ==
  ASSUME TypeOK, NEW c \in Clips, SaveClip(c)
  PROVE  Archive!List(c)
  BY DEF SaveClip, TypeOK, Archive!List

\* What the loop saves is a later window than the last: BusyInv, whatever the clock says now.
LEMMA SavedIsRecorded ==
  ASSUME TypeOK, MarkInv, ScheduledSaved
  PROVE  \E s \in Schedules, c \in Clips : Archive!RecordWindow(s, c)
<1> DEFINE s == busy.schedule
<1>1. busy \in Views /\ s \in Schedules /\ busy.window \in Int /\ made[s] \in Int /\ window[s] \in Int
  BY Counts DEF ScheduledSaved, TypeOK
<1>2. made[s] < busy.window /\ busy.window <= window[s]
  BY DEF ScheduledSaved, MarkInv, BusyInv, ViewInv
<1>3. busy.window \in (made[s] + 1)..window[s]
  BY <1>1, <1>2
<1>4. mine \in Clips /\ Archive!List(mine)
  BY SavedIsNew DEF ScheduledSaved, TypeOK
<1>5. /\ made' = [made EXCEPT ![s] = busy.window]
      /\ plan' \in {plan, [plan EXCEPT ![s] = IF @ = "deleted" THEN @ ELSE "on"]}
      /\ window' = window
  BY DEF ScheduledSaved
<1>6. Archive!RecordWindow(s, mine)
  BY <1>3, <1>4, <1>5 DEF Archive!RecordWindow
<1> QED  BY <1>1, <1>4, <1>6

\* The steps of the handlers and of the container.
LEMMA HandlerIsArchive ==
  ASSUME TypeOK, ManualEnds \/ DeleteRows \/ GatewayRestarts \/ \E s \in Schedules : EditSchedule(s)
  PROVE  [Archive!ArchiveNext]_archive
<1>1. CASE ManualEnds
  <2>1. UNCHANGED <<plan, window, made>>
    BY <1>1 DEF ManualEnds, schedule, loop
  <2>2. PICK c \in Clips : SaveClip(c) \/ FailClip(c)
    BY <1>1 DEF ManualEnds
  <2>3. CASE SaveClip(c)
    BY <2>1, <2>3, SavedIsNew DEF Archive!RecordByHand, Archive!ArchiveNext
  <2>4. CASE FailClip(c)
    BY <2>1, <2>4 DEF FailClip, archive
  <2> QED  BY <2>2, <2>3, <2>4
<1>2. CASE DeleteRows
  BY <1>2 DEF DeleteRows, schedule, loop, Archive!Remove, Archive!ArchiveNext
<1>3. CASE GatewayRestarts
  BY <1>3 DEF GatewayRestarts, schedule, Archive!Restart, Archive!ArchiveNext
<1>4. ASSUME NEW s \in Schedules, EditSchedule(s) PROVE [Archive!ArchiveNext]_archive
  <2>1. Archive!Edit(s)
    BY <1>4 DEF EditSchedule, clips, loop, Archive!Edit
  <2> QED  BY <2>1 DEF Archive!ArchiveNext
<1> QED  BY <1>1, <1>2, <1>3, <1>4

\* The clock begins a window, or moves a schedule out of one unseen.
LEMMA TimeIsArchive ==
  ASSUME TypeOK, NEW s \in Schedules, TimePasses(s)
  PROVE  [Archive!ArchiveNext]_archive
<1>1. UNCHANGED <<rows, plan, made>>
  BY DEF TimePasses, loop, clips
<1>2. window' = [window EXCEPT ![s] = window[s] + 1] \/ window' = window
  BY DEF TimePasses
<1>3. CASE window' = [window EXCEPT ![s] = window[s] + 1]
  <2>1. Archive!WindowBegins(s)
    BY <1>1, <1>3 DEF Archive!WindowBegins
  <2> QED  BY <2>1 DEF Archive!ArchiveNext
<1> QED  BY <1>1, <1>2, <1>3 DEF archive

\* Every step of the recorder is a step of the archive or none.
THEOREM RecorderIsArchive == Spec => ImplementsArchive
<1>1. Init => Archive!ArchiveInit
  BY DEF Init, Archive!ArchiveInit
<1>2. TypeOK /\ MarkInv /\ [Next]_vars => [Archive!ArchiveNext]_(Archive!archiveVars)
  <2> SUFFICES ASSUME TypeOK, MarkInv, [Next]_vars PROVE [Archive!ArchiveNext]_archive
    BY DEF archive, Archive!archiveVars
  <2>1. CASE ScheduledSaved
    BY <2>1, SavedIsRecorded DEF Archive!ArchiveNext
  <2>2. CASE Tick \/ LoopStep \/ ScheduledFailed \/ ManualBegins \/ UNCHANGED vars
    BY <2>2 DEF Tick, LoopStep, LeaveWindow, StayActive, StartScheduled, BeginClip, ScheduledFailed, FailClip,
                ManualBegins, vars, schedule, loop, clips, archive
  <2> QED  BY <2>1, <2>2, HandlerIsArchive, TimeIsArchive DEF Next
<1> QED  BY <1>1, <1>2, MarksInvariant, PTL DEF Spec, ImplementsArchive, Archive!ArchiveSpec
==============================================================================
