------------------------------ MODULE Recorder ------------------------------
(***************************************************************************)
(* Recordings of the gateway: the scheduler goroutine with its map of       *)
(* active schedules, the recordings it and the request handlers make, the   *)
(* rows they leave, and the two ways of deleting them.  A recording is made *)
(* inside the loop of the scheduler, for minutes, while the clock and the   *)
(* user go on; the loop keeps the rows and the time it read when the tick   *)
(* began.  The code drops the errors of its INSERT, UPDATE and DELETE, so   *)
(* each of them may leave the table as it was.  The files are left out: no  *)
(* row is sure of its own.  Two recordings of a device in one second write  *)
(* the same file, and the files of a deletion go even when its rows stay.   *)
(***************************************************************************)
EXTENDS Integers

CONSTANTS
  Schedules,   \* rows of the table schedules
  Clips,       \* recordings (bound on those that exist at one time)
  MaxWindows,  \* bound on the windows of a schedule that are explored
  None         \* no schedule, no clip

VARIABLES
  plan,      \* a schedule's row: enabled, disabled or deleted
  when,      \* the clock seen from a schedule: in its window, out of it, or another day
  window,    \* how many windows of a schedule have begun
  todo,      \* what the tick has still to look at: schedules as they were when it began
  active,    \* the map active of startScheduler
  busy,      \* what the scheduler is recording, as it was then, or None
  made,      \* the last window of a schedule that this run of the gateway recorded
  mine,      \* the clip the scheduler is recording, or None
  writing,   \* clips that an ffmpeg is writing
  rows       \* clips with a row in the table recordings

schedule == <<plan, when, window>>
loop     == <<todo, active, busy, made, mine>>
clips    == <<writing, rows>>
vars     == <<schedule, loop, clips>>

Views == [schedule : Schedules, when : {"in", "out", "other"}, window : 0..MaxWindows]

ASSUME ConstantsAssumption ==
  MaxWindows \in Nat \ {0} /\ None \notin Clips \cup Views

View(s) == [schedule |-> s, when |-> when[s], window |-> window[s]]

Init ==
  /\ plan \in [Schedules -> {"on", "off"}]
  /\ when \in [Schedules -> {"in", "out", "other"}]
  /\ window = [s \in Schedules |-> IF when[s] = "in" THEN 1 ELSE 0]
  /\ todo = {}
  /\ active = {} /\ busy = None
  /\ made = [s \in Schedules |-> 0]
  /\ mine = None
  /\ writing = {} /\ rows = {}

------------------------------------------------------------------------------
\* StartRecording, called by the scheduler and by the handler.

\* A clip that nothing refers to.
Free(c) == c \notin writing \cup rows

\* ffmpeg starts to write.
BeginClip(c) == Free(c) /\ writing' = writing \cup {c} /\ UNCHANGED rows

\* Mutant: the row is added while ffmpeg still writes.
SaveClip_Early(c) == c \in writing /\ rows' = rows \cup {c} /\ UNCHANGED writing

\* The recording is complete and its row is added, unless the INSERT fails unseen.
SaveClip(c) ==
  /\ c \in writing
  /\ writing' = writing \ {c} /\ rows' \in {rows, rows \cup {c}}

\* ffmpeg or the stat fails: there is no row, whatever ffmpeg wrote.
FailClip(c) == c \in writing /\ writing' = writing \ {c} /\ UNCHANGED rows

\* handleRecordings, POST.
ManualBegins == /\ \E c \in Clips : BeginClip(c)
                /\ UNCHANGED <<schedule, loop>>

ManualEnds == /\ \E c \in Clips \ {mine} : SaveClip(c) \/ FailClip(c)
              /\ UNCHANGED <<schedule, loop>>

------------------------------------------------------------------------------
\* startScheduler.

\* A tick reads the clock and the rows.
Tick ==
  /\ todo = {} /\ busy = None
  /\ todo' = {View(s) : s \in {t \in Schedules : plan[t] = "on"}}
  /\ UNCHANGED <<schedule, active, busy, made, mine, clips>>

\* A schedule out of its window loses its mark; one of another day is passed over.
LeaveWindow(v) ==
  /\ v.when # "in"
  /\ todo' = todo \ {v}
  /\ active' = IF v.when = "out" THEN active \ {v.schedule} ELSE active
  /\ UNCHANGED <<schedule, busy, made, mine, clips>>

\* A schedule in its window that has its mark is passed over.
StayActive(v) ==
  /\ v.when = "in" /\ v.schedule \in active
  /\ todo' = todo \ {v}
  /\ UNCHANGED <<schedule, active, busy, made, mine, clips>>

\* A schedule in its window without a mark is recorded by the loop itself.
StartScheduled(v) ==
  /\ v.when = "in" /\ v.schedule \notin active
  /\ todo' = todo \ {v} /\ busy' = v
  /\ \E c \in Clips : BeginClip(c) /\ mine' = c
  /\ UNCHANGED <<schedule, active, made>>

LoopStep == /\ busy = None
            /\ \E v \in todo : LeaveWindow(v) \/ StayActive(v) \/ StartScheduled(v)

\* Mutant: the mark is forgotten.
ScheduledSaved_NoMark ==
  /\ busy # None /\ SaveClip(mine)
  /\ made' = [made EXCEPT ![busy.schedule] = busy.window]
  /\ busy' = None /\ mine' = None
  /\ UNCHANGED <<schedule, todo, active>>

\* Mutant: the row is inserted or replaced.
ScheduledSaved_Upsert ==
  /\ busy # None /\ SaveClip(mine)
  /\ active' = active \cup {busy.schedule}
  /\ made' = [made EXCEPT ![busy.schedule] = busy.window]
  /\ plan' = [plan EXCEPT ![busy.schedule] = "on"]
  /\ busy' = None /\ mine' = None
  /\ UNCHANGED <<when, window, todo>>

\* The recording succeeds: the schedule is marked and the row that the tick read, which
\* was enabled, is written back over what the user made of it, unless it is deleted or
\* the UPDATE fails unseen.  (The times of the row go back too: the clock may then look
\* different to it, which TimePasses allows at any moment.)
ScheduledSaved ==
  /\ busy # None /\ SaveClip(mine)
  /\ active' = active \cup {busy.schedule}
  /\ made' = [made EXCEPT ![busy.schedule] = busy.window]
  /\ plan' \in {plan, [plan EXCEPT ![busy.schedule] = IF @ = "deleted" THEN @ ELSE "on"]}
  /\ busy' = None /\ mine' = None
  /\ UNCHANGED <<when, window, todo>>

\* Mutant: a recording that failed is marked too.
ScheduledFailed_Marks ==
  /\ busy # None /\ FailClip(mine)
  /\ active' = active \cup {busy.schedule}
  /\ busy' = None /\ mine' = None
  /\ UNCHANGED <<schedule, todo, made>>

\* The recording fails, at once when the device does not exist; the next tick tries again.
ScheduledFailed ==
  /\ busy # None /\ FailClip(mine)
  /\ busy' = None /\ mine' = None
  /\ UNCHANGED <<schedule, todo, active, made>>

------------------------------------------------------------------------------
\* Deletion, by hand and by age: DeleteRecording and DeleteOldRecordings.

\* The rows are deleted, unless the DELETE fails unseen.
DeleteRows ==
  /\ \E C \in SUBSET rows \ {{}} : rows' = rows \ C
  /\ UNCHANGED <<schedule, loop, writing>>

------------------------------------------------------------------------------
\* The clock, the user and the container.

\* The clock moves a schedule into a window, out of it or to another day.
TimePasses(s) ==
  /\ \E w \in {"in", "out", "other"} \ {when[s]} :
       /\ when' = [when EXCEPT ![s] = w]
       /\ window' = IF w = "in" THEN [window EXCEPT ![s] = @ + 1] ELSE window
  /\ window'[s] <= MaxWindows
  /\ UNCHANGED <<plan, loop, clips>>

\* handleScheduleByID, PUT and DELETE.  (A new schedule is one that was off before.)
EditSchedule(s) ==
  /\ plan[s] # "deleted"
  /\ \E p \in {"on", "off", "deleted"} : plan' = [plan EXCEPT ![s] = p]
  /\ UNCHANGED <<when, window, loop, clips>>

\* The container is restarted: every ffmpeg ends with the gateway, and the tables stay as
\* they are.
GatewayRestarts ==
  /\ todo' = {} /\ active' = {} /\ busy' = None /\ mine' = None
  /\ made' = [s \in Schedules |-> 0]
  /\ writing' = {}
  /\ UNCHANGED <<schedule, rows>>

------------------------------------------------------------------------------
Next ==
  \/ Tick \/ DeleteRows \/ ManualBegins \/ ManualEnds \/ GatewayRestarts
  \/ LoopStep \/ ScheduledSaved \/ ScheduledFailed
  \/ \E s \in Schedules : TimePasses(s) \/ EditSchedule(s)

\* The ticker ticks and the loop goes on.  Nothing bounds a recording: cmd.Run waits for
\* ffmpeg without a timeout, and a camera that stalls keeps the only scheduler goroutine.
Fairness == WF_vars(Tick) /\ WF_vars(LoopStep)

Spec == Init /\ [][Next]_vars
FairSpec == Spec /\ Fairness

------------------------------------------------------------------------------
\* Properties.

\* Every variable has its type; the loop records exactly when a clip of its own is being
\* written; and no clip is listed while it is being written.
TypeOK ==
  /\ plan \in [Schedules -> {"on", "off", "deleted"}]
  /\ when \in [Schedules -> {"in", "out", "other"}]
  /\ window \in [Schedules -> 0..MaxWindows]
  /\ todo \subseteq Views
  /\ active \subseteq Schedules
  /\ busy \in Views \cup {None}
  /\ made \in [Schedules -> 0..MaxWindows]
  /\ mine \in Clips \cup {None}
  /\ writing \subseteq Clips /\ rows \subseteq Clips
  /\ (busy = None) = (mine = None) /\ (mine # None => mine \in writing)
  /\ writing \cap rows = {}

\* One recording per window: the loop, however long its recordings block it and however
\* stale the clock it goes by, does not make a second one for the same window.
OncePerWindow ==
  [][(mine \in rows') => busy.window > made[busy.schedule]]_vars

\* The marks are all the loop knows of what it has done, and they tell the truth: a schedule
\* whose present window is recorded has its mark, so that no tick, however old its view,
\* records it again; and a mark is never there without a recording, so that no failure and
\* no restart keeps the loop from one.
MarksAreTrue ==
  \A s \in Schedules :
    /\ when[s] = "in" /\ made[s] = window[s] => s \in active
    /\ s \in active => made[s] > 0

\* A schedule that the user deletes stays deleted, though the loop writes back the row it
\* read before a recording of minutes.
DeletedStaysDeleted ==
  [][\A s \in Schedules : plan[s] = "deleted" => plan'[s] = "deleted"]_vars

\* The user cannot tell the recorder from one whose recordings take no time: ticks that
\* block on a recording, marks that are kept or lost and views and rows of the past are
\* steps of RecordingArchive or no steps at all.
Archive == INSTANCE RecordingArchive WITH listed <- rows, begun <- window, done <- made
ImplementsArchive == Archive!ArchiveSpec

\* Failures are retried: once recordings succeed, a schedule that stays enabled and in its
\* first window is recorded, whatever failed before and however long the loop is kept by
\* others, provided that it is not kept for ever: []<>(busy = None) is what a camera that
\* stalls takes away from every schedule.  (Of a later window this is not true: see
\* LeaveWindow, which leaves the mark of an earlier one on a schedule that is not looked
\* at between the two.)
FirstWindowRecorded ==
  \A s \in Schedules :
    ( /\ <>[](plan[s] = "on" /\ when[s] = "in") /\ [](window[s] <= 1)
      /\ []<>(busy = None) /\ <>[](busy = None => \E c \in Clips : Free(c))
      /\ <>[][~GatewayRestarts /\ ~ScheduledFailed]_vars )
    => <>(made[s] = 1)
==============================================================================
