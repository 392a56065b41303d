------------------------------- MODULE SlotPool -------------------------------
(***************************************************************************)
(* What the semaphore channel of FFmpegManager promises about the operating *)
(* system's processes.  A slot is always in one of four places: free, with   *)
(* a thread that is launching, bound to a live process, or bound to a        *)
(* process that has ended and is not collected yet.  Capacity slots move     *)
(* between these places and none is lost, made up or shared.                 *)
(***************************************************************************)
EXTENDS Integers

CONSTANTS Owners, Processes, Capacity

VARIABLES
  free,       \* slots nobody has
  launching,  \* threads that have a slot and no process yet
  live,       \* processes that run, each on a slot of its own
  ended       \* processes that have ended and still have their slot

slots == <<free, launching, live, ended>>

PoolInit == free = Capacity /\ launching = {} /\ live = {} /\ ended = {}

\* A slot is taken only while one is free.
Take(o) == /\ free > 0 /\ o \notin launching
           /\ free' = free - 1 /\ launching' = launching \cup {o}
           /\ UNCHANGED <<live, ended>>

\* The launch fails: its slot is free again.
Fail(o) == /\ o \in launching
           /\ launching' = launching \ {o} /\ free' = free + 1
           /\ UNCHANGED <<live, ended>>

\* The launch succeeds: its slot goes to a process that had none.
Launch(o, p) == /\ o \in launching /\ p \notin live \cup ended
                /\ launching' = launching \ {o} /\ live' = live \cup {p}
                /\ UNCHANGED <<free, ended>>

\* Processes end, together if one command kills them; they keep their slots.
End == /\ UNCHANGED <<free, launching>>
       /\ live' \subseteq live
       /\ ended' = ended \cup (live \ live')

\* A process that has ended is collected, and only then is its slot free.
Collect(p) == /\ p \in ended
              /\ ended' = ended \ {p} /\ free' = free + 1
              /\ UNCHANGED <<launching, live>>

PoolNext == \/ End
            \/ \E o \in Owners : Take(o) \/ Fail(o) \/ \E p \in Processes : Launch(o, p)
            \/ \E p \in Processes : Collect(p)

PoolSpec == PoolInit /\ [][PoolNext]_slots
==============================================================================
