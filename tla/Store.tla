-------------------------------- MODULE Store --------------------------------
(***************************************************************************)
(* The SQLite store of the gateway: every operation takes the store's       *)
(* sync.RWMutex, and two operations call other operations of the store      *)
(* while they hold it.  The mutex is modelled with the rules of Go's        *)
(* implementation: a writer that has announced itself waits for the readers *)
(* inside, readers that come after it wait for it, and when it unlocks they *)
(* all enter before the next writer.  The lock serialises the statements of *)
(* an operation, so each operation works on the tables in one step, except  *)
(* ExportAll, which reads them one by one through other operations.         *)
(***************************************************************************)
EXTENDS Integers, Sequences

CONSTANTS
  Threads,    \* request handlers and background loops
  Tables,     \* the tables of a backup, in the order ExportAll lists them
  Rows,       \* rows a table can hold, by id
  Ops,        \* the operations that are called
  None        \* no goroutine

ASSUME ConstantsAssumption ==
  /\ Tables \in Seq({"devices", "recordings", "schedules", "snapshots"}) \ {<<>>}
  /\ Ops \subseteq {"list", "write", "export", "import", "motion"}
  /\ None \notin Threads

VARIABLES
  tables,     \* the rows of each table
  capability, \* does devices have the column capability
  announced,  \* the writer that holds or waits for the mutex
  holds,      \* read locks each goroutine holds
  op,         \* the operation a goroutine is in
  phase,      \* "idle", "lock", "drain", "rlock", "parked", "inside" or "return"
  next,       \* ExportAll: the table it reads next
  got         \* ExportAll: the rows it has read

vars == <<tables, capability, announced, holds, op, phase, next, got>>

Places == DOMAIN Tables

Contents == [Places -> SUBSET Rows]

Nothing == [i \in Places |-> {}]

Init ==
  /\ tables \in Contents
  /\ capability \in BOOLEAN
  /\ announced = None
  /\ holds = [t \in Threads |-> 0]
  /\ op = [t \in Threads |-> "none"]
  /\ phase = [t \in Threads |-> "idle"]
  /\ next = [t \in Threads |-> 1]
  /\ got = [t \in Threads |-> Nothing]

\* What a SELECT returns: reading devices names the column capability, and
\* without it the query fails and the list is empty.
Visible(i) ==
  IF Tables[i] = "devices" /\ ~capability THEN {} ELSE tables[i]

\* What the tables hold after ImportAll has inserted backup b: nine values do
\* not fit a devices table of ten columns, and errors of Exec are dropped.
Restored(b) ==
  [i \in Places |-> IF Tables[i] = "devices" /\ capability THEN {} ELSE b[i]]

------------------------------------------------------------------------------
\* A handler or a loop calls an operation.
Call(t) ==
  /\ phase[t] = "idle"
  /\ \E o \in Ops :
       /\ op' = [op EXCEPT ![t] = o]
       /\ phase' = [phase EXCEPT ![t] = IF o \in {"list", "export"} THEN "rlock" ELSE "lock"]
  /\ UNCHANGED <<tables, capability, announced, holds, next, got>>

\* RWMutex.Lock: announce the writer; readers that come now have to wait.
Lock(t) ==
  /\ phase[t] = "lock"
  /\ announced = None
  /\ announced' = t
  /\ phase' = [phase EXCEPT ![t] = "drain"]
  /\ UNCHANGED <<tables, capability, holds, op, next, got>>

\* RWMutex.Lock returns when the readers inside have left.
Drained(t) ==
  /\ phase[t] = "drain"
  /\ \A u \in Threads : holds[u] = 0
  /\ phase' = [phase EXCEPT ![t] = "inside"]
  /\ UNCHANGED <<tables, capability, announced, holds, op, next, got>>

\* Where a goroutine goes on that is given a read lock: ExportAll takes its
\* own first and calls ListDevices, which takes another.
Entered(t) == IF op[t] = "export" /\ holds[t] = 0 THEN "rlock" ELSE "inside"

\* RWMutex.RLock: enter, or wait when a writer has announced itself.
RLock(t) ==
  /\ phase[t] = "rlock"
  /\ \/ /\ announced = None
        /\ holds' = [holds EXCEPT ![t] = @ + 1]
        /\ phase' = [phase EXCEPT ![t] = Entered(t)]
     \/ /\ announced # None
        /\ phase' = [phase EXCEPT ![t] = "parked"]
        /\ UNCHANGED holds
  /\ UNCHANGED <<tables, capability, announced, op, next, got>>

\* RWMutex.Unlock by the operation of t, which returns: the waiting readers
\* enter.
Unlock(t) ==
  /\ announced' = None
  /\ holds' = [u \in Threads |-> IF phase[u] = "parked" THEN holds[u] + 1 ELSE holds[u]]
  /\ phase' = [u \in Threads |->
                 IF u = t THEN "idle"
                 ELSE IF phase[u] = "parked" THEN Entered(u) ELSE phase[u]]
  /\ op' = [op EXCEPT ![t] = "none"]

------------------------------------------------------------------------------
\* Mutant: the read lock of a list is not given back.
ListReturns_KeepsLock(t) ==
  /\ phase[t] = "inside" /\ op[t] = "list"
  /\ phase' = [phase EXCEPT ![t] = "idle"]
  /\ op' = [op EXCEPT ![t] = "none"]
  /\ UNCHANGED <<tables, capability, announced, holds, next, got>>

\* ListRecordings and the other reads: query, and return with the lock freed.
ListReturns(t) ==
  /\ phase[t] = "inside" /\ op[t] = "list"
  /\ holds' = [holds EXCEPT ![t] = @ - 1]
  /\ phase' = [phase EXCEPT ![t] = "idle"]
  /\ op' = [op EXCEPT ![t] = "none"]
  /\ UNCHANGED <<tables, capability, announced, next, got>>

\* SetDeviceCapability adds the column when the table does not have it.
SetDeviceCapability(t) ==
  /\ phase[t] = "inside" /\ op[t] = "write"
  /\ capability' = TRUE
  /\ Unlock(t)
  /\ UNCHANGED <<tables, next, got>>

\* The operations that insert a row, delete rows or change columns of a table.
Write(t) ==
  /\ phase[t] = "inside" /\ op[t] = "write"
  /\ \E i \in Places :
       \/ \E r \in Rows : tables' = [tables EXCEPT ![i] = @ \cup {r}]
       \/ \E kept \in SUBSET tables[i] : tables' = [tables EXCEPT ![i] = kept]
  /\ Unlock(t)
  /\ UNCHANGED <<capability, next, got>>

\* Mutant: a backup that does not parse is refused with the mutex held.
ImportFails_KeepsLock(t) ==
  /\ phase[t] = "inside" /\ op[t] = "import"
  /\ phase' = [phase EXCEPT ![t] = "idle"]
  /\ op' = [op EXCEPT ![t] = "none"]
  /\ UNCHANGED <<tables, capability, announced, holds, next, got>>

\* ImportAll with a body that does not parse, or without a transaction.
ImportFails(t) ==
  /\ phase[t] = "inside" /\ op[t] = "import"
  /\ Unlock(t)
  /\ UNCHANGED <<tables, capability, next, got>>

\* ImportAll of backup b: clear the tables and insert, in one transaction.
ImportAll(t, b) ==
  /\ phase[t] = "inside" /\ op[t] = "import"
  /\ tables' = Restored(b)
  /\ Unlock(t)
  /\ UNCHANGED <<capability, next, got>>

\* SetMotionConfig calls GetMotionConfig, whose RLock finds the writer t
\* itself announced.
SetMotionConfig(t) ==
  /\ phase[t] = "inside" /\ op[t] = "motion"
  /\ phase' = [phase EXCEPT ![t] = "parked"]
  /\ UNCHANGED <<tables, capability, announced, holds, op, next, got>>

\* Mutant: ExportAll has no lock of its own, only those of the lists it calls.
ExportTable_OwnLockOnly(t) ==
  /\ phase[t] = "inside" /\ op[t] = "export"
  /\ got' = [got EXCEPT ![t][next[t]] = Visible(next[t])]
  /\ next' = [next EXCEPT ![t] = @ + 1]
  /\ holds' = [holds EXCEPT ![t] = IF next[t] < Len(Tables) THEN 0 ELSE 1]
  /\ phase' = [phase EXCEPT ![t] = IF next[t] < Len(Tables) THEN "rlock" ELSE "return"]
  /\ UNCHANGED <<tables, capability, announced, op>>

\* ExportAll: the list of the next table, which frees the inner read lock; the
\* next list takes it again.
ExportTable(t) ==
  /\ phase[t] = "inside" /\ op[t] = "export"
  /\ got' = [got EXCEPT ![t][next[t]] = Visible(next[t])]
  /\ next' = [next EXCEPT ![t] = @ + 1]
  /\ holds' = [holds EXCEPT ![t] = @ - 1]
  /\ phase' = [phase EXCEPT ![t] = IF next[t] < Len(Tables) THEN "rlock" ELSE "return"]
  /\ UNCHANGED <<tables, capability, announced, op>>

\* ExportAll returns the backup and frees its own read lock.
ExportReturns(t) ==
  /\ phase[t] = "return"
  /\ holds' = [holds EXCEPT ![t] = @ - 1]
  /\ phase' = [phase EXCEPT ![t] = "idle"]
  /\ op' = [op EXCEPT ![t] = "none"]
  /\ next' = [next EXCEPT ![t] = 1]
  /\ got' = [got EXCEPT ![t] = Nothing]
  /\ UNCHANGED <<tables, capability, announced>>

------------------------------------------------------------------------------
\* The steps of a goroutine inside an operation.
Step(t) ==
  \/ Lock(t) \/ Drained(t) \/ RLock(t)
  \/ ListReturns(t) \/ Write(t) \/ SetDeviceCapability(t)
  \/ ImportFails(t) \/ \E b \in Contents : ImportAll(t, b)
  \/ SetMotionConfig(t)
  \/ ExportTable(t) \/ ExportReturns(t)

Next == \E t \in Threads : Call(t) \/ Step(t)

Spec == Init /\ [][Next]_vars

\* A goroutine goes on while it can, and a writer that waits for its turn gets
\* it: sync.Mutex hands itself to the longest waiter.
FairSpec ==
  /\ Spec
  /\ \A t \in Threads : WF_vars(Step(t)) /\ SF_vars(Lock(t))

------------------------------------------------------------------------------
\* Type correctness; a goroutine holds at most two read locks.
TypeOK ==
  /\ tables \in Contents
  /\ capability \in BOOLEAN
  /\ announced \in Threads \cup {None}
  /\ holds \in [Threads -> 0..2]
  /\ op \in [Threads -> Ops \cup {"none"}]
  /\ phase \in [Threads -> {"idle", "lock", "drain", "rlock", "parked", "inside", "return"}]
  /\ next \in [Threads -> 1..Len(Tables) + 1]
  /\ got \in [Threads -> Contents]

\* A backup shows all tables at one moment, whatever is written while ExportAll
\* reads them one after the other.
BackupIsSnapshot ==
  \A t \in Threads : phase[t] = "return" => \A i \in Places : got[t][i] = Visible(i)

\* The locks are not seen from outside: the store implements one whose operations take
\* effect in single steps, a backup when ExportAll has read its last table.
Atomic ==
  INSTANCE AtomicStore WITH
    shown  <- [i \in Places |-> Visible(i)],
    doing  <- [t \in Threads |-> IF phase[t] = "return" THEN "return" ELSE op[t]],
    backup <- [t \in Threads |-> IF phase[t] = "return" THEN got[t] ELSE Nothing]

\* Callers cannot tell the store from one without concurrency inside: whatever the
\* mutex lets happen between the parts of an operation, the tables and the backups
\* are those of AtomicStore.
ImplementsAtomic == Atomic!AtomicSpec

\* A goroutine waits for a lock that its own lock keeps it from getting.
Reentry ==
  \E t \in Threads : phase[t] = "parked" /\ (announced = t \/ holds[t] > 0)

\* A goroutine in an operation that the mutex lets go on.
CanStep(t) ==
  \/ phase[t] = "lock" /\ announced = None
  \/ phase[t] = "drain" /\ \A u \in Threads : holds[u] = 0
  \/ phase[t] \in {"rlock", "inside", "return"}

\* The store deadlocks in no other way than by re-entry: without it, every operation
\* that has to wait does so for an announced writer that can go on, or for one that
\* drains a reader that can.
WaitsForRunner ==
  \/ Reentry
  \/ \A t \in Threads :
       \/ phase[t] = "idle"
       \/ CanStep(t)
       \/ /\ announced \in Threads
          /\ \/ CanStep(announced)
             \/ /\ phase[announced] = "drain"
                /\ \E u \in Threads : holds[u] > 0 /\ CanStep(u)

\* Every operation returns, or the store has locked itself: no order of calls,
\* errors and waiting writers hangs an operation in any other way.
HangsOnlyByReentry ==
  \A t \in Threads : phase[t] # "idle" ~> phase[t] = "idle" \/ Reentry

\* Every operation returns, as the API of the gateway promises of the motion
\* configuration and the backup.
OpsReturn ==
  \A t \in Threads : phase[t] # "idle" ~> phase[t] = "idle"
==============================================================================
