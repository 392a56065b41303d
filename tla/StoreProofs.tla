----------------------------- MODULE StoreProofs -----------------------------
(***************************************************************************)
(* Safety of Store for any number of goroutines, tables and rows.           *)
(***************************************************************************)
EXTENDS Store, TLAPS

Writers == {"write", "import", "motion"}

\* What the phase of a goroutine says of its operation and its read locks.
HoldsMatch(t) ==
  /\ phase[t] \in {"idle", "lock", "drain"} => holds[t] = 0
  /\ phase[t] \in {"lock", "drain"} => op[t] \in Writers
  /\ phase[t] = "rlock" => op[t] \in {"list", "export"}
  /\ phase[t] = "parked" => op[t] \in {"list", "export", "motion"}
  /\ phase[t] \in {"rlock", "parked"} /\ op[t] # "export" => holds[t] = 0
  /\ phase[t] = "inside" => op[t] # "none"
  /\ phase[t] = "inside" /\ op[t] = "list" => holds[t] = 1
  /\ phase[t] = "inside" /\ op[t] \in Writers => holds[t] = 0

\* How far ExportAll of t is, and the read locks it holds there.
ExportMatch(t) ==
  /\ op[t] # "export" => next[t] = 1
  /\ phase[t] = "return" => op[t] = "export" /\ holds[t] = 1 /\ next[t] = Len(Tables) + 1
  /\ op[t] = "export" /\ phase[t] \in {"rlock", "parked"} =>
       /\ holds[t] \in {0, 1}
       /\ next[t] <= Len(Tables)
       /\ next[t] > 1 => holds[t] = 1
  /\ op[t] = "export" /\ phase[t] = "inside" => holds[t] = 2 /\ next[t] <= Len(Tables)
  /\ op[t] = "export" => phase[t] \in {"rlock", "parked", "inside", "return"}

\* A writer that waits or works is the announced one.
WriterAnnounced(t) ==
  /\ phase[t] = "drain" => announced = t
  /\ phase[t] \in {"inside", "parked"} /\ op[t] \in Writers => announced = t

\* A writer works alone.
WriterAlone(t) ==
  phase[t] \in {"inside", "parked"} /\ op[t] \in Writers => \A u \in Threads : holds[u] = 0

\* What ExportAll has read is what the tables show now.
ReadIsCurrent(t) ==
  op[t] = "export" => \A i \in Places : i < next[t] => got[t][i] = Visible(i)

LockInv ==
  /\ TypeOK
  /\ \A t \in Threads :
       HoldsMatch(t) /\ ExportMatch(t) /\ WriterAnnounced(t) /\ WriterAlone(t)

IInv == LockInv /\ \A t \in Threads : ReadIsCurrent(t)

\* The places of the tables are 1 to their number, which is not zero.
LEMMA PlacesAre == Len(Tables) \in Nat \ {0} /\ Places = 1..Len(Tables)
  BY ConstantsAssumption DEF ConstantsAssumption, Places

\* The initial state satisfies the invariant.
LEMMA InitInv == Init => IInv
<1> SUFFICES ASSUME Init PROVE IInv
  OBVIOUS
<1>1. TypeOK
  BY PlacesAre DEF Init, TypeOK, Contents, Nothing
<1>2. ASSUME NEW t \in Threads
      PROVE  /\ HoldsMatch(t) /\ ExportMatch(t) /\ WriterAnnounced(t) /\ WriterAlone(t)
             /\ ReadIsCurrent(t)
  BY DEF Init, HoldsMatch, ExportMatch, WriterAnnounced, WriterAlone, ReadIsCurrent, Writers
<1> QED  BY <1>1, <1>2 DEF IInv, LockInv

\* The steps of the mutex and of the operations, apart from those that unlock
\* a writer, keep the lock invariant.
LEMMA CallLock ==
  ASSUME LockInv, NEW t \in Threads, Call(t)
  PROVE  LockInv'
<1> USE DEF LockInv, HoldsMatch, ExportMatch, WriterAnnounced, WriterAlone
<1>0. PICK o \in Ops : op' = [op EXCEPT ![t] = o] /\ phase' = [phase EXCEPT ![t] = IF o \in {"list", "export"} THEN "rlock" ELSE "lock"]
  BY DEF Call
<1>1. TypeOK'
  BY <1>0 DEF Call, TypeOK
<1>2. holds[t] = 0 /\ op[t] # "export" /\ next[t] = 1
  BY DEF Call
<1>3. o \in {"list", "export"} \cup Writers
  BY ConstantsAssumption DEF ConstantsAssumption, Writers
<1>4. ASSUME NEW u \in Threads
      PROVE  (HoldsMatch(u) /\ ExportMatch(u) /\ WriterAnnounced(u) /\ WriterAlone(u))'
  BY <1>0, <1>2, <1>3, PlacesAre DEF Call, TypeOK, Writers
<1> QED  BY <1>1, <1>4

\* Lock, Drained and RLock keep the lock invariant.
LEMMA MutexLock ==
  ASSUME LockInv, NEW t \in Threads, Lock(t) \/ Drained(t) \/ RLock(t)
  PROVE  LockInv'
<1> USE DEF LockInv, HoldsMatch, ExportMatch, WriterAnnounced, WriterAlone
<1>1. CASE Lock(t)
  <2>1. TypeOK'
    BY <1>1 DEF Lock, TypeOK
  <2>2. ASSUME NEW u \in Threads
        PROVE  (HoldsMatch(u) /\ ExportMatch(u) /\ WriterAnnounced(u) /\ WriterAlone(u))'
    BY <1>1, ConstantsAssumption DEF ConstantsAssumption, Lock, TypeOK, Writers
  <2> QED  BY <2>1, <2>2
<1>2. CASE Drained(t)
  <2>1. TypeOK'
    BY <1>2 DEF Drained, TypeOK
  <2>2. ASSUME NEW u \in Threads
        PROVE  (HoldsMatch(u) /\ ExportMatch(u) /\ WriterAnnounced(u) /\ WriterAlone(u))'
    BY <1>2 DEF Drained, TypeOK, Writers
  <2> QED  BY <2>1, <2>2
<1>3. CASE RLock(t) /\ announced = None
  <2>0. /\ holds' = [holds EXCEPT ![t] = @ + 1]
        /\ phase' = [phase EXCEPT ![t] = Entered(t)]
        /\ op[t] \in {"list", "export"} /\ holds[t] \in {0, 1}
        /\ op[t] = "list" => holds[t] = 0
    BY <1>3 DEF RLock
  <2>1. TypeOK'
    BY <1>3, <2>0 DEF RLock, TypeOK, Entered
  <2>2. ASSUME NEW u \in Threads
        PROVE  (HoldsMatch(u) /\ ExportMatch(u) /\ WriterAnnounced(u) /\ WriterAlone(u))'
    BY <1>3, <2>0, ConstantsAssumption, PlacesAre DEF ConstantsAssumption, RLock, TypeOK, Writers, Entered
  <2> QED  BY <2>1, <2>2
<1>4. CASE RLock(t) /\ announced # None
  <2>1. TypeOK'
    BY <1>4 DEF RLock, TypeOK
  <2>2. ASSUME NEW u \in Threads
        PROVE  (HoldsMatch(u) /\ ExportMatch(u) /\ WriterAnnounced(u) /\ WriterAlone(u))'
    BY <1>4 DEF RLock, TypeOK, Writers
  <2> QED  BY <2>1, <2>2
<1> QED  BY <1>1, <1>2, <1>3, <1>4

\* The reads, ExportAll and SetMotionConfig keep the lock invariant.
LEMMA ReadLock ==
  ASSUME LockInv, NEW t \in Threads,
         ListReturns(t) \/ ExportTable(t) \/ ExportReturns(t) \/ SetMotionConfig(t)
  PROVE  LockInv'
<1> USE DEF LockInv, HoldsMatch, ExportMatch, WriterAnnounced, WriterAlone
<1>1. CASE ListReturns(t)
  <2>1. TypeOK'
    BY <1>1 DEF ListReturns, TypeOK
  <2>2. ASSUME NEW u \in Threads
        PROVE  (HoldsMatch(u) /\ ExportMatch(u) /\ WriterAnnounced(u) /\ WriterAlone(u))'
    BY <1>1 DEF ListReturns, TypeOK, Writers
  <2> QED  BY <2>1, <2>2
<1>2. CASE ExportTable(t)
  <2>0. next[t] \in Places /\ Visible(next[t]) \in SUBSET Rows
    BY <1>2, PlacesAre DEF ExportTable, TypeOK, Visible, Contents
  <2>1. TypeOK'
    <3>1. got' \in [Threads -> Contents]
      BY <1>2, <2>0 DEF ExportTable, TypeOK, Contents
    <3>2. next' \in [Threads -> 1..Len(Tables) + 1]
      BY <1>2, <2>0, PlacesAre DEF ExportTable, TypeOK
    <3> QED  BY <1>2, <3>1, <3>2 DEF ExportTable, TypeOK
  <2>2. ASSUME NEW u \in Threads
        PROVE  (HoldsMatch(u) /\ ExportMatch(u) /\ WriterAnnounced(u) /\ WriterAlone(u))'
    <3>1. holds[t] = 2 /\ next[t] <= Len(Tables) /\ op[t] = "export"
      BY <1>2 DEF ExportTable
    <3>2. CASE u = t
      BY <1>2, <3>1, <3>2, PlacesAre DEF ExportTable, TypeOK, Writers
    <3>3. CASE u # t
      BY <1>2, <3>1, <3>3 DEF ExportTable, TypeOK, Writers
    <3> QED  BY <3>2, <3>3
  <2> QED  BY <2>1, <2>2
<1>3. CASE ExportReturns(t)
  <2>1. TypeOK'
    BY <1>3, PlacesAre DEF ExportReturns, TypeOK, Contents, Nothing
  <2>2. ASSUME NEW u \in Threads
        PROVE  (HoldsMatch(u) /\ ExportMatch(u) /\ WriterAnnounced(u) /\ WriterAlone(u))'
    BY <1>3 DEF ExportReturns, TypeOK, Writers
  <2> QED  BY <2>1, <2>2
<1>4. CASE SetMotionConfig(t)
  <2>1. TypeOK'
    BY <1>4 DEF SetMotionConfig, TypeOK
  <2>2. ASSUME NEW u \in Threads
        PROVE  (HoldsMatch(u) /\ ExportMatch(u) /\ WriterAnnounced(u) /\ WriterAlone(u))'
    BY <1>4 DEF SetMotionConfig, TypeOK, Writers
  <2> QED  BY <2>1, <2>2
<1> QED  BY <1>1, <1>2, <1>3, <1>4

\* A writer that unlocks lets readers in that hold nothing: an operation that
\* held a read lock would have kept the writer from working.
LEMMA UnlockLock ==
  ASSUME LockInv, NEW t \in Threads, phase[t] = "inside", op[t] \in Writers, Unlock(t),
         tables' \in Contents, capability' \in BOOLEAN, UNCHANGED <<next, got>>
  PROVE  LockInv'
<1> USE DEF LockInv, HoldsMatch, ExportMatch, WriterAnnounced, WriterAlone
<1>1. announced = t /\ \A u \in Threads : holds[u] = 0
  OBVIOUS
<1>2. \A u \in Threads : u # t => ~(phase[u] \in {"inside", "parked"} /\ op[u] \in Writers) /\ phase[u] # "drain"
  BY <1>1
<1>3. TypeOK'
  <2>1. holds' \in [Threads -> 0..2]
    BY <1>1 DEF Unlock, TypeOK
  <2>2. phase' \in [Threads -> {"idle", "lock", "drain", "rlock", "parked", "inside", "return"}]
    BY DEF Unlock, TypeOK, Entered
  <2>3. op' \in [Threads -> Ops \cup {"none"}]
    BY DEF Unlock, TypeOK
  <2> QED  BY <2>1, <2>2, <2>3 DEF Unlock, TypeOK
<1>4. ASSUME NEW u \in Threads
      PROVE  (HoldsMatch(u) /\ ExportMatch(u) /\ WriterAnnounced(u) /\ WriterAlone(u))'
  <2>0. holds[u] = 0 /\ holds'[u] = (IF phase[u] = "parked" THEN 1 ELSE 0)
    BY <1>1 DEF Unlock, TypeOK
  <2>1. CASE u = t
    BY <2>0, <2>1 DEF Unlock, TypeOK, Writers
  <2>2. CASE u # t /\ phase[u] = "parked"
    <3>1. op[u] \in {"list", "export"} /\ op'[u] = op[u] /\ next'[u] = next[u]
      BY <1>2, <2>2 DEF Unlock, TypeOK, Writers
    <3>2. phase'[u] = (IF op[u] = "export" THEN "rlock" ELSE "inside")
      BY <2>0, <2>2 DEF Unlock, TypeOK, Entered
    <3> QED  BY <2>0, <2>2, <3>1, <3>2, PlacesAre DEF TypeOK, Writers
  <2>3. CASE u # t /\ phase[u] # "parked"
    BY <1>2, <2>0, <2>3 DEF Unlock, TypeOK, Writers
  <2> QED  BY <2>1, <2>2, <2>3
<1> QED  BY <1>3, <1>4

\* A backup fits the tables.
LEMMA RestoredType == ASSUME NEW b \in Contents PROVE Restored(b) \in Contents
  BY DEF Restored, Contents

\* The writing operations unlock at their end.
LEMMA WriterUnlocks ==
  ASSUME LockInv, NEW t \in Threads,
         Write(t) \/ SetDeviceCapability(t) \/ ImportFails(t) \/ \E b \in Contents : ImportAll(t, b)
  PROVE  /\ phase[t] = "inside" /\ op[t] \in Writers /\ Unlock(t)
         /\ tables' \in Contents /\ capability' \in BOOLEAN /\ UNCHANGED <<next, got>>
<1>1. CASE Write(t)
  <2>1. tables \in [Places -> SUBSET Rows]
    BY DEF LockInv, TypeOK, Contents
  <2>2. PICK i \in Places, s \in SUBSET Rows : tables' = [tables EXCEPT ![i] = s]
    <3>1. PICK i \in Places :
            \/ \E r \in Rows : tables' = [tables EXCEPT ![i] = @ \cup {r}]
            \/ \E kept \in SUBSET tables[i] : tables' = [tables EXCEPT ![i] = kept]
      BY <1>1 DEF Write
    <3>2. tables[i] \in SUBSET Rows
      BY <2>1
    <3>3. ASSUME NEW r \in Rows, tables' = [tables EXCEPT ![i] = @ \cup {r}]
          PROVE  \E s \in SUBSET Rows : tables' = [tables EXCEPT ![i] = s]
      <4>1. tables[i] \cup {r} \in SUBSET Rows
        BY <3>2
      <4> QED  BY <3>3, <4>1
    <3>4. ASSUME NEW kept \in SUBSET tables[i], tables' = [tables EXCEPT ![i] = kept]
          PROVE  \E s \in SUBSET Rows : tables' = [tables EXCEPT ![i] = s]
      <4>1. kept \in SUBSET Rows
        BY <3>2
      <4> QED  BY <3>4, <4>1
    <3> QED  BY <3>1, <3>3, <3>4
  <2>3. tables' \in Contents
    BY <2>1, <2>2 DEF Contents
  <2>4. capability' \in BOOLEAN
    BY <1>1 DEF Write, LockInv, TypeOK
  <2> QED  BY <1>1, <2>3, <2>4 DEF Write, Writers
<1>2. CASE ImportFails(t)
  BY <1>2 DEF ImportFails, Writers, LockInv, TypeOK
<1>4. CASE SetDeviceCapability(t)
  BY <1>4 DEF SetDeviceCapability, Writers, LockInv, TypeOK
<1>3. ASSUME NEW b \in Contents, ImportAll(t, b)
      PROVE  /\ phase[t] = "inside" /\ op[t] \in Writers /\ Unlock(t)
             /\ tables' \in Contents /\ capability' \in BOOLEAN /\ UNCHANGED <<next, got>>
  BY <1>3, RestoredType DEF ImportAll, Writers, LockInv, TypeOK
<1> QED  BY <1>1, <1>2, <1>3, <1>4

\* Every step keeps the lock invariant.
LEMMA LockStep == LockInv /\ [Next]_vars => LockInv'
<1> SUFFICES ASSUME LockInv, [Next]_vars PROVE LockInv'
  OBVIOUS
<1>1. CASE UNCHANGED vars
  BY <1>1 DEF vars, LockInv, TypeOK, HoldsMatch, ExportMatch, WriterAnnounced, WriterAlone
<1>2. ASSUME NEW t \in Threads, Call(t) \/ Step(t) PROVE LockInv'
  <2>1. CASE Call(t)
    BY <2>1, CallLock
  <2>2. CASE Lock(t) \/ Drained(t) \/ RLock(t)
    BY <2>2, MutexLock
  <2>3. CASE ListReturns(t) \/ ExportTable(t) \/ ExportReturns(t) \/ SetMotionConfig(t)
    BY <2>3, ReadLock
  <2>4. CASE Write(t) \/ SetDeviceCapability(t) \/ ImportFails(t) \/ \E b \in Contents : ImportAll(t, b)
    BY <2>4, WriterUnlocks, UnlockLock
  <2> QED  BY <1>2, <2>1, <2>2, <2>3, <2>4 DEF Step
<1> QED  BY <1>1, <1>2 DEF Next

\* What ExportAll has read stays current: the tables change only while nobody
\* holds a read lock, and ExportAll holds one from its first table on.
LEMMA CurrentStep ==
  IInv /\ [Next]_vars => \A u \in Threads : ReadIsCurrent(u)'
<1> SUFFICES ASSUME IInv, [Next]_vars, NEW u \in Threads PROVE ReadIsCurrent(u)'
  OBVIOUS
<1> USE DEF IInv, ReadIsCurrent
<1>1. CASE UNCHANGED <<tables, capability, next, got>> /\ (op'[u] = "export" => op[u] = "export" \/ next[u] = 1)
  <2>1. \A i \in Places : Visible(i)' = Visible(i)
    BY <1>1 DEF Visible
  <2>2. \A i \in Places : i < 1 => FALSE
    BY PlacesAre
  <2> QED  BY <1>1, <2>1, <2>2
<1>2. CASE UNCHANGED vars
  BY <1>1, <1>2 DEF vars
<1>3. ASSUME NEW t \in Threads, Call(t) \/ Step(t) PROVE ReadIsCurrent(u)'
  <2>1. CASE Call(t)
    <3>1. op'[u] = "export" => op[u] = "export" \/ next[u] = 1
      BY <2>1 DEF Call, LockInv, TypeOK, ExportMatch
    <3> QED  BY <1>1, <2>1, <3>1 DEF Call
  <2>2. CASE Lock(t) \/ Drained(t) \/ RLock(t) \/ SetMotionConfig(t)
    BY <1>1, <2>2 DEF Lock, Drained, RLock, SetMotionConfig
  <2>3. CASE ListReturns(t)
    BY <1>1, <2>3 DEF ListReturns, LockInv, TypeOK
  <2>4. CASE ExportTable(t)
    <3>1. \A i \in Places : Visible(i)' = Visible(i)
      BY <2>4 DEF ExportTable, Visible
    <3>2. CASE u # t
      BY <2>4, <3>1, <3>2 DEF ExportTable, LockInv, TypeOK
    <3>3. CASE u = t
      <4>1. next[t] \in Places /\ next'[t] = next[t] + 1 /\ op[t] = "export"
        BY <2>4, PlacesAre DEF ExportTable, LockInv, TypeOK, ExportMatch
      <4>2. \A i \in Places : got'[t][i] = IF i = next[t] THEN Visible(i) ELSE got[t][i]
        BY <2>4, <4>1 DEF ExportTable, LockInv, TypeOK, Contents
      <4>3. \A i \in Places : i < next'[t] => i = next[t] \/ i < next[t]
        BY <4>1, PlacesAre
      <4> QED  BY <3>1, <3>3, <4>1, <4>2, <4>3
    <3> QED  BY <3>2, <3>3
  <2>5. CASE ExportReturns(t)
    <3>1. \A i \in Places : Visible(i)' = Visible(i)
      BY <2>5 DEF ExportReturns, Visible
    <3>2. CASE u # t
      BY <2>5, <3>1, <3>2 DEF ExportReturns, LockInv, TypeOK
    <3>3. CASE u = t
      BY <2>5, <3>3 DEF ExportReturns, LockInv, TypeOK
    <3> QED  BY <3>2, <3>3
  <2>6. CASE Write(t) \/ SetDeviceCapability(t) \/ ImportFails(t) \/ \E b \in Contents : ImportAll(t, b)
    <3>1. /\ phase[t] = "inside" /\ op[t] \in Writers /\ Unlock(t)
          /\ UNCHANGED <<next, got>>
      BY <2>6, WriterUnlocks
    <3>2. holds[u] = 0
      BY <3>1 DEF LockInv, WriterAlone
    <3>3. op'[u] = "export" => op[u] = "export"
      BY <3>1 DEF Unlock, LockInv, TypeOK
    <3>4. op[u] = "export" => next[u] = 1
      BY <3>2, PlacesAre DEF LockInv, TypeOK, ExportMatch
    <3>5. op'[u] = "export" => \A i \in Places : ~(i < next'[u])
      BY <3>1, <3>3, <3>4, PlacesAre
    <3> QED  BY <3>5
  <2> QED  BY <1>3, <2>1, <2>2, <2>3, <2>4, <2>5, <2>6 DEF Step
<1> QED  BY <1>2, <1>3 DEF Next

\* The invariant holds in every reachable state.
LEMMA Invariant == Spec => []IInv
<1>1. Init => IInv
  BY InitInv
<1>2. IInv /\ [Next]_vars => IInv'
  BY LockStep, CurrentStep DEF IInv
<1> QED  BY <1>1, <1>2, PTL DEF Spec

\* Every state of the store is of its type: no operation gives back a read
\* lock it does not hold, and none holds more than two.
THEOREM TypeCorrect == Spec => []TypeOK
<1>1. IInv => TypeOK
  BY DEF IInv, LockInv
<1> QED  BY Invariant, <1>1, PTL

\* ExportAll returns the contents of all tables at one moment.
THEOREM SnapshotBackups == Spec => []BackupIsSnapshot
<1>1. IInv => BackupIsSnapshot
  <2> SUFFICES ASSUME IInv, NEW t \in Threads, phase[t] = "return", NEW i \in Places
               PROVE  got[t][i] = Visible(i)
    BY DEF BackupIsSnapshot
  <2>1. op[t] = "export" /\ next[t] = Len(Tables) + 1
    BY DEF IInv, LockInv, ExportMatch
  <2>2. i < next[t]
    BY <2>1, PlacesAre
  <2> QED  BY <2>1, <2>2 DEF IInv, ReadIsCurrent
<1> QED  BY Invariant, <1>1, PTL

------------------------------------------------------------------------------
\* Waiting.  Who waits for the mutex waits for the announced writer, and that writer
\* is waiting for readers to leave or working.
WaitInv ==
  /\ \A t \in Threads : phase[t] = "idle" <=> op[t] = "none"
  /\ \A t \in Threads : phase[t] = "parked" => announced # None
  /\ announced # None =>
       \/ phase[announced] = "drain"
       \/ phase[announced] \in {"inside", "parked"} /\ op[announced] \in Writers

\* A step that neither announces a writer nor unlocks keeps who waits for whom, if the
\* goroutine that makes it is not the announced writer or stays a working one.
LEMMA WaitKept ==
  ASSUME LockInv, WaitInv, NEW t \in Threads, UNCHANGED announced,
         phase' = [phase EXCEPT ![t] = phase'[t]], op' = [op EXCEPT ![t] = op'[t]],
         phase'[t] = "idle" <=> op'[t] = "none",
         phase'[t] = "parked" => announced # None,
         announced = t => phase'[t] \in {"inside", "parked"} /\ op'[t] \in Writers
  PROVE  WaitInv'
<1> USE DEF WaitInv, LockInv, TypeOK
<1>1. \A u \in Threads : u # t => phase'[u] = phase[u] /\ op'[u] = op[u]
  OBVIOUS
<1>2. announced # None => announced \in Threads
  OBVIOUS
<1>3. \A u \in Threads : (phase'[u] = "idle" <=> op'[u] = "none") /\ (phase'[u] = "parked" => announced' # None)
  BY <1>1
<1>4. announced' # None =>
        \/ phase'[announced'] = "drain"
        \/ phase'[announced'] \in {"inside", "parked"} /\ op'[announced'] \in Writers
  BY <1>1, <1>2
<1> QED  BY <1>3, <1>4

\* Every step keeps who waits for whom.
LEMMA WaitStep == LockInv /\ WaitInv /\ [Next]_vars => WaitInv'
<1> SUFFICES ASSUME LockInv, WaitInv, [Next]_vars PROVE WaitInv'
  OBVIOUS
<1> USE DEF Writers
<1>1. CASE UNCHANGED vars
  BY <1>1 DEF vars, WaitInv
<1>2. ASSUME NEW t \in Threads, Call(t) \/ Step(t) PROVE WaitInv'
  <2>0. /\ TypeOK /\ HoldsMatch(t) /\ ExportMatch(t) /\ WriterAnnounced(t)
        /\ t # None
    BY ConstantsAssumption DEF ConstantsAssumption, LockInv
  <2> USE <2>0 DEF TypeOK, HoldsMatch, ExportMatch, WriterAnnounced
  <2>1. CASE Call(t)
    <3>1. PICK o \in Ops : /\ op' = [op EXCEPT ![t] = o]
                           /\ phase' = [phase EXCEPT ![t] = IF o \in {"list", "export"} THEN "rlock" ELSE "lock"]
      BY <2>1 DEF Call
    <3>2. o # "none" /\ phase'[t] \in {"rlock", "lock"} /\ op'[t] = o
      BY <3>1, ConstantsAssumption DEF ConstantsAssumption
    <3>3. announced # t /\ UNCHANGED announced
      BY <2>1 DEF Call, WaitInv
    <3> QED  BY <3>1, <3>2, <3>3, WaitKept
  <2>2. CASE Lock(t)
    <3>1. \A u \in Threads : phase[u] # "parked"
      BY <2>2 DEF Lock, WaitInv
    <3>2. /\ announced' = t /\ UNCHANGED op
          /\ phase' = [phase EXCEPT ![t] = "drain"] /\ phase[t] = "lock"
      BY <2>2 DEF Lock
    <3> QED  BY <3>1, <3>2 DEF WaitInv
  <2>3. CASE Drained(t)
    BY <2>3, WaitKept DEF Drained, WaitInv
  <2>4. CASE RLock(t) /\ announced = None
    <3>1. /\ phase' = [phase EXCEPT ![t] = Entered(t)] /\ UNCHANGED <<announced, op>>
          /\ op[t] # "none" /\ announced # t /\ Entered(t) \in {"rlock", "inside"}
      BY <2>4 DEF RLock, WaitInv, Entered
    <3> QED  BY <3>1, WaitKept
  <2>5. CASE RLock(t) /\ announced # None
    <3>1. /\ phase' = [phase EXCEPT ![t] = "parked"] /\ UNCHANGED <<announced, op>>
          /\ op[t] # "none" /\ announced # t
      BY <2>5 DEF RLock, WaitInv
    <3> QED  BY <2>5, <3>1, WaitKept
  <2>6. CASE ListReturns(t)
    BY <2>6, WaitKept DEF ListReturns, WaitInv
  <2>7. CASE ExportTable(t)
    <3>1. /\ phase' = [phase EXCEPT ![t] = phase'[t]] /\ phase'[t] \in {"rlock", "return"}
          /\ UNCHANGED <<announced, op>> /\ op[t] = "export"
      BY <2>7 DEF ExportTable
    <3>2. announced # t
      BY <2>7 DEF ExportTable, WaitInv
    <3> QED  BY <3>1, <3>2, WaitKept
  <2>8. CASE ExportReturns(t)
    BY <2>8, WaitKept DEF ExportReturns, WaitInv
  <2>9. CASE SetMotionConfig(t)
    BY <2>9, WaitKept DEF SetMotionConfig, WaitInv
  <2>10. CASE Write(t) \/ SetDeviceCapability(t) \/ ImportFails(t) \/ \E b \in Contents : ImportAll(t, b)
    <3>1. Unlock(t) /\ phase[t] = "inside"
      BY <2>10, WriterUnlocks
    <3>2. announced' = None
      BY <3>1 DEF Unlock
    <3>3. ASSUME NEW u \in Threads
          PROVE  (phase'[u] = "idle" <=> op'[u] = "none") /\ phase'[u] # "parked"
      BY <3>1, <3>3 DEF Unlock, Entered, WaitInv
    <3> QED  BY <3>2, <3>3 DEF WaitInv
  <2> QED  BY <1>2, <2>1, <2>2, <2>3, <2>4, <2>5, <2>6, <2>7, <2>8, <2>9, <2>10 DEF Step
<1> QED  BY <1>1, <1>2 DEF Next

\* Who waits for whom, in every reachable state.
LEMMA WaitInvariant == Spec => []WaitInv
<1>1. Init => WaitInv
  BY DEF Init, WaitInv
<1>2. IInv => LockInv
  BY DEF IInv
<1> QED  BY <1>1, <1>2, Invariant, WaitStep, PTL DEF Spec

\* The mutex never makes everybody wait on everybody, for any number of goroutines: a
\* goroutine that cannot go on waits for one that can, unless the store has re-entered itself.
THEOREM DeadlockOnlyByReentry == Spec => []WaitsForRunner
<1>1. LockInv /\ WaitInv => WaitsForRunner
  <2> SUFFICES ASSUME LockInv, WaitInv, ~Reentry, NEW t \in Threads, phase[t] # "idle", ~CanStep(t)
               PROVE  /\ announced \in Threads
                      /\ \/ CanStep(announced)
                         \/ /\ phase[announced] = "drain"
                            /\ \E u \in Threads : holds[u] > 0 /\ CanStep(u)
    BY DEF WaitsForRunner
  \* A reader inside can go on: one that is parked with a lock has re-entered.
  <2>1. ASSUME NEW u \in Threads, holds[u] > 0 PROVE CanStep(u)
    BY <2>1 DEF LockInv, TypeOK, HoldsMatch, CanStep, Reentry
  <2>2. announced \in Threads
    <3>1. announced # None
      <4>1. CASE phase[t] = "drain"
        BY <4>1, ConstantsAssumption DEF ConstantsAssumption, LockInv, WriterAnnounced
      <4>2. CASE phase[t] # "drain"
        BY <4>2 DEF LockInv, TypeOK, CanStep, WaitInv
      <4> QED  BY <4>1, <4>2
    <3> QED  BY <3>1 DEF LockInv, TypeOK
  <2>3. CASE phase[announced] = "drain"
    <3>1. CASE \A u \in Threads : holds[u] = 0
      BY <2>2, <2>3, <3>1 DEF CanStep
    <3>2. ASSUME NEW u \in Threads, holds[u] # 0 PROVE holds[u] > 0 /\ CanStep(u)
      BY <2>1, <3>2 DEF LockInv, TypeOK
    <3> QED  BY <2>2, <2>3, <3>1, <3>2
  <2>4. CASE phase[announced] # "drain"
    <3>1. phase[announced] = "inside"
      BY <2>2, <2>4, ConstantsAssumption DEF ConstantsAssumption, WaitInv, Reentry
    <3> QED  BY <2>2, <3>1 DEF CanStep
  <2> QED  BY <2>2, <2>3, <2>4
<1>2. IInv => LockInv
  BY DEF IInv
<1> QED  BY <1>1, <1>2, Invariant, WaitInvariant, PTL

------------------------------------------------------------------------------
\* The refinement of AtomicStore.  These are its variables, as Atomic maps them.
Shown == [i \in Places |-> Visible(i)]
Doing == [t \in Threads |-> IF phase[t] = "return" THEN "return" ELSE op[t]]
Backups == [t \in Threads |-> IF phase[t] = "return" THEN got[t] ELSE Nothing]

\* What is seen of the tables is of their type.
LEMMA ShownType == TypeOK => Shown \in Contents
  BY DEF TypeOK, Shown, Visible, Contents

\* The initial states map to initial states.
LEMMA AtomicStart == Init => Atomic!AtomicInit
<1> SUFFICES ASSUME Init PROVE Atomic!AtomicInit
  OBVIOUS
<1>1. Shown \in Contents
  BY InitInv, ShownType DEF IInv, LockInv
<1> QED  BY <1>1 DEF Init, Shown, Atomic!AtomicInit

\* A step of t that leaves the other goroutines alone maps to a step of t.
LEMMA OthersAlone ==
  ASSUME TypeOK, NEW t \in Threads,
         \A u \in Threads : u # t => /\ (phase'[u] = "return" <=> phase[u] = "return")
                                   /\ op'[u] = op[u] /\ got'[u] = got[u]
  PROVE  /\ Doing' = [Doing EXCEPT ![t] = IF phase'[t] = "return" THEN "return" ELSE op'[t]]
         /\ Backups' = [Backups EXCEPT ![t] = IF phase'[t] = "return" THEN got'[t] ELSE Nothing]
  BY DEF Doing, Backups, Nothing, Places

\* The steps of the mutex, the first tables of an export and the wait of SetMotionConfig
\* are not seen from outside.
LEMMA Hidden ==
  ASSUME UNCHANGED <<tables, capability, op>>,
         \A t \in Threads : phase'[t] = "return" <=> phase[t] = "return",
         \A t \in Threads : phase[t] = "return" => got'[t] = got[t]
  PROVE  UNCHANGED <<Shown, Doing, Backups>>
  BY DEF Shown, Visible, Doing, Backups, Nothing, Places

\* Every step maps to a step of AtomicStore or to a stutter.
LEMMA AtomicStep ==
  IInv /\ WaitInv /\ [Next]_vars => [Atomic!AtomicNext]_(Atomic!atomicVars)
<1> SUFFICES ASSUME IInv, WaitInv, [Next]_vars
             PROVE  [Atomic!AtomicNext]_(Atomic!atomicVars)
  OBVIOUS
<1>0. TypeOK /\ LockInv
  BY DEF IInv, LockInv
<1>s. UNCHANGED <<Shown, Doing, Backups>> => UNCHANGED Atomic!atomicVars
  BY DEF Shown, Doing, Backups, Atomic!atomicVars
<1>1. CASE UNCHANGED vars
  BY <1>1, <1>s, Hidden DEF vars
<1>2. ASSUME NEW t \in Threads, Call(t) \/ Step(t)
      PROVE  [Atomic!AtomicNext]_(Atomic!atomicVars)
  <2>t. HoldsMatch(t) /\ ExportMatch(t) /\ ReadIsCurrent(t)
    BY DEF IInv, LockInv
  <2>n. \/ Atomic!Begin(t) \/ Atomic!Read(t) \/ Atomic!Change(t)
        \/ Atomic!Backup(t) \/ Atomic!ReturnBackup(t)
        => Atomic!AtomicNext
    BY DEF Atomic!AtomicNext
  <2>1. CASE Call(t)
    <3>1. PICK o \in Ops : op' = [op EXCEPT ![t] = o] /\ phase' = [phase EXCEPT ![t] = IF o \in {"list", "export"} THEN "rlock" ELSE "lock"]
      BY <2>1 DEF Call
    <3>2. op[t] = "none" /\ phase[t] = "idle" /\ UNCHANGED <<tables, capability, got>>
      BY <2>1 DEF Call, WaitInv
    <3>3. Doing[t] = "none" /\ Doing' = [Doing EXCEPT ![t] = o]
      BY <1>0, <3>1, <3>2, OthersAlone DEF TypeOK, Doing
    <3>4. UNCHANGED <<Shown, Backups>>
      BY <1>0, <3>1, <3>2 DEF TypeOK, Shown, Visible, Backups, Nothing, Places
    <3>5. Atomic!Begin(t)
      BY <3>3, <3>4 DEF Doing, Shown, Backups, Atomic!Begin
    <3> QED  BY <2>n, <3>5
  <2>2. CASE Lock(t) \/ Drained(t) \/ RLock(t) \/ SetMotionConfig(t)
    <3>1. /\ UNCHANGED <<tables, capability, op, got>>
          /\ \A u \in Threads : phase'[u] = "return" <=> phase[u] = "return"
      BY <1>0, <2>2 DEF Lock, Drained, RLock, SetMotionConfig, TypeOK, Entered
    <3> QED  BY <1>s, <3>1, Hidden
  <2>3. CASE ListReturns(t)
    <3>1. /\ phase' = [phase EXCEPT ![t] = "idle"] /\ op' = [op EXCEPT ![t] = "none"]
          /\ phase[t] = "inside" /\ op[t] = "list" /\ UNCHANGED <<tables, capability, got>>
      BY <2>3 DEF ListReturns
    <3>2. Doing[t] = "list" /\ Doing' = [Doing EXCEPT ![t] = "none"]
      BY <1>0, <3>1, OthersAlone DEF TypeOK, Doing
    <3>3. UNCHANGED <<Shown, Backups>>
      BY <1>0, <3>1 DEF TypeOK, Shown, Visible, Backups, Nothing, Places
    <3>4. Atomic!Read(t)
      BY <3>2, <3>3 DEF Doing, Shown, Backups, Atomic!Read
    <3> QED  BY <2>n, <3>4
  <2>4. CASE Write(t) \/ SetDeviceCapability(t) \/ ImportFails(t) \/ \E b \in Contents : ImportAll(t, b)
    <3>1. /\ phase[t] = "inside" /\ op[t] \in {"write", "import"} /\ Unlock(t)
          /\ UNCHANGED got
      BY <2>4, WriterUnlocks DEF Write, SetDeviceCapability, ImportFails, ImportAll
    <3>2. \A u \in Threads : u # t => /\ (phase'[u] = "return" <=> phase[u] = "return")
                                      /\ op'[u] = op[u] /\ got'[u] = got[u]
      BY <1>0, <3>1 DEF Unlock, Entered, TypeOK
    <3>3. phase'[t] = "idle" /\ op'[t] = "none"
      BY <1>0, <3>1 DEF Unlock, TypeOK
    <3>4. /\ Doing[t] \in {"write", "import"} /\ Doing' = [Doing EXCEPT ![t] = "none"]
          /\ UNCHANGED Backups
      <4>1. Backups' = [Backups EXCEPT ![t] = Nothing]
        BY <1>0, <3>2, <3>3, OthersAlone
      <4>2. Backups[t] = Nothing
        BY <3>1 DEF Backups
      <4>3. Backups = [Backups EXCEPT ![t] = Nothing]
        BY <4>2 DEF Backups
      <4> QED  BY <1>0, <3>1, <3>2, <3>3, <4>1, <4>3, OthersAlone DEF Doing
    <3>5. Shown' \in Contents
      <4>1. tables' \in Contents
        BY <2>4, <1>0, WriterUnlocks
      <4> QED  BY <4>1 DEF Shown, Visible, Contents
    <3>6. Atomic!Change(t)
      BY <3>4, <3>5 DEF Doing, Shown, Backups, Atomic!Change
    <3> QED  BY <2>n, <3>6
  <2>5. CASE ExportTable(t) /\ next[t] < Len(Tables)
    <3>1. phase' = [phase EXCEPT ![t] = "rlock"] /\ phase[t] = "inside" /\ UNCHANGED <<tables, capability, op>>
      BY <2>5 DEF ExportTable
    <3>2. \A u \in Threads : /\ phase'[u] = "return" <=> phase[u] = "return"
                             /\ phase[u] = "return" => got'[u] = got[u]
      BY <1>0, <2>5, <3>1 DEF ExportTable, TypeOK
    <3> QED  BY <1>s, <3>1, <3>2, Hidden
  <2>6. CASE ExportTable(t) /\ ~(next[t] < Len(Tables))
    <3>1. /\ phase' = [phase EXCEPT ![t] = "return"] /\ phase[t] = "inside" /\ op[t] = "export"
          /\ got' = [got EXCEPT ![t][next[t]] = Visible(next[t])]
          /\ UNCHANGED <<tables, capability, op>>
      BY <2>6 DEF ExportTable
    <3>2. next[t] = Len(Tables) /\ Places = 1..Len(Tables) /\ next[t] \in Places
      BY <1>0, <2>t, <2>6, <3>1, PlacesAre DEF TypeOK, ExportMatch
    \* The last table is read now, and the others are what they were when they were read.
    <3>3. got'[t] = Shown
      <4>1. got[t] \in [Places -> SUBSET Rows]
        BY <1>0 DEF TypeOK, Contents
      <4>2. got'[t] = [got[t] EXCEPT ![next[t]] = Visible(next[t])]
        BY <1>0, <3>1 DEF TypeOK
      <4>3. \A i \in Places : i < next[t] => got[t][i] = Visible(i)
        BY <2>t, <3>1 DEF ReadIsCurrent
      <4>4. \A i \in Places : i = next[t] \/ i < next[t]
        BY <3>2, PlacesAre
      <4> QED  BY <4>1, <4>2, <4>3, <4>4 DEF Shown
    <3>4. /\ Doing[t] = "export" /\ Doing' = [Doing EXCEPT ![t] = "return"]
          /\ Backups' = [Backups EXCEPT ![t] = Shown] /\ UNCHANGED Shown
      <4>1. \A u \in Threads : u # t => /\ (phase'[u] = "return" <=> phase[u] = "return")
                                        /\ op'[u] = op[u] /\ got'[u] = got[u]
        BY <1>0, <3>1 DEF TypeOK
      <4>2. phase'[t] = "return"
        BY <1>0, <3>1 DEF TypeOK
      <4>3. UNCHANGED Shown
        BY <3>1 DEF Shown, Visible
      <4>4. Doing[t] = "export"
        BY <3>1 DEF Doing
      <4> QED  BY <1>0, <3>3, <4>1, <4>2, <4>3, <4>4, OthersAlone
    <3>5. Atomic!Backup(t)
      BY <3>4 DEF Doing, Shown, Backups, Atomic!Backup
    <3> QED  BY <2>n, <3>5
  <2>7. CASE ExportReturns(t)
    <3>1. /\ phase[t] = "return" /\ phase' = [phase EXCEPT ![t] = "idle"]
          /\ op' = [op EXCEPT ![t] = "none"] /\ got' = [got EXCEPT ![t] = Nothing]
          /\ UNCHANGED <<tables, capability>>
      BY <2>7 DEF ExportReturns
    <3>2. \A u \in Threads : u # t => /\ (phase'[u] = "return" <=> phase[u] = "return")
                                      /\ op'[u] = op[u] /\ got'[u] = got[u]
      BY <1>0, <3>1 DEF TypeOK
    <3>3. phase'[t] = "idle" /\ op'[t] = "none"
      BY <1>0, <3>1 DEF TypeOK
    <3>4. /\ Doing[t] = "return" /\ Doing' = [Doing EXCEPT ![t] = "none"]
          /\ Backups' = [Backups EXCEPT ![t] = Nothing] /\ UNCHANGED Shown
      BY <1>0, <3>1, <3>2, <3>3, OthersAlone DEF Doing, Shown, Visible
    <3>5. Atomic!ReturnBackup(t)
      BY <3>4 DEF Doing, Shown, Backups, Atomic!ReturnBackup
    <3> QED  BY <2>n, <3>5
  <2> QED  BY <1>2, <2>1, <2>2, <2>3, <2>4, <2>5, <2>6, <2>7 DEF Step
<1> QED  BY <1>1, <1>2 DEF Next

\* The store implements a store without a mutex whose operations take effect in single
\* steps, for any number of goroutines, tables and rows.
THEOREM OperationsAreAtomic == Spec => ImplementsAtomic
<1>1. Init => Atomic!AtomicInit
  BY AtomicStart
<1>2. IInv /\ WaitInv /\ [Next]_vars => [Atomic!AtomicNext]_(Atomic!atomicVars)
  BY AtomicStep
<1> QED  BY <1>1, <1>2, Invariant, WaitInvariant, PTL DEF Spec, ImplementsAtomic, Atomic!AtomicSpec
==============================================================================
