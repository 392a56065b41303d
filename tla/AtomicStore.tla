----------------------------- MODULE AtomicStore -----------------------------
(***************************************************************************)
(* What the store promises its callers: the tables are one value, an        *)
(* operation that changes them does so in one step, and a backup is the     *)
(* whole value at one moment between its call and its return.  There is no  *)
(* mutex, and nothing is said of when an operation takes effect.            *)
(***************************************************************************)
CONSTANTS
  Threads,   \* callers
  Ops,       \* the operations that are called
  Contents,  \* what the tables can show
  Nothing    \* the contents of a backup that has not been made

VARIABLES
  shown,     \* what a caller can see of the tables
  doing,     \* "none", the operation a caller is in, or "return" with a backup made
  backup     \* the backup a caller is about to return

atomicVars == <<shown, doing, backup>>

AtomicInit ==
  /\ shown \in Contents
  /\ doing = [t \in Threads |-> "none"]
  /\ backup = [t \in Threads |-> Nothing]

Begin(t) ==
  /\ doing[t] = "none"
  /\ \E o \in Ops : doing' = [doing EXCEPT ![t] = o]
  /\ UNCHANGED <<shown, backup>>

\* A read returns.
Read(t) ==
  /\ doing[t] = "list"
  /\ doing' = [doing EXCEPT ![t] = "none"]
  /\ UNCHANGED <<shown, backup>>

\* A write or a restore takes effect and returns.
Change(t) ==
  /\ doing[t] \in {"write", "import"}
  /\ shown' \in Contents
  /\ doing' = [doing EXCEPT ![t] = "none"]
  /\ UNCHANGED backup

\* A backup is made of everything at once.
Backup(t) ==
  /\ doing[t] = "export"
  /\ backup' = [backup EXCEPT ![t] = shown]
  /\ doing' = [doing EXCEPT ![t] = "return"]
  /\ UNCHANGED shown

ReturnBackup(t) ==
  /\ doing[t] = "return"
  /\ backup' = [backup EXCEPT ![t] = Nothing]
  /\ doing' = [doing EXCEPT ![t] = "none"]
  /\ UNCHANGED shown

AtomicNext ==
  \E t \in Threads : Begin(t) \/ Read(t) \/ Change(t) \/ Backup(t) \/ ReturnBackup(t)

AtomicSpec == AtomicInit /\ [][AtomicNext]_atomicVars
==============================================================================
