------------------------- MODULE MergeWorkerProofs -------------------------
(***************************************************************************)
(* Proofs about MergeWorker, for any VMs, any number of tasks, prefixes,   *)
(* listings and disturbances, and any concurrency.                         *)
(***************************************************************************)
EXTENDS MergeWorker, FiniteSetTheorems, TLAPS

(* The writers that may still queue a task have a number left for it.      *)
Room == made + Cardinality(ToQueue) <= MaxTasks

(* Task names are not used twice.                                          *)
FreshNames == \A t \in Tasks : t[2] > made => queue[t] = Absent

(* A task the worker is at was renamed.                                    *)
Renamed == \A t \in Tasks : phase[t] # "none" => queue[t] >= 1

(* A deletion in flight never hits a task the worker is at: the task has   *)
(* been given a longer name since.                                         *)
Deleting ==
    \A f \in unlinking :
        /\ f.prefixes >= 1
        /\ f.task[2] <= made
        /\ queue[f.task] = Absent \/ queue[f.task] >= f.prefixes
        /\ queue[f.task] = f.prefixes => phase[f.task] = "none"

(* A pass takes each task once.                                            *)
OncePerPass ==
    /\ pc # "pass" => \A t \in Tasks : phase[t] = "none"
    /\ \A f, g \in entries : f.task = g.task => f = g
    /\ \A f \in entries : phase[f.task] = "none"

(* The worker lists the queue at most Retries times in a row.              *)
ListingLeft == pc \in {"listing", "pass"} => retries < Retries

(* Who has the lock of a VM directory.                                     *)
Locks ==
    /\ \A v \in VMs : vmLock[v] = "writer" <=> writer[v] = "backup"
    /\ \A v \in VMs : vmLock[v] = "worker" => \E t \in Tasks : vm(t) = v /\ phase[t] = "cleaning"
    /\ \A t \in Tasks : phase[t] = "cleaning" => vmLock[vm(t)] = "worker"
    /\ \A t, u \in Tasks : phase[t] = "cleaning" /\ phase[u] = "cleaning" /\ vm(t) = vm(u) => t = u

(* A task that has not failed yet.                                         *)
Untried(t) == queue[t] = 0 \/ phase[t] \in {"taken", "cleaning"}

(* A VM with disks left to merge has a task that has not failed yet.       *)
Asked ==
    \A v \in VMs :
        (pending[v] /\ v \notin waived /\ writer[v] \notin {"backup", "queue"})
            => \E t \in Tasks : vm(t) = v /\ Untried(t)

(* The inductive invariant.  MergeAsked is not inductive: a task that has  *)
(* failed may be dropped at any time, so a VM needs one that has not.      *)
IInv ==
    /\ TypeOK /\ Room /\ FreshNames /\ Renamed /\ Deleting /\ OncePerPass /\ ListingLeft
    /\ Locks /\ Asked

-----------------------------------------------------------------------------
(* A task is made of its VM and its number.                                *)
LEMMA TaskParts ==
  /\ \A t \in Tasks : vm(t) \in VMs /\ t[2] \in 1 .. MaxTasks
  /\ \A v \in VMs, n \in 1 .. MaxTasks :
        <<v, n>> \in Tasks /\ vm(<<v, n>>) = v /\ <<v, n>>[2] = n
  BY DEF Tasks, vm

(* The writers are finitely many, so they can be counted.                  *)
LEMMA ToQueueFinite == IsFiniteSet(ToQueue) /\ Cardinality(ToQueue) \in Nat
<1>1. ToQueue \in SUBSET VMs
  BY DEF ToQueue
<1>2. IsFiniteSet(ToQueue)
  BY <1>1, ConstantsAssumption, FS_Subset
<1> QED
  BY <1>2, FS_CardinalityType

(* A writer that is about to queue a task has a number for it.             *)
LEMMA NumberLeft ==
  ASSUME IInv, NEW v \in VMs, writer[v] = "queue"
  PROVE  made + 1 \in 1 .. MaxTasks
<1>1. v \in ToQueue
  BY DEF ToQueue
<1>2. Cardinality(ToQueue) # 0
  BY <1>1, ToQueueFinite, FS_EmptySet
<1> QED
  BY <1>2, ToQueueFinite, ConstantsAssumption DEF IInv, TypeOK, Room

(* No room is taken by a step that makes no task and no writer busier.     *)
LEMMA RoomKept ==
  ASSUME IInv, made' = made, ToQueue' \in SUBSET ToQueue
  PROVE  Room'
<1>1. /\ IsFiniteSet(ToQueue')
      /\ Cardinality(ToQueue') <= Cardinality(ToQueue)
  BY ToQueueFinite, FS_Subset
<1>2. Cardinality(ToQueue') \in Nat
  BY <1>1, FS_CardinalityType
<1> QED
  BY <1>1, <1>2, ToQueueFinite, ConstantsAssumption DEF IInv, TypeOK, Room

(* Every step keeps the types.                                             *)
LEMMA TypeStep == IInv /\ [Next]_vars => TypeOK'
<1> SUFFICES ASSUME IInv, [Next]_vars PROVE TypeOK'
  OBVIOUS
<1> USE ConstantsAssumption, TaskParts DEF IInv, TypeOK, Absent, Files, Ended, Running, Disturb,
        Queued, workerVars, historyVars, remoteVars
<1>1. ASSUME NEW v \in VMs, QueueTask(v) PROVE TypeOK'
  <2>1. made + 1 \in 1 .. MaxTasks
    BY <1>1, NumberLeft DEF QueueTask
  <2> QED
    BY <1>1, <2>1 DEF QueueTask
<1>2. ASSUME NEW v \in VMs, KillWriter(v) PROVE TypeOK'
  BY <1>2 DEF KillWriter
<1>3. ASSUME List PROVE TypeOK'
  <2>1. Listed \in SUBSET Files
    BY DEF Listed
  <2> QED
    BY <1>3, <2>1 DEF List, ListingLeft
<1>4. ASSUME NEW f \in entries, Take(f) PROVE TypeOK'
  BY <1>4 DEF Take, NextEntry
<1>5. ASSUME NEW f \in entries, TakeFails(f) PROVE TypeOK'
  <2>1. waived' \in SUBSET VMs
    BY <1>5 DEF TakeFails, EndWorker, InProgress
  <2> QED
    BY <1>5, <2>1 DEF TakeFails, EndWorker
<1>6. ASSUME NEW t \in Tasks, Unlink(t) PROVE TypeOK'
  <2>1. [task |-> t, prefixes |-> queue[t]] \in Files
    BY <1>6 DEF Unlink, Renamed
  <2> QED
    BY <1>6, <2>1 DEF Unlink
<1>7. ASSUME NEW f \in unlinking, FinishUnlink(f) PROVE TypeOK'
  BY <1>7 DEF FinishUnlink
<1>8. ASSUME ListFails PROVE TypeOK'
  <2>1. waived' \in SUBSET VMs
    BY <1>8 DEF ListFails, EndWorker, InProgress
  <2> QED
    BY <1>8, <2>1 DEF ListFails, EndWorker
<1>9. ASSUME KillWorker PROVE TypeOK'
  <2>1. waived' \in SUBSET VMs
    BY <1>9 DEF KillWorker, EndWorker, InProgress
  <2> QED
    BY <1>9, <2>1 DEF KillWorker, EndWorker
<1>10. ASSUME NEW t \in Tasks, BeginClean(t) PROVE TypeOK'
  BY <1>10 DEF BeginClean
<1>11. ASSUME NEW t \in Tasks, MeetLock(t) PROVE TypeOK'
  BY <1>11 DEF MeetLock
<1>12. ASSUME NEW t \in Tasks, EndClean(t) PROVE TypeOK'
  BY <1>12 DEF EndClean
<1>13. ASSUME NEW t \in Tasks, CleanFails(t) PROVE TypeOK'
  BY <1>13 DEF CleanFails
<1>14. ASSUME NEW v \in VMs,
              \/ BeforeBackup(v) \/ AfterBackup(v) \/ FirstCleanFails(v) \/ AfterBackupFails(v)
              \/ QueueTaskFails(v) \/ CheckLock(v) \/ Spawn(v) \/ SpawnFails(v)
              \/ ExpireVmLock(v) \/ DeleteMetadata(v) \/ BeginDelete(v) \/ EndDelete(v)
      PROVE TypeOK'
  BY <1>14 DEF BeforeBackup, AfterBackup, FirstCleanFails, AfterBackupFails, QueueTaskFails,
      CheckLock, Spawn, SpawnFails, ExpireVmLock, DeleteMetadata, Unasked, BeginDelete, EndDelete
<1>15. ASSUME \/ TakeQueueLock \/ LoseQueueLock \/ Wait \/ Leave \/ EndPass \/ ExpireQueueLock
      PROVE TypeOK'
  BY <1>15 DEF TakeQueueLock, LoseQueueLock, Wait, Leave, EndPass, ExpireQueueLock
<1>16. ASSUME NEW f \in unlinking, UnlinkFails(f) PROVE TypeOK'
  BY <1>16 DEF UnlinkFails
<1>17. ASSUME UNCHANGED vars PROVE TypeOK'
  BY <1>17 DEF vars
<1> QED
  BY <1>1, <1>2, <1>3, <1>4, <1>5, <1>6, <1>7, <1>8, <1>9, <1>10, <1>11, <1>12, <1>13, <1>14,
     <1>15, <1>16, <1>17
  DEF Next, WriterStep, TaskStep, WorkerStep, Faults

(* A writer that starts a backup takes room for one task and gives it back *)
(* with the task, or without it.                                           *)
LEMMA RoomStep == IInv /\ [Next]_vars => Room'
<1> SUFFICES ASSUME IInv, [Next]_vars PROVE Room'
  OBVIOUS
<1> USE DEF workerVars, historyVars, remoteVars
<1>1. ASSUME NEW v \in VMs, BeforeBackup(v) PROVE Room'
  <2>1. ToQueue' = ToQueue \cup {v} /\ v \notin ToQueue
    BY <1>1 DEF BeforeBackup, ToQueue, IInv, TypeOK
  <2>2. Cardinality(ToQueue') = Cardinality(ToQueue) + 1
    BY <2>1, ToQueueFinite, FS_AddElement
  <2> QED
    BY <1>1, <2>2, ToQueueFinite, ConstantsAssumption DEF BeforeBackup, Room, IInv, TypeOK
<1>2. ASSUME NEW v \in VMs, QueueTask(v) PROVE Room'
  <2>1. ToQueue' = ToQueue \ {v} /\ v \in ToQueue
    BY <1>2 DEF QueueTask, ToQueue, IInv, TypeOK
  <2>2. Cardinality(ToQueue') = Cardinality(ToQueue) - 1
    BY <2>1, ToQueueFinite, FS_RemoveElement
  <2> QED
    BY <1>2, <2>2, ToQueueFinite, ConstantsAssumption DEF QueueTask, Room, IInv, TypeOK
<1>3. ASSUME NEW v \in VMs,
             \/ AfterBackup(v) \/ FirstCleanFails(v) \/ AfterBackupFails(v)
             \/ QueueTaskFails(v) \/ CheckLock(v)
             \/ Spawn(v) \/ SpawnFails(v) \/ KillWriter(v) \/ ExpireVmLock(v)
             \/ DeleteMetadata(v) \/ BeginDelete(v) \/ EndDelete(v)
      PROVE Room'
  BY <1>3, RoomKept DEF IInv, TypeOK, ToQueue, AfterBackup, FirstCleanFails, AfterBackupFails,
      QueueTaskFails, CheckLock, Spawn, SpawnFails, KillWriter, ExpireVmLock, DeleteMetadata,
      Unasked, BeginDelete, EndDelete
<1>4. ASSUME \/ TakeQueueLock \/ LoseQueueLock \/ List \/ Wait \/ Leave \/ EndPass
             \/ ListFails \/ KillWorker \/ ExpireQueueLock
      PROVE Room'
  BY <1>4, RoomKept DEF IInv, TypeOK, ToQueue, TakeQueueLock, LoseQueueLock, List, Wait,
      Leave, EndPass, ListFails, EndWorker, KillWorker, ExpireQueueLock
<1>5. ASSUME NEW f \in entries,
             \/ Take(f) \/ TakeFails(f)
      PROVE Room'
  BY <1>5, RoomKept DEF IInv, TypeOK, ToQueue, Take, NextEntry, TakeFails, EndWorker
<1>6. ASSUME NEW f \in unlinking,
             \/ FinishUnlink(f) \/ UnlinkFails(f)
      PROVE Room'
  BY <1>6, RoomKept DEF IInv, TypeOK, ToQueue, FinishUnlink, UnlinkFails
<1>7. ASSUME NEW t \in Tasks,
             \/ BeginClean(t) \/ MeetLock(t) \/ EndClean(t) \/ CleanFails(t) \/ Unlink(t)
      PROVE Room'
  BY <1>7, RoomKept DEF IInv, TypeOK, ToQueue, BeginClean, MeetLock, EndClean, CleanFails,
      Unlink
<1>8. ASSUME UNCHANGED vars PROVE Room'
  BY <1>8, RoomKept DEF IInv, TypeOK, ToQueue, vars
<1> QED
  BY <1>1, <1>2, <1>3, <1>4, <1>5, <1>6, <1>7, <1>8
  DEF Next, WriterStep, TaskStep, WorkerStep, Faults

(* A task that is renamed or deleted had been queued.                      *)
LEMMA FreshNamesStep == IInv /\ [Next]_vars => FreshNames'
<1> SUFFICES ASSUME IInv, [Next]_vars PROVE FreshNames'
  OBVIOUS
<1> USE ConstantsAssumption, TaskParts DEF IInv, TypeOK, FreshNames, Absent, workerVars,
        historyVars, remoteVars
<1>1. ASSUME NEW v \in VMs, QueueTask(v) PROVE FreshNames'
  <2>1. made + 1 \in 1 .. MaxTasks
    BY <1>1, NumberLeft DEF QueueTask
  <2> QED
    BY <1>1, <2>1 DEF QueueTask
<1>2. ASSUME NEW f \in entries, Take(f) PROVE FreshNames'
  <2>1. f.task \in Tasks /\ f.prefixes \in Nat
    BY DEF Files
  <2> QED
    BY <1>2, <2>1 DEF Take
<1>3. ASSUME NEW f \in entries, TakeFails(f) PROVE FreshNames'
  BY <1>3 DEF TakeFails, EndWorker, NextEntry
<1>4. ASSUME NEW f \in unlinking, FinishUnlink(f) PROVE FreshNames'
  BY <1>4 DEF FinishUnlink
<1>5. ASSUME NEW v \in VMs,
             \/ BeforeBackup(v) \/ AfterBackup(v) \/ FirstCleanFails(v) \/ AfterBackupFails(v)
             \/ QueueTaskFails(v) \/ CheckLock(v) \/ Spawn(v) \/ SpawnFails(v)
             \/ KillWriter(v) \/ ExpireVmLock(v) \/ DeleteMetadata(v) \/ BeginDelete(v)
             \/ EndDelete(v)
      PROVE FreshNames'
  BY <1>5 DEF BeforeBackup, AfterBackup, FirstCleanFails, AfterBackupFails, QueueTaskFails,
      CheckLock, Spawn, SpawnFails, KillWriter, ExpireVmLock, DeleteMetadata, Unasked,
      BeginDelete, EndDelete
<1>6. ASSUME \/ TakeQueueLock \/ LoseQueueLock \/ List \/ Wait \/ Leave \/ EndPass
             \/ ListFails \/ KillWorker \/ ExpireQueueLock
      PROVE FreshNames'
  BY <1>6 DEF TakeQueueLock, LoseQueueLock, List, Wait, Leave, EndPass, ListFails, EndWorker,
      KillWorker, ExpireQueueLock
<1>7. ASSUME NEW f \in unlinking, UnlinkFails(f) PROVE FreshNames'
  BY <1>7 DEF UnlinkFails
<1>8. ASSUME NEW t \in Tasks,
             \/ BeginClean(t) \/ MeetLock(t) \/ EndClean(t) \/ CleanFails(t) \/ Unlink(t)
      PROVE FreshNames'
  BY <1>8 DEF BeginClean, MeetLock, EndClean, CleanFails, Unlink
<1>9. ASSUME UNCHANGED vars PROVE FreshNames'
  BY <1>9 DEF vars
<1> QED
  BY <1>1, <1>2, <1>3, <1>4, <1>5, <1>6, <1>7, <1>8, <1>9
  DEF Next, WriterStep, TaskStep, WorkerStep, Faults

(* The worker renames a task before anything else; only a deletion in      *)
(* flight could remove it then, and Deleting says it does not.             *)
LEMMA RenamedStep == IInv /\ [Next]_vars => Renamed'
<1> SUFFICES ASSUME IInv, [Next]_vars PROVE Renamed'
  OBVIOUS
<1> USE ConstantsAssumption, TaskParts DEF IInv, TypeOK, Renamed, FreshNames, Deleting, Absent,
        Files, workerVars, historyVars, remoteVars
<1>1. ASSUME NEW v \in VMs, QueueTask(v) PROVE Renamed'
  BY <1>1 DEF QueueTask
<1>2. ASSUME NEW f \in entries, Take(f) PROVE Renamed'
  BY <1>2 DEF Take, NextEntry
<1>3. ASSUME NEW f \in entries, TakeFails(f) PROVE Renamed'
  BY <1>3 DEF TakeFails, EndWorker, NextEntry
<1>4. ASSUME NEW f \in unlinking, FinishUnlink(f) PROVE Renamed'
  BY <1>4 DEF FinishUnlink
<1>5. ASSUME NEW v \in VMs,
             \/ BeforeBackup(v) \/ AfterBackup(v) \/ FirstCleanFails(v) \/ AfterBackupFails(v)
             \/ QueueTaskFails(v) \/ CheckLock(v) \/ Spawn(v) \/ SpawnFails(v)
             \/ KillWriter(v) \/ ExpireVmLock(v) \/ DeleteMetadata(v) \/ BeginDelete(v)
             \/ EndDelete(v)
      PROVE Renamed'
  BY <1>5 DEF BeforeBackup, AfterBackup, FirstCleanFails, AfterBackupFails, QueueTaskFails,
      CheckLock, Spawn, SpawnFails, KillWriter, ExpireVmLock, DeleteMetadata, Unasked,
      BeginDelete, EndDelete
<1>6. ASSUME \/ TakeQueueLock \/ LoseQueueLock \/ List \/ Wait \/ Leave \/ EndPass
             \/ ListFails \/ KillWorker \/ ExpireQueueLock
      PROVE Renamed'
  BY <1>6 DEF TakeQueueLock, LoseQueueLock, List, Wait, Leave, EndPass, ListFails, EndWorker,
      KillWorker, ExpireQueueLock
<1>7. ASSUME NEW f \in unlinking, UnlinkFails(f) PROVE Renamed'
  BY <1>7 DEF UnlinkFails
<1>8. ASSUME NEW t \in Tasks,
             \/ BeginClean(t) \/ MeetLock(t) \/ EndClean(t) \/ CleanFails(t) \/ Unlink(t)
      PROVE Renamed'
  BY <1>8 DEF BeginClean, MeetLock, EndClean, CleanFails, Unlink
<1>9. ASSUME UNCHANGED vars PROVE Renamed'
  BY <1>9 DEF vars
<1> QED
  BY <1>1, <1>2, <1>3, <1>4, <1>5, <1>6, <1>7, <1>8, <1>9
  DEF Next, WriterStep, TaskStep, WorkerStep, Faults

(* A task that is listed while its deletion is in flight is renamed away   *)
(* from it, or the rename fails.                                           *)
LEMMA DeletingStep == IInv /\ [Next]_vars => Deleting'
<1> SUFFICES ASSUME IInv, [Next]_vars PROVE Deleting'
  OBVIOUS
<1> USE ConstantsAssumption, TaskParts DEF IInv, TypeOK, Renamed, FreshNames, Deleting, Absent,
        Files, workerVars, historyVars, remoteVars
<1>1. ASSUME NEW v \in VMs, QueueTask(v) PROVE Deleting'
  BY <1>1 DEF QueueTask
<1>2. ASSUME NEW f \in entries, Take(f) PROVE Deleting'
  BY <1>2 DEF Take, NextEntry
<1>3. ASSUME NEW f \in entries, TakeFails(f) PROVE Deleting'
  BY <1>3 DEF TakeFails, EndWorker, NextEntry
<1>4. ASSUME NEW t \in Tasks, Unlink(t) PROVE Deleting'
  BY <1>4 DEF Unlink
<1>5. ASSUME NEW f \in unlinking, FinishUnlink(f) PROVE Deleting'
  BY <1>5 DEF FinishUnlink
<1>6. ASSUME NEW v \in VMs,
             \/ BeforeBackup(v) \/ AfterBackup(v) \/ FirstCleanFails(v) \/ AfterBackupFails(v)
             \/ QueueTaskFails(v) \/ CheckLock(v) \/ Spawn(v) \/ SpawnFails(v)
             \/ KillWriter(v) \/ ExpireVmLock(v) \/ DeleteMetadata(v) \/ BeginDelete(v)
             \/ EndDelete(v)
      PROVE Deleting'
  BY <1>6 DEF BeforeBackup, AfterBackup, FirstCleanFails, AfterBackupFails, QueueTaskFails,
      CheckLock, Spawn, SpawnFails, KillWriter, ExpireVmLock, DeleteMetadata, Unasked,
      BeginDelete, EndDelete
<1>7. ASSUME \/ TakeQueueLock \/ LoseQueueLock \/ List \/ Wait \/ Leave \/ EndPass
             \/ ListFails \/ KillWorker \/ ExpireQueueLock
      PROVE Deleting'
  BY <1>7 DEF TakeQueueLock, LoseQueueLock, List, Wait, Leave, EndPass, ListFails, EndWorker,
      KillWorker, ExpireQueueLock
<1>8. ASSUME NEW f \in unlinking, UnlinkFails(f) PROVE Deleting'
  BY <1>8 DEF UnlinkFails
<1>9. ASSUME NEW t \in Tasks,
             \/ BeginClean(t) \/ MeetLock(t) \/ EndClean(t) \/ CleanFails(t)
      PROVE Deleting'
  BY <1>9 DEF BeginClean, MeetLock, EndClean, CleanFails
<1>10. ASSUME UNCHANGED vars PROVE Deleting'
  BY <1>10 DEF vars
<1> QED
  BY <1>1, <1>2, <1>3, <1>4, <1>5, <1>6, <1>7, <1>8, <1>9, <1>10
  DEF Next, WriterStep, TaskStep, WorkerStep, Faults

(* A pass starts when no task is in progress, and lists each task once.    *)
LEMMA OncePerPassStep == IInv /\ [Next]_vars => OncePerPass'
<1> SUFFICES ASSUME IInv, [Next]_vars PROVE OncePerPass'
  OBVIOUS
<1> USE ConstantsAssumption, TaskParts DEF IInv, TypeOK, OncePerPass, Absent, Files, InProgress,
        Ended, QueueLocked, workerVars, historyVars, remoteVars
<1>1. ASSUME TakeQueueLock PROVE OncePerPass'
  BY <1>1 DEF TakeQueueLock
<1>2. ASSUME List PROVE OncePerPass'
  <2>1. \A f \in Listed : f.task \in Tasks /\ f = [task |-> f.task, prefixes |-> queue[f.task]]
    BY DEF Listed, Queued
  <2>2. \A t \in Tasks : phase'[t] = "none"
    BY <1>2 DEF List
  <2>3. \A f, g \in Listed : f.task = g.task => f = g
    BY <2>1
  <2> QED
    BY <1>2, <2>1, <2>2, <2>3 DEF List
<1>3. ASSUME NEW f \in entries, Take(f) PROVE OncePerPass'
  BY <1>3 DEF Take, NextEntry
<1>4. ASSUME NEW f \in entries, TakeFails(f) PROVE OncePerPass'
  BY <1>4 DEF TakeFails, EndWorker, NextEntry
<1>5. ASSUME EndPass PROVE OncePerPass'
  BY <1>5 DEF EndPass
<1>6. ASSUME NEW v \in VMs,
             \/ BeforeBackup(v) \/ AfterBackup(v) \/ FirstCleanFails(v) \/ AfterBackupFails(v)
             \/ QueueTask(v) \/ QueueTaskFails(v) \/ CheckLock(v) \/ Spawn(v) \/ SpawnFails(v)
             \/ KillWriter(v) \/ ExpireVmLock(v) \/ DeleteMetadata(v) \/ BeginDelete(v)
             \/ EndDelete(v)
      PROVE OncePerPass'
  BY <1>6 DEF BeforeBackup, AfterBackup, FirstCleanFails, AfterBackupFails, QueueTask,
      QueueTaskFails, CheckLock, Spawn, SpawnFails, KillWriter, ExpireVmLock, DeleteMetadata,
      Unasked, BeginDelete, EndDelete
<1>7. ASSUME \/ LoseQueueLock \/ Wait \/ Leave \/ ListFails \/ KillWorker \/ ExpireQueueLock
      PROVE OncePerPass'
  BY <1>7 DEF LoseQueueLock, Wait, Leave, ListFails, EndWorker, KillWorker, ExpireQueueLock
<1>8. ASSUME NEW f \in unlinking,
             \/ FinishUnlink(f) \/ UnlinkFails(f)
      PROVE OncePerPass'
  BY <1>8 DEF FinishUnlink, UnlinkFails
<1>9. ASSUME NEW t \in Tasks,
             \/ BeginClean(t) \/ MeetLock(t) \/ EndClean(t) \/ CleanFails(t) \/ Unlink(t)
      PROVE OncePerPass'
  BY <1>9 DEF BeginClean, MeetLock, EndClean, CleanFails, Unlink
<1>10. ASSUME UNCHANGED vars PROVE OncePerPass'
  BY <1>10 DEF vars
<1> QED
  BY <1>1, <1>2, <1>3, <1>4, <1>5, <1>6, <1>7, <1>8, <1>9, <1>10
  DEF Next, WriterStep, TaskStep, WorkerStep, Faults

(* The counter starts again with every pass.                               *)
LEMMA ListingLeftStep == IInv /\ [Next]_vars => ListingLeft'
<1> SUFFICES ASSUME IInv, [Next]_vars PROVE ListingLeft'
  OBVIOUS
<1> USE ConstantsAssumption, TaskParts DEF IInv, TypeOK, ListingLeft, Ended, workerVars,
        historyVars, remoteVars
<1>1. ASSUME List PROVE ListingLeft'
  BY <1>1 DEF List
<1>2. ASSUME Wait PROVE ListingLeft'
  BY <1>2 DEF Wait
<1>3. ASSUME NEW v \in VMs,
             \/ BeforeBackup(v) \/ AfterBackup(v) \/ FirstCleanFails(v) \/ AfterBackupFails(v)
             \/ QueueTask(v) \/ QueueTaskFails(v) \/ CheckLock(v) \/ Spawn(v) \/ SpawnFails(v)
             \/ KillWriter(v) \/ ExpireVmLock(v) \/ DeleteMetadata(v) \/ BeginDelete(v)
             \/ EndDelete(v)
      PROVE ListingLeft'
  BY <1>3 DEF BeforeBackup, AfterBackup, FirstCleanFails, AfterBackupFails, QueueTask,
      QueueTaskFails, CheckLock, Spawn, SpawnFails, KillWriter, ExpireVmLock, DeleteMetadata,
      Unasked, BeginDelete, EndDelete
<1>4. ASSUME \/ TakeQueueLock \/ LoseQueueLock \/ Leave \/ EndPass \/ ListFails
             \/ KillWorker \/ ExpireQueueLock
      PROVE ListingLeft'
  BY <1>4 DEF TakeQueueLock, LoseQueueLock, Leave, EndPass, ListFails, EndWorker, KillWorker,
      ExpireQueueLock
<1>5. ASSUME NEW f \in entries,
             \/ Take(f) \/ TakeFails(f)
      PROVE ListingLeft'
  BY <1>5 DEF Take, NextEntry, TakeFails, EndWorker
<1>6. ASSUME NEW f \in unlinking,
             \/ FinishUnlink(f) \/ UnlinkFails(f)
      PROVE ListingLeft'
  BY <1>6 DEF FinishUnlink, UnlinkFails
<1>7. ASSUME NEW t \in Tasks,
             \/ BeginClean(t) \/ MeetLock(t) \/ EndClean(t) \/ CleanFails(t) \/ Unlink(t)
      PROVE ListingLeft'
  BY <1>7 DEF BeginClean, MeetLock, EndClean, CleanFails, Unlink
<1>8. ASSUME UNCHANGED vars PROVE ListingLeft'
  BY <1>8 DEF vars
<1> QED
  BY <1>1, <1>2, <1>3, <1>4, <1>5, <1>6, <1>7, <1>8
  DEF Next, WriterStep, TaskStep, WorkerStep, Faults

(* The lock of a VM directory goes to a writer, a task or a deletion only  *)
(* when it is free, and is released by the one that has it.                *)
LEMMA LocksStep == IInv /\ [Next]_vars => Locks'
<1> SUFFICES ASSUME IInv, [Next]_vars PROVE Locks'
  OBVIOUS
<1> USE ConstantsAssumption, TaskParts DEF IInv, TypeOK, OncePerPass, Locks, Files, workerVars,
        historyVars, remoteVars
<1>1. ASSUME NEW v \in VMs, BeforeBackup(v) PROVE Locks'
  BY <1>1 DEF BeforeBackup
<1>2. ASSUME NEW v \in VMs, AfterBackup(v) PROVE Locks'
  BY <1>2 DEF AfterBackup
<1>3. ASSUME NEW v \in VMs, AfterBackupFails(v) PROVE Locks'
  BY <1>3 DEF AfterBackupFails
<1>4. ASSUME NEW v \in VMs, KillWriter(v) PROVE Locks'
  BY <1>4 DEF KillWriter
<1>5. ASSUME NEW v \in VMs, ExpireVmLock(v) PROVE Locks'
  BY <1>5 DEF ExpireVmLock
<1>6. ASSUME NEW v \in VMs, BeginDelete(v) PROVE Locks'
  BY <1>6 DEF BeginDelete
<1>7. ASSUME NEW v \in VMs, EndDelete(v) PROVE Locks'
  BY <1>7 DEF EndDelete, Unasked
<1>8. ASSUME NEW f \in entries, Take(f) PROVE Locks'
  BY <1>8 DEF Take, NextEntry
<1>9. ASSUME NEW f \in entries, TakeFails(f) PROVE Locks'
  BY <1>9 DEF TakeFails, EndWorker, NextEntry
<1>10. ASSUME ListFails PROVE Locks'
  BY <1>10 DEF ListFails, EndWorker
<1>11. ASSUME KillWorker PROVE Locks'
  BY <1>11 DEF KillWorker, EndWorker
<1>12. ASSUME NEW t \in Tasks, BeginClean(t) PROVE Locks'
  BY <1>12 DEF BeginClean
<1>13. ASSUME NEW t \in Tasks, EndClean(t) PROVE Locks'
  BY <1>13 DEF EndClean
<1>14. ASSUME NEW t \in Tasks, CleanFails(t) PROVE Locks'
  BY <1>14 DEF CleanFails
<1>15. ASSUME NEW v \in VMs,
              \/ QueueTask(v) \/ QueueTaskFails(v) \/ CheckLock(v) \/ Spawn(v)
              \/ SpawnFails(v) \/ FirstCleanFails(v) \/ DeleteMetadata(v)
      PROVE Locks'
  BY <1>15 DEF QueueTask, QueueTaskFails, CheckLock, Spawn, SpawnFails, FirstCleanFails,
      DeleteMetadata, Unasked
<1>16. ASSUME \/ TakeQueueLock \/ LoseQueueLock \/ List \/ Wait \/ Leave \/ EndPass
              \/ ExpireQueueLock
      PROVE Locks'
  BY <1>16 DEF TakeQueueLock, LoseQueueLock, List, Wait, Leave, EndPass, ExpireQueueLock
<1>17. ASSUME NEW f \in unlinking,
              \/ FinishUnlink(f) \/ UnlinkFails(f)
      PROVE Locks'
  BY <1>17 DEF FinishUnlink, UnlinkFails
<1>18. ASSUME NEW t \in Tasks,
              \/ MeetLock(t) \/ Unlink(t)
      PROVE Locks'
  BY <1>18 DEF MeetLock, Unlink
<1>19. ASSUME UNCHANGED vars PROVE Locks'
  BY <1>19 DEF vars
<1> QED
  BY <1>1, <1>2, <1>3, <1>4, <1>5, <1>6, <1>7, <1>8, <1>9, <1>10, <1>11, <1>12, <1>13, <1>14,
     <1>15, <1>16, <1>17, <1>18, <1>19
  DEF Next, WriterStep, TaskStep, WorkerStep, Faults

(* The merge of a VM stays asked for: a task fails because of the lock of  *)
(* a writer, which will ask again, of another task, which has not failed,  *)
(* or for a reason that waives the merge; a cleanup that succeeds leaves   *)
(* disks only where it could not see them, which waives it too.            *)
LEMMA AskedStep == IInv /\ [Next]_vars => Asked'
<1> SUFFICES ASSUME IInv, [Next]_vars PROVE Asked'
  OBVIOUS
<1> USE ConstantsAssumption, TaskParts DEF IInv, TypeOK, Asked, Untried, Renamed, Deleting,
        Locks, Absent, Files, InProgress, workerVars, historyVars, remoteVars
<1>1. ASSUME NEW v \in VMs, BeforeBackup(v) PROVE Asked'
  BY <1>1 DEF BeforeBackup
<1>2. ASSUME NEW v \in VMs, AfterBackup(v) PROVE Asked'
  BY <1>2 DEF AfterBackup
<1>3. ASSUME NEW v \in VMs, QueueTask(v) PROVE Asked'
  <2>1. made + 1 \in 1 .. MaxTasks
    BY <1>3, NumberLeft DEF QueueTask
  <2>2. queue'[<<v, made + 1>>] = 0
    BY <1>3, <2>1 DEF QueueTask
  <2>3. \A t \in Tasks : Untried(t) => Untried(t)'
    BY <1>3 DEF QueueTask
  <2> QED
    BY <1>3, <2>1, <2>2, <2>3 DEF QueueTask
<1>4. ASSUME NEW v \in VMs, KillWriter(v) PROVE Asked'
  BY <1>4 DEF KillWriter
<1>5. ASSUME NEW v \in VMs, DeleteMetadata(v) \/ EndDelete(v) PROVE Asked'
  BY <1>5 DEF DeleteMetadata, EndDelete, Unasked
<1>6. ASSUME NEW f \in entries, Take(f) PROVE Asked'
  BY <1>6 DEF Take, NextEntry
<1>7. ASSUME NEW f \in entries, TakeFails(f) PROVE Asked'
  BY <1>7 DEF TakeFails, EndWorker, NextEntry
<1>8. ASSUME ListFails PROVE Asked'
  BY <1>8 DEF ListFails, EndWorker
<1>9. ASSUME KillWorker PROVE Asked'
  BY <1>9 DEF KillWorker, EndWorker
<1>10. ASSUME NEW t \in Tasks, BeginClean(t) PROVE Asked'
  BY <1>10 DEF BeginClean
<1>11. ASSUME NEW t \in Tasks, MeetLock(t) PROVE Asked'
  BY <1>11 DEF MeetLock
<1>12. ASSUME NEW t \in Tasks, EndClean(t) PROVE Asked'
  BY <1>12 DEF EndClean
<1>13. ASSUME NEW t \in Tasks, CleanFails(t) PROVE Asked'
  BY <1>13 DEF CleanFails
<1>14. ASSUME NEW f \in unlinking, FinishUnlink(f) PROVE Asked'
  BY <1>14 DEF FinishUnlink
<1>15. ASSUME NEW v \in VMs,
              \/ FirstCleanFails(v) \/ AfterBackupFails(v) \/ QueueTaskFails(v) \/ CheckLock(v)
              \/ Spawn(v) \/ SpawnFails(v) \/ ExpireVmLock(v) \/ BeginDelete(v)
      PROVE Asked'
  BY <1>15 DEF FirstCleanFails, AfterBackupFails, QueueTaskFails, CheckLock, Spawn, SpawnFails,
      ExpireVmLock, BeginDelete
<1>16. ASSUME \/ TakeQueueLock \/ LoseQueueLock \/ List \/ Wait \/ Leave \/ EndPass
              \/ ExpireQueueLock
      PROVE Asked'
  BY <1>16 DEF TakeQueueLock, LoseQueueLock, List, Wait, Leave, EndPass, ExpireQueueLock
<1>17. ASSUME NEW f \in unlinking, UnlinkFails(f) PROVE Asked'
  BY <1>17 DEF UnlinkFails
<1>18. ASSUME NEW t \in Tasks, Unlink(t) PROVE Asked'
  BY <1>18 DEF Unlink
<1>19. ASSUME UNCHANGED vars PROVE Asked'
  BY <1>19 DEF vars
<1> QED
  BY <1>1, <1>2, <1>3, <1>4, <1>5, <1>6, <1>7, <1>8, <1>9, <1>10, <1>11, <1>12, <1>13, <1>14,
     <1>15, <1>16, <1>17, <1>18, <1>19
  DEF Next, WriterStep, TaskStep, WorkerStep, Faults

-----------------------------------------------------------------------------
(* The invariant holds in the initial state.                               *)
LEMMA InitIInv == Init => IInv
<1> SUFFICES ASSUME Init PROVE IInv
  OBVIOUS
<1> USE ConstantsAssumption, TaskParts DEF Init, Absent
<1>1. TypeOK
  BY DEF TypeOK, Ended
<1>2. Room
  <2>1. ToQueue = {}
    BY DEF ToQueue
  <2> QED
    BY <2>1, FS_EmptySet DEF Room
<1>3. FreshNames /\ Renamed /\ Deleting /\ OncePerPass /\ ListingLeft /\ Locks /\ Asked
  BY DEF FreshNames, Renamed, Deleting, OncePerPass, ListingLeft, Locks, Asked
<1> QED
  BY <1>1, <1>2, <1>3 DEF IInv

(* The inductive invariant holds in every behaviour.                       *)
THEOREM InductiveInvariant == Spec => []IInv
<1>1. IInv /\ [Next]_vars => IInv'
  BY TypeStep, RoomStep, FreshNamesStep, RenamedStep, DeletingStep, OncePerPassStep,
     ListingLeftStep, LocksStep, AskedStep DEF IInv
<1> QED
  BY InitIInv, <1>1, PTL DEF Spec

(* Attended is inductive, with the types.                                  *)
LEMMA AttendedStep == IInv /\ Attended /\ [Next]_vars => Attended'
<1> SUFFICES ASSUME IInv, Attended, [Next]_vars PROVE Attended'
  OBVIOUS
<1> USE ConstantsAssumption, TaskParts DEF IInv, TypeOK, Attended, Queued, Running, Ended,
        QueueLocked, Absent, workerVars, historyVars, remoteVars
<1>1. ASSUME NEW v \in VMs, QueueTask(v) PROVE Attended'
  BY <1>1 DEF QueueTask
<1>2. ASSUME NEW v \in VMs, CheckLock(v) PROVE Attended'
  BY <1>2 DEF CheckLock
<1>3. ASSUME NEW v \in VMs, Spawn(v) PROVE Attended'
  BY <1>3 DEF Spawn
<1>4. ASSUME NEW v \in VMs, KillWriter(v) PROVE Attended'
  BY <1>4 DEF KillWriter
<1>5. ASSUME TakeQueueLock PROVE Attended'
  BY <1>5 DEF TakeQueueLock
<1>6. ASSUME LoseQueueLock PROVE Attended'
  BY <1>6 DEF LoseQueueLock
<1>7. ASSUME NEW f \in entries, Take(f) PROVE Attended'
  BY <1>7 DEF Take, NextEntry
<1>8. ASSUME NEW f \in entries, TakeFails(f) PROVE Attended'
  BY <1>8 DEF TakeFails, EndWorker, NextEntry
<1>9. ASSUME NEW f \in unlinking, FinishUnlink(f) PROVE Attended'
  BY <1>9 DEF FinishUnlink
<1>10. ASSUME NEW v \in VMs,
              \/ BeforeBackup(v) \/ AfterBackup(v) \/ FirstCleanFails(v) \/ AfterBackupFails(v)
              \/ QueueTaskFails(v) \/ SpawnFails(v) \/ ExpireVmLock(v) \/ DeleteMetadata(v)
              \/ BeginDelete(v) \/ EndDelete(v)
      PROVE Attended'
  BY <1>10 DEF BeforeBackup, AfterBackup, FirstCleanFails, AfterBackupFails, QueueTaskFails,
      SpawnFails, ExpireVmLock, DeleteMetadata, Unasked, BeginDelete, EndDelete
<1>11. ASSUME \/ List \/ Wait \/ Leave \/ EndPass \/ ListFails \/ KillWorker
              \/ ExpireQueueLock
      PROVE Attended'
  BY <1>11 DEF List, Wait, Leave, EndPass, ListFails, EndWorker, KillWorker, ExpireQueueLock
<1>12. ASSUME NEW f \in unlinking, UnlinkFails(f) PROVE Attended'
  BY <1>12 DEF UnlinkFails
<1>13. ASSUME NEW t \in Tasks,
              \/ BeginClean(t) \/ MeetLock(t) \/ EndClean(t) \/ CleanFails(t) \/ Unlink(t)
      PROVE Attended'
  BY <1>13 DEF BeginClean, MeetLock, EndClean, CleanFails, Unlink
<1>14. ASSUME UNCHANGED vars PROVE Attended'
  BY <1>14 DEF vars
<1> QED
  BY <1>1, <1>2, <1>3, <1>4, <1>5, <1>6, <1>7, <1>8, <1>9, <1>10, <1>11, <1>12, <1>13, <1>14
  DEF Next, WriterStep, TaskStep, WorkerStep, Faults

(* A queued task has somebody to handle it: run's check of the lock and    *)
(* the workers that exit because another has the lock leave no task        *)
(* behind, however many writers and workers there are.                     *)
THEOREM TasksAttended == Spec => []Attended
<1>1. Init => Attended
  BY DEF Init, Attended, Queued, Absent
<1> QED
  BY <1>1, AttendedStep, InductiveInvariant, PTL DEF Spec

(* A VM with disks left to merge has a task in the queue or a writer about *)
(* to write one, unless a failed cleanup, a process that died, a deletion  *)
(* or a merge resumed in part has left it aside since the last cleanup     *)
(* that left nothing: releasing the lock before the task is written,       *)
(* dropping tasks that failed too often and deleting task files without    *)
(* waiting lose no merge.                                                  *)
THEOREM MergesAsked == Spec => []MergeAsked
<1>1. IInv => MergeAsked
  BY DEF IInv, TypeOK, Asked, Untried, Renamed, MergeAsked, Queued, Absent
<1> QED
  BY <1>1, InductiveInvariant, PTL

(* The types are an invariant.                                             *)
THEOREM TypeCorrect == Spec => []TypeOK
<1>1. IInv => TypeOK
  BY DEF IInv
<1> QED
  BY <1>1, InductiveInvariant, PTL

=============================================================================
