---------------------------- MODULE MergeWorker ----------------------------
(***************************************************************************)
(* The merge worker of a remote: after a backup, a writer that leaves      *)
(* disks to merge writes a task file in the queue directory and spawns a   *)
(* worker process, unless one has locked the queue.  The worker cleans and *)
(* merges the VM directories the tasks name, and stops when the queue has  *)
(* stayed empty for a while.                                               *)
(*                                                                         *)
(* Sources: merge-worker/index.mjs (run), merge-worker/cli.mjs (main),     *)
(* _MixinRemoteWriter (beforeBackup, afterBackup), the deletions of        *)
(* RemoteAdapter and the directory locks of the local handler.  What       *)
(* cleanVm does is RemoteDiskLineage: here it only settles whether a VM    *)
(* directory has disks left to merge.                                      *)
(***************************************************************************)
EXTENDS Integers, FiniteSets

CONSTANTS
    VMs,             \* VMs with backups on the remote
    MaxTasks,        \* tasks queued
    MaxPrefix,       \* prefixes a task name can take before ENAMETOOLONG
    Retries,         \* empty listings before the worker stops
    Concurrency,     \* tasks handled at once
    MaxDisturbances  \* faults and user deletions explored

ASSUME ConstantsAssumption ==
    /\ IsFiniteSet(VMs)
    /\ MaxTasks \in Nat
    /\ MaxPrefix \in Nat \ {0}
    /\ Retries \in Nat \ {0}
    /\ Concurrency \in Nat \ {0}
    /\ MaxDisturbances \in Nat

Tasks  == VMs \X (1 .. MaxTasks)   \* a VM and the number of the task
vm(t)  == t[1]
Absent == -1

VARIABLES
    (* the remote *)
    pending,      \* the VM directory has disks to merge
    interrupted,  \* VMs with a merge that may have been left half done
    vmLock,       \* who has locked each VM directory
    queue,        \* prefixes of the file of each task, or Absent
    (* the writers *)
    writer,       \* progress of the writer of each VM
    made,         \* tasks queued so far
    (* the deletions of the users *)
    deleting,     \* VMs with metadata deleted and a cleanup to come
    raced,        \* VMs with a deletion during the backup or cleanup under way
    (* the worker *)
    starting,     \* processes spawned that have not tried the lock yet
    pc,           \* the process that locked the queue last
    retries,      \* loop counter of listRetry
    entries,      \* task files of the pass not taken yet
    phase,        \* progress of each task in the pass
    unlinking,    \* task files whose deletion is in flight
    (* history *)
    waived,       \* VMs whose merge may have been left aside
    orphans,      \* tasks that were queued when a worker ended
    disturbances  \* faults and deletions so far

workerVars  == <<retries, entries, phase>>
historyVars == <<waived, orphans, disturbances>>
remoteVars  == <<pending, interrupted, deleting, raced>>
vars == <<remoteVars, vmLock, queue, writer, made, starting, pc, workerVars,
          unlinking, historyVars>>

Ended   == {"none", "bye", "fatal"}
Running == {"listing", "waiting", "pass"}
Files   == [task : Tasks, prefixes : 0 .. MaxPrefix]

(* Every variable has its type: the states of the writers, of the worker   *)
(* and of the locks, and the names a task file can have.                   *)
TypeOK ==
    /\ pending \in [VMs -> BOOLEAN]
    /\ interrupted \in SUBSET VMs
    /\ vmLock \in [VMs -> {"free", "writer", "worker", "deleter", "dead"}]
    /\ queue \in [Tasks -> Absent .. MaxPrefix]
    /\ writer \in [VMs -> {"idle", "backup", "queue", "check", "spawn"}]
    /\ made \in 0 .. MaxTasks
    /\ deleting \in SUBSET VMs
    /\ raced \in SUBSET VMs
    /\ starting \in Nat
    /\ pc \in Ended \cup Running \cup {"dead"}
    /\ retries \in 0 .. Retries
    /\ entries \in SUBSET Files
    /\ phase \in [Tasks -> {"none", "taken", "cleaning", "cleaned"}]
    /\ unlinking \in SUBSET Files
    /\ waived \in SUBSET VMs
    /\ orphans \in SUBSET Tasks
    /\ disturbances \in 0 .. MaxDisturbances

Queued      == {t \in Tasks : queue[t] # Absent}
InProgress  == {t \in Tasks : phase[t] # "none"}
QueueLocked == pc \notin Ended

Init ==
    /\ pending = [v \in VMs |-> FALSE]
    /\ interrupted = {}
    /\ vmLock = [v \in VMs |-> "free"]
    /\ deleting = {}
    /\ raced = {}
    /\ queue = [t \in Tasks |-> Absent]
    /\ writer = [v \in VMs |-> "idle"]
    /\ made = 0
    /\ starting = 0
    /\ pc = "none"
    /\ retries = 0
    /\ entries = {}
    /\ phase = [t \in Tasks |-> "none"]
    /\ unlinking = {}
    /\ waived = {}
    /\ orphans = {}
    /\ disturbances = 0

Disturb ==
    /\ disturbances < MaxDisturbances
    /\ disturbances' = disturbances + 1

-----------------------------------------------------------------------------
(* The writers.                                                            *)

(* Writers that may still queue a task, within the bound on the tasks.     *)
ToQueue == {v \in VMs : writer[v] \in {"backup", "queue"}}

(* beforeBackup: a locked directory makes the backup fail at once.  What   *)
(* the cleanups of the writer merge is settled by AfterBackup.             *)
BeforeBackup(v) ==
    /\ writer[v] = "idle"
    /\ made + Cardinality(ToQueue) < MaxTasks
    /\ vmLock[v] = "free"
    /\ vmLock' = [vmLock EXCEPT ![v] = "writer"]
    /\ writer' = [writer EXCEPT ![v] = "backup"]
    /\ UNCHANGED <<remoteVars, queue, made, starting, pc, workerVars, unlinking, historyVars>>

(* The cleanup that merges before a backup may fail: it is only logged.    *)
FirstCleanFails(v) ==
    /\ writer[v] = "backup"
    /\ Disturb
    /\ interrupted' = interrupted \cup {v}
    /\ UNCHANGED <<pending, deleting, raced, vmLock, queue, writer, made, starting, pc, workerVars,
                   unlinking, waived, orphans>>

(* afterBackup: the cleanup tells whether there is something to merge,     *)
(* unless a deletion meanwhile has changed it, and the lock is released    *)
(* before the task is queued.                                              *)
AfterBackupOnlyNew(v) ==
    /\ writer[v] = "backup"
    /\ \E merge, left \in BOOLEAN :
          /\ left # merge => v \in raced
          /\ pending' = [pending EXCEPT ![v] = left]
          /\ writer' = [writer EXCEPT ![v] =
                           IF merge /\ ~pending[v] THEN "queue" ELSE "idle"]
          /\ waived' = IF left /\ ~merge THEN waived \cup {v} ELSE waived \ {v}
    /\ vmLock' = [vmLock EXCEPT ![v] = "free"]
    /\ raced' = raced \ {v}
    /\ UNCHANGED <<interrupted, deleting, queue, made, starting, pc, workerVars, unlinking,
                   orphans, disturbances>>

AfterBackup(v) ==
    /\ writer[v] = "backup"
    /\ \E merge, left \in BOOLEAN :
          /\ left # merge => v \in raced
          /\ pending' = [pending EXCEPT ![v] = left]
          /\ writer' = [writer EXCEPT ![v] = IF merge THEN "queue" ELSE "idle"]
          /\ waived' = IF left /\ ~merge THEN waived \cup {v} ELSE waived \ {v}
    /\ vmLock' = [vmLock EXCEPT ![v] = "free"]
    /\ raced' = raced \ {v}
    /\ UNCHANGED <<interrupted, deleting, queue, made, starting, pc, workerVars, unlinking,
                   orphans, disturbances>>

(* _cleanVm swallows the error of the cleanup: no merge is asked for.      *)
AfterBackupFails(v) ==
    /\ writer[v] = "backup"
    /\ Disturb
    /\ \E left \in BOOLEAN : pending' = [pending EXCEPT ![v] = left]
    /\ writer' = [writer EXCEPT ![v] = "idle"]
    /\ vmLock' = [vmLock EXCEPT ![v] = "free"]
    /\ raced' = raced \ {v}
    /\ waived' = waived \cup {v}
    /\ UNCHANGED <<interrupted, deleting, queue, made, starting, pc, workerVars, unlinking,
                   orphans>>

(* The task file gets a name of its own: the date and a random suffix.     *)
QueueTaskAlone(v) ==
    /\ writer[v] = "queue"
    /\ queue' = [queue EXCEPT ![<<v, made + 1>>] = 0]
    /\ made' = made + 1
    /\ writer' = [writer EXCEPT ![v] = IF Queued = {} THEN "check" ELSE "idle"]
    /\ waived' = waived \ {v}
    /\ UNCHANGED <<remoteVars, vmLock, starting, pc, workerVars, unlinking, orphans, disturbances>>

QueueTask(v) ==
    /\ writer[v] = "queue"
    /\ queue' = [queue EXCEPT ![<<v, made + 1>>] = 0]
    /\ made' = made + 1
    /\ writer' = [writer EXCEPT ![v] = "check"]
    /\ waived' = waived \ {v}
    /\ UNCHANGED <<remoteVars, vmLock, starting, pc, workerVars, unlinking, orphans, disturbances>>

QueueTaskFails(v) ==
    /\ writer[v] = "queue"
    /\ Disturb
    /\ writer' = [writer EXCEPT ![v] = "idle"]
    /\ waived' = waived \cup {v}
    /\ UNCHANGED <<remoteVars, vmLock, queue, made, starting, pc, workerVars, unlinking, orphans>>

(* run: no worker is spawned while the queue is locked, be it by a worker  *)
(* that will not list the queue again or by a dead one.                    *)
CheckLock(v) ==
    /\ writer[v] = "check"
    /\ writer' = [writer EXCEPT ![v] = IF QueueLocked THEN "idle" ELSE "spawn"]
    /\ orphans' = IF pc = "dead" THEN orphans \cup Queued ELSE orphans
    /\ UNCHANGED <<remoteVars, vmLock, queue, made, starting, pc, workerVars, unlinking,
                   waived, disturbances>>

Spawn(v) ==
    /\ writer[v] = "spawn"
    /\ starting' = starting + 1
    /\ writer' = [writer EXCEPT ![v] = "idle"]
    /\ UNCHANGED <<remoteVars, vmLock, queue, made, pc, workerVars, unlinking, historyVars>>

(* A worker that cannot be spawned is not reported.                        *)
SpawnFails(v) ==
    /\ writer[v] = "spawn"
    /\ Disturb
    /\ writer' = [writer EXCEPT ![v] = "idle"]
    /\ orphans' = orphans \cup Queued
    /\ UNCHANGED <<remoteVars, vmLock, queue, made, starting, pc, workerVars, unlinking, waived>>

(* The process of the writer dies; the lock it leaves expires later.       *)
KillWriter(v) ==
    /\ writer[v] # "idle"
    /\ Disturb
    /\ writer' = [writer EXCEPT ![v] = "idle"]
    /\ IF writer[v] = "backup"
       THEN /\ vmLock' = [vmLock EXCEPT ![v] = "dead"]
            /\ \E left \in BOOLEAN : pending' = [pending EXCEPT ![v] = left]
            /\ interrupted' = interrupted \cup {v}
            /\ raced' = raced \ {v}
       ELSE UNCHANGED <<vmLock, pending, interrupted, raced>>
    /\ IF writer[v] \in {"backup", "queue"}
       THEN waived' = waived \cup {v} /\ UNCHANGED orphans
       ELSE orphans' = orphans \cup Queued /\ UNCHANGED waived
    /\ UNCHANGED <<deleting, queue, made, starting, pc, workerVars, unlinking>>

-----------------------------------------------------------------------------
(* The worker: the lock of the queue and its listings.                     *)

TakeQueueLock ==
    /\ starting > 0
    /\ ~QueueLocked
    /\ starting' = starting - 1
    /\ pc' = "listing"
    /\ retries' = 0
    /\ UNCHANGED <<remoteVars, vmLock, queue, writer, made, entries, phase, unlinking, historyVars>>

(* The lock is not waited for: the process exits.                          *)
LoseQueueLock ==
    /\ starting > 0
    /\ QueueLocked
    /\ starting' = starting - 1
    /\ orphans' = IF pc = "dead" THEN orphans \cup Queued ELSE orphans
    /\ UNCHANGED <<remoteVars, vmLock, queue, writer, made, pc, workerVars, unlinking,
                   waived, disturbances>>

ListedFresh == {[task |-> t, prefixes |-> 0] : t \in {u \in Queued : queue[u] = 0}}
Listed      == {[task |-> t, prefixes |-> queue[t]] : t \in Queued}

(* listRetry                                                               *)
List ==
    /\ pc = "listing"
    /\ IF Listed # {}
       THEN pc' = "pass" /\ entries' = Listed /\ retries' = 0
       ELSE pc' = "waiting" /\ retries' = retries + 1 /\ UNCHANGED entries
    /\ UNCHANGED <<remoteVars, vmLock, queue, writer, made, starting, phase, unlinking,
                   historyVars>>

Wait ==
    /\ pc = "waiting"
    /\ retries < Retries
    /\ pc' = "listing"
    /\ UNCHANGED <<remoteVars, vmLock, queue, writer, made, starting, workerVars, unlinking,
                   historyVars>>

(* The last wait has no listing after it.                                  *)
Leave ==
    /\ pc = "waiting"
    /\ retries = Retries
    /\ pc' = "bye"
    /\ retries' = 0
    /\ orphans' = orphans \cup Queued
    /\ UNCHANGED <<remoteVars, vmLock, queue, writer, made, starting, entries, phase, unlinking,
                   waived, disturbances>>

-----------------------------------------------------------------------------
(* The worker: one task.                                                   *)

(* The names are sorted and a prefix sorts after the dates: the tasks that *)
(* failed less come first.                                                 *)
NextEntry(f) ==
    /\ pc = "pass"
    /\ \A g \in entries : f.prefixes <= g.prefixes
    /\ Cardinality(InProgress) < Concurrency

TakeAgain(f) ==
    /\ NextEntry(f)
    /\ queue[f.task] = f.prefixes
    /\ queue' = [queue EXCEPT ![f.task] = @ + 1]
    /\ entries' = entries \ {f}
    /\ phase' = [phase EXCEPT ![f.task] = "taken"]
    /\ UNCHANGED <<remoteVars, vmLock, writer, made, starting, pc, retries, unlinking, historyVars>>

Take(f) ==
    /\ NextEntry(f)
    /\ queue[f.task] = f.prefixes
    /\ f.prefixes < MaxPrefix
    /\ queue' = [queue EXCEPT ![f.task] = @ + 1]
    /\ entries' = entries \ {f}
    /\ phase' = [phase EXCEPT ![f.task] = "taken"]
    /\ UNCHANGED <<remoteVars, vmLock, writer, made, starting, pc, retries, unlinking, historyVars>>

(* The process ends, here or when it is killed: the locks it has on the VM *)
(* directories are released by its exit handler, or stay and expire.       *)
EndWorker(end, lock) ==
    /\ pc' = end
    /\ vmLock' = [v \in VMs |-> IF vmLock[v] = "worker" THEN lock ELSE vmLock[v]]
    /\ retries' = 0
    /\ entries' = {}
    /\ phase' = [t \in Tasks |-> "none"]
    /\ orphans' = orphans \cup Queued
    /\ waived' = waived \cup {vm(t) : t \in InProgress}
    /\ interrupted' = interrupted \cup {v \in VMs : vmLock[v] = "worker"}
    /\ raced' = {v \in raced : vmLock[v] # "worker"}
    /\ UNCHANGED <<pending, deleting>>

(* A rename that fails stops the worker: the task had too many prefixes    *)
(* and is deleted, or it was listed while its deletion was in flight, or   *)
(* the remote fails.                                                       *)
TakeFails(f) ==
    /\ NextEntry(f)
    /\ \/ /\ queue[f.task] = f.prefixes
          /\ f.prefixes = MaxPrefix
          /\ queue' = [queue EXCEPT ![f.task] = Absent]
          /\ UNCHANGED disturbances
       \/ /\ queue[f.task] # f.prefixes
          /\ UNCHANGED <<queue, disturbances>>
       \/ /\ Disturb
          /\ UNCHANGED queue
    /\ EndWorker("fatal", "free")
    /\ UNCHANGED <<writer, made, starting, unlinking>>

(* So does a listing that fails.                                           *)
ListFails ==
    /\ pc = "listing"
    /\ Disturb
    /\ EndWorker("fatal", "free")
    /\ UNCHANGED <<queue, writer, made, starting, unlinking>>

(* adapter.cleanVm: the lock of the directory is not waited for; a task    *)
(* that fails stays in the queue.                                          *)
BeginClean(t) ==
    /\ phase[t] = "taken"
    /\ vmLock[vm(t)] = "free"
    /\ vmLock' = [vmLock EXCEPT ![vm(t)] = "worker"]
    /\ phase' = [phase EXCEPT ![t] = "cleaning"]
    /\ UNCHANGED <<remoteVars, queue, writer, made, starting, pc, retries, entries, unlinking,
                   historyVars>>

MeetLock(t) ==
    /\ phase[t] = "taken"
    /\ vmLock[vm(t)] # "free"
    /\ phase' = [phase EXCEPT ![t] = "none"]
    /\ waived' = IF vmLock[vm(t)] \in {"deleter", "dead"} THEN waived \cup {vm(t)} ELSE waived
    /\ UNCHANGED <<remoteVars, vmLock, queue, writer, made, starting, pc, retries, entries,
                   unlinking, orphans, disturbances>>

(* A cleanup merges all there is, but for what it could not see: of a      *)
(* chain with an interrupted merge it only merges the recorded part;       *)
(* metadata deleted meanwhile leaves more disks to merge, or makes the     *)
(* cleanup miss a file, which the worker takes for a missing directory.    *)
Partial(v) == v \in interrupted \cup raced

(* The task ends all the same.                                             *)
EndClean(t) ==
    /\ phase[t] = "cleaning"
    /\ \E left \in BOOLEAN :
          /\ left => Partial(vm(t))
          /\ pending' = [pending EXCEPT ![vm(t)] = left]
          /\ waived' = IF left THEN waived \cup {vm(t)} ELSE waived \ {vm(t)}
          /\ interrupted' = IF left THEN interrupted \cup {vm(t)} ELSE interrupted \ {vm(t)}
    /\ raced' = raced \ {vm(t)}
    /\ vmLock' = [vmLock EXCEPT ![vm(t)] = "free"]
    /\ phase' = [phase EXCEPT ![t] = "cleaned"]
    /\ UNCHANGED <<deleting, queue, writer, made, starting, pc, retries, entries, unlinking,
                   orphans, disturbances>>

CleanFails(t) ==
    /\ phase[t] = "cleaning"
    /\ Disturb
    /\ interrupted' = interrupted \cup {vm(t)}
    /\ raced' = raced \ {vm(t)}
    /\ vmLock' = [vmLock EXCEPT ![vm(t)] = "free"]
    /\ phase' = [phase EXCEPT ![t] = "none"]
    /\ waived' = waived \cup {vm(t)}
    /\ UNCHANGED <<pending, deleting, queue, writer, made, starting, pc, retries, entries,
                   unlinking, orphans>>

(* The task file is deleted without waiting for it.                        *)
Unlink(t) ==
    /\ phase[t] = "cleaned"
    /\ unlinking' = unlinking \cup {[task |-> t, prefixes |-> queue[t]]}
    /\ phase' = [phase EXCEPT ![t] = "none"]
    /\ UNCHANGED <<remoteVars, vmLock, queue, writer, made, starting, pc, retries, entries,
                   historyVars>>

(* A name that no longer exists is ignored.                                *)
FinishUnlink(f) ==
    /\ unlinking' = unlinking \ {f}
    /\ queue' = [queue EXCEPT ![f.task] = IF @ = f.prefixes THEN Absent ELSE @]
    /\ UNCHANGED <<remoteVars, vmLock, writer, made, starting, pc, workerVars, historyVars>>

(* The failure is only logged; a process that ended may not have done it.  *)
UnlinkFails(f) ==
    /\ IF QueueLocked /\ pc # "dead" THEN Disturb ELSE UNCHANGED disturbances
    /\ unlinking' = unlinking \ {f}
    /\ UNCHANGED <<remoteVars, vmLock, queue, writer, made, starting, pc, workerVars, waived,
                   orphans>>

EndPass ==
    /\ pc = "pass"
    /\ entries = {}
    /\ InProgress = {}
    /\ pc' = "listing"
    /\ UNCHANGED <<remoteVars, vmLock, queue, writer, made, starting, workerVars, unlinking,
                   historyVars>>

-----------------------------------------------------------------------------
(* The environment.                                                        *)

KillWorker ==
    /\ pc \in Running
    /\ Disturb
    /\ EndWorker("dead", "dead")
    /\ UNCHANGED <<queue, writer, made, starting, unlinking>>

(* A lock that is no longer refreshed becomes stale.                       *)
ExpireQueueLock ==
    /\ pc = "dead"
    /\ pc' = "fatal"
    /\ UNCHANGED <<remoteVars, vmLock, queue, writer, made, starting, workerVars, unlinking,
                   historyVars>>

ExpireVmLock(v) ==
    /\ vmLock[v] = "dead"
    /\ vmLock' = [vmLock EXCEPT ![v] = "free"]
    /\ UNCHANGED <<remoteVars, queue, writer, made, starting, pc, workerVars, unlinking,
                   historyVars>>

-----------------------------------------------------------------------------
(* The deletions of the users.                                             *)

(* What a deletion leaves to merge, nobody asks to merge.                  *)
Unasked(v) ==
    \E left \in BOOLEAN :
        /\ pending' = [pending EXCEPT ![v] = left]
        /\ waived' = IF left /\ ~pending[v] THEN waived \cup {v} ELSE waived

(* deleteVmBackups deletes metadata without the lock of the directory,     *)
(* even while somebody else cleans it.                                     *)
DeleteMetadata(v) ==
    /\ v \notin deleting
    /\ Disturb
    /\ Unasked(v)
    /\ deleting' = deleting \cup {v}
    /\ raced' = IF vmLock[v] \in {"writer", "worker"} THEN raced \cup {v} ELSE raced
    /\ UNCHANGED <<interrupted, vmLock, queue, writer, made, starting, pc, workerVars, unlinking,
                   orphans>>

(* The cleanup that follows, in the main process, does not wait for the    *)
(* lock: it rejects and is not tried again.                                *)
BeginDelete(v) ==
    /\ v \in deleting
    /\ deleting' = deleting \ {v}
    /\ vmLock' = [vmLock EXCEPT ![v] = IF @ = "free" THEN "deleter" ELSE @]
    /\ UNCHANGED <<pending, interrupted, raced, queue, writer, made, starting, pc, workerVars,
                   unlinking, historyVars>>

(* It merges if the deletion is immediate, or leaves the disks to the next *)
(* backup, and may fail.                                                   *)
EndDelete(v) ==
    /\ vmLock[v] = "deleter"
    /\ vmLock' = [vmLock EXCEPT ![v] = "free"]
    /\ Unasked(v)
    /\ interrupted' = interrupted \cup {v}
    /\ UNCHANGED <<deleting, raced, queue, writer, made, starting, pc, workerVars, unlinking,
                   orphans, disturbances>>

-----------------------------------------------------------------------------

WriterStep(v) == AfterBackup(v) \/ QueueTask(v) \/ CheckLock(v) \/ Spawn(v)

TaskStep(t) == BeginClean(t) \/ MeetLock(t) \/ EndClean(t) \/ Unlink(t)

WorkerStep ==
    \/ TakeQueueLock \/ LoseQueueLock
    \/ List \/ Wait \/ Leave
    \/ \E f \in entries : Take(f) \/ TakeFails(f)
    \/ EndPass

Faults ==
    \/ \E v \in VMs : FirstCleanFails(v) \/ AfterBackupFails(v) \/ QueueTaskFails(v)
                      \/ SpawnFails(v) \/ KillWriter(v)
    \/ \E t \in Tasks : CleanFails(t)
    \/ \E f \in unlinking : UnlinkFails(f)
    \/ ListFails \/ KillWorker

Next ==
    \/ \E v \in VMs : BeforeBackup(v) \/ WriterStep(v)
    \/ WorkerStep
    \/ \E t \in Tasks : TaskStep(t)
    \/ \E f \in unlinking : FinishUnlink(f)
    \/ \E v \in VMs : ExpireVmLock(v) \/ DeleteMetadata(v) \/ BeginDelete(v) \/ EndDelete(v)
    \/ ExpireQueueLock
    \/ Faults

(* The process of the worker goes on.  Nothing else has to: not the        *)
(* writers, the deletions by users or of task files, or the expiry of a    *)
(* lock.                                                                   *)
Fairness == WF_vars(WorkerStep \/ \E t \in Tasks : TaskStep(t))

Spec == Init /\ [][Next]_vars /\ Fairness

-----------------------------------------------------------------------------
(* A VM whose disks are left to merge has a task in the queue, or a writer *)
(* about to queue one: the lock is released before the task is written,    *)
(* tasks are retried, deleted without waiting, and dropped after too many  *)
(* failures.  The merge is only left aside after a failed cleanup, the     *)
(* death of a process, a deletion by a user, or a cleanup that resumed an  *)
(* interrupted merge, and only until a cleanup leaves nothing to merge or  *)
(* a new task is queued.                                                   *)
MergeAsked ==
    \A v \in VMs :
        pending[v] => \/ v \in waived
                      \/ writer[v] \in {"backup", "queue"}
                      \/ \E t \in Queued : vm(t) = v

(* A queued task has somebody to handle it: a writer that has not called   *)
(* run yet, a worker, or one that is starting.  run checks the lock before *)
(* it spawns and two writers may spawn together, but only a worker that    *)
(* ends or cannot start leaves tasks behind.                               *)
Attended ==
    \A t \in Queued :
        \/ t \in orphans
        \/ \E v \in VMs : writer[v] \in {"check", "spawn"}
        \/ starting > 0
        \/ pc \in Running

(* A task that is queued while the worker has a listing left to do is      *)
(* handled, or dropped after too many failures, whatever the other tasks   *)
(* do, unless a rename that fails or the death of the process stops the    *)
(* worker.                                                                 *)
TaskHandled ==
    \A t \in Tasks :
        (/\ queue[t] # Absent
         /\ pc \in {"listing", "pass"} \/ (pc = "waiting" /\ retries < Retries))
            ~> (queue[t] = Absent \/ pc \in {"fatal", "dead"})

=============================================================================
