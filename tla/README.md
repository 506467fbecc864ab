# Xen Orchestra backups: a TLA+ verification project

Xen Orchestra is an administration tool for XenServer / XCP-ng hosts.  The
part of it that can destroy a user's data when it is wrong is its backup
engine, and in particular what it does on the *remotes* (NFS, SMB, S3 or local
directories) where backups are stored: chains of differencing disks are
extended by every backup, merged by every retention, and repaired after every
interruption.  All of it is file operations by processes that may die at any
moment.  This project models that core, and the parts around it whose state is
shared by concurrent calls: the retention, the listing xo-server keeps of a
repository, the NBD client disks are read through, and the writable device of a
live mount.

## 1. Inventory

### 1.1 Components and how they interact

| component | source | state | operations |
|---|---|---|---|
| disk merge | `backup-archive/src/disks/MergeRemoteDisk.mjs` | merge state file next to the parent, position, in-flight blocks | `merge`, `#step_mergeBlocks`, `#mergeBlocks`, `#step_cleanup`, `#cleanup`, `findInterruptedMerges` |
| VHD on a remote | `backup-archive/src/disks/RemoteVhdDisk.mjs`, `RemoteVhdDiskChain.mjs`, `packages/vhd-lib/Vhd` | header, footer (twice), block allocation table, block files, alias files | `init`, `mergeBlock`, `flushMetadata`, `mergeMetadata`, `rename`, `unlink`, `clean` |
| disk lineage of a VM | `backup-archive/src/RemoteDiskLineage.mts` | the disks of one directory, parent links, broken disks | `init`, `clean`, `#mergeChain`, `#cleanOrphanDataFiles` |
| backup archives of a VM | `backup-archive/src/VmBackupDirectory.mts`, `VmIncrementalBackupArchive.mts`, `VmFullBackupArchive.mts` | metadata JSON, the disks it names, the cache | `init`, `check`, `clean`, `updateMetadata` |
| remote adapter | `backups/RemoteAdapter.mjs` | cache of metadata, archives | write, list, delete, `cleanVm` |
| backup journal | `backups/_backupJournal.mjs` | hourly journal files, readers' cursors | `writeBackupJournalEntry`, `readBackupJournal` |
| retention | `backups/_getOldEntries.mjs` | none (pure) | `getOldEntries`, `getLtrEntries` |
| incremental writer | `backups/_runners/_writers/IncrementalRemoteWriter.mjs`, `_MixinRemoteWriter.mjs` | lock, chosen base, files written | `checkBaseVdis`, `beforeBackup`, `_prepare`, `_transfer`, `afterBackup` |
| merge worker | `backups/merge-worker` | task queue directory, its lock | `run`, `main`, `listRetry` |
| backup listing of xo-server | `packages/xo-server/src/xo-mixins/backups-ng/_vmBackupsCache.mjs`, `index.mjs` | one entry per repository: backups, cursor, stale mark; the shared read; what was announced | `get`, `refresh`, `delete`, `remove`, `#build`, `#replay`, polling |
| live mount device | `@vates/iscsi/src/CachedDiskBlockDevice.mts` | local store, bitmap of its blocks, fetches in flight | `open`, `read`, `write`, `hydrate`, `close` |
| NBD client | `@vates/nbd-client/AbstractNbdClient.mjs`, `multi.mjs` | transport, generation, backlog of queries, shared response reader | `connect`, `reconnect`, `disconnect`, `readBlock` |
| concurrency helpers | `@vates/async-each`, `@vates/coalesce-calls`, `@vates/disposable` | running iterations; last call; instances | iteration, coalescing, `deduped` |

A backup job runs one *writer* per remote.  The writer locks the VM directory
(`beforeBackup`, released by `afterBackup`), cleans it (`cleanVm` with
`lock: false`, since it has the lock: repair, delete, merge),
checks which snapshots can be the base of a delta (`checkBaseVdis`), writes
the disks then the metadata JSON, deletes the entries retention condemns and
either cleans again or queues the directory for a merge worker, a separate
process.  `cleanVm` reads the whole directory: the `VmBackupDirectory` lists the
metadata, each `RemoteDiskLineage` lists the disks and finds the chains that
are no longer complete, those that no metadata uses and those that must be
merged; `MergeRemoteDisk` does the merge through `RemoteVhdDisk`.

What a repository holds is recorded three times: the metadata files,
`cache.json.gz`, and the journal.  xo-server lists a repository from the cache,
then follows the journal, and announces the differences to its collections.  A
backup is read back by restoring it or by mounting it: a live mount serves a
disk of the repository through iSCSI, copying its blocks into a local store on
demand.  The disks of a VM are read from the host through NBD.

### 1.2 What is hard

* every file operation of a merge can fail, and the process can die between
  any two of them; the state file, the alias files, the two footers of a VHD and
  the metadata JSON are all written at different moments;
* blocks are merged concurrently and the moves under way when one fails are not
  cancelled (`asyncEach` rejects at once), so that an abandoned attempt keeps
  moving blocks and rewriting the state file beside the next one;
* what `cleanVm` finds after a crash is an intermediate state of a merge, and it
  decides from it what to delete;
* deleting a backup, by retention or by a user, removes its metadata without
  taking the lock: a cleanup under way works from what it read before;
* the cache and the journal are updated without a lock between processes, and
  the listing that reads them is itself invalidated while reads are in flight;
* the NBD client replaces its stream and its backlog under the calls that use
  them, and an attempt that timed out goes on;
* the blocks of a live mount are fetched late, shared, written over, and resumed
  from a bitmap that is saved after the blocks;
* locks are not waited for: a backup, a cleanup or a second worker that meets one
  fails at once, and a lock survives its holder until it is stale.

`PROJECT.json` lists these hazards one by one, at the line where they bite, with
the properties that would catch them.

### 1.3 What makes each component correct

| component | promise |
|---|---|
| disk merge | after a merge, however often it was interrupted, the parent reads as the chain did; until then no block is lost; nothing is removed before it is merged; the merge ends |
| disk lineage, archives | a backup that was recorded and not deleted can be restored, exactly; a deleted one stays deleted; what no backup uses goes away |
| incremental writer | a delta is only chained onto a disk that can be restored; a chain has no fork |
| merge worker | a merge a backup asked for is not forgotten; a queued task has somebody to handle it and is handled |
| backup journal | a reader misses no entry |
| backup cache | what the cache lists is what the metadata files say |
| retention | the most recent entries and the oldest of each of the last non-empty periods are kept, nothing else; and no sequence of runs, each deciding from what the previous ones left, loses a backup the settings keep of the whole history |
| backup listing | listeners mirror what is announced; a deletion by this server is visible at once; a removed repository does not come back; the listing ends up with the files |
| NBD client | a caller gets the data of its own query or an error; it is never forgotten; no transport is left open |
| live mount device | it is a block device: each request takes effect at one moment, and a restart loses only what was not saved |

## 2. Modules

| module | what it is |
|---|---|
| `MergeRemoteDisk` | one merge of a chain into its parent, block by block, with concurrent blocks, failed and overlapping attempts, and the death of the process |
| `MergeRemoteDiskProofs` | its inductive invariant and the safety theorems, for all values of the constants |
| `RemoteDiskLineage` | the life of one VDI directory over many backups, deletions and cleanups, file operation by file operation; a merge's blocks are moved in one step here, which is what `MergeRemoteDisk` justifies |
| `RemoteDiskLineageProofs` | its inductive invariant and the safety theorems, for the fault points of `lineage_history` |
| `MergeWorker` | the writers of several VMs, the queue of merge tasks and the worker processes, with the locks of the queue and of the VM directories; a whole `cleanVm` is a begin and an end here |
| `MergeWorkerProofs` | its inductive invariant and the theorems that no merge is forgotten and no task left unattended |
| `RetentionPolicy` | what retention may delete, and what runs together promise: the abstract specification |
| `Retention` | `getOldEntries` and the writers' runs as the code computes them; implements `RetentionPolicy` (same variables) |
| `RetentionPolicyProofs` | the promise, for every calendar and all settings |
| `BackupRepository` | metadata files, cache and journal of a VM, and the two processes that change them |
| `VmBackupsCache` | xo-server's listing, composed with `BackupRepository` |
| `VmBackupsCacheProofs` | its inductive invariants and the theorems: listeners mirror the collection, deletions are seen, removed repositories stay away |
| `NbdClient` | one NBD connection, its reconnections and its place in the pool |
| `NbdClientProofs` | its inductive invariants and the theorems: right data, one reader, no caller forgotten, no transport leaked |
| `BlockDevice` | what a read-write block device promises: the abstract specification |
| `CachedDiskBlockDevice` | the device of a live mount; implements `BlockDevice` under a refinement mapping |
| `CachedDiskBlockDeviceProofs` | its inductive invariant, the safety theorems and the refinement |
| `MCRetention`, `MCCachedDiskBlockDevice` | the constants of their runs |

### 2.1 `MergeRemoteDisk`

State on the remote: the allocation table and the block files of each child and
of the parent, the parent's footers, what the path of each child leads to, and
the merge state file (`absent`, `corrupt`, or a step with a position).  State in
memory, one copy per attempt: `pc`, whether the attempt is resuming, its
position, the parent's table as it is in memory (`memBat`), and the phase of
each block (`todo`, `merging`, `copying`, `moved`, `merged`).

| action | code |
|---|---|
| `Start` | `merge`: reads the state file; only a resumed merge opens the parent with `force` |
| `ResumeBlocks`, `FreshBlocks` | `#step_mergeBlocks`, both branches |
| `BeginBlock` ... `EndBlock` | one iteration of `#mergeBlocks`, at most `Concurrency` at a time; `MoveBlock`, `AlreadyMovedBlock`, `MissingBlock` are `mergeBlock` for VHD directories, `CopyBlock`, `CopiedBlock` for files; `EndBlock` computes the position and may write the state (throttled) |
| `FailBlock`, `Fail`, `Abandon` | an error; the merge rejects at once and the iterations under way go on |
| `EndBlocks`, `FlushMetadata`, `MergeMetadata` | the end of `#mergeBlocks`, `flushMetadata`, `mergeMetadata` |
| `BeginCleanup`, `UnlinkData`, `UnlinkPath`, `EndUnlink` | `#step_cleanup` up to the rename |
| `UnlinkTarget`, `CreateAlias`, `UnlinkParentAlias`, `RenameParent` | `rename` |
| `DropState` | `#cleanup`, the deletion of the state file |
| `Crash` | the process dies |

The content of a block is abstracted to who wrote it (the parent, child `c`, or
torn).  `writeState` may be done, lost (the error is only logged) or torn.

### 2.2 `RemoteDiskLineage`

Backups, disk paths and data are numbered in the order of the backups: backup
`i` is recorded at path `i`.  A disk *holds* the changes of some backups, and a
backup *needs* those of its whole chain; both are sets of numbers.  `entry` is
the alias (or the file), `data` the VHD, with uuid, parent, block table and
content; `mergeState` and `metadata` are the other files.  `base` is the
snapshot last marked as exported.  The rest is the memory of the process that
holds the lock, named after the code (`toDelete`, `toMerge` and
`#diskPaths` are `todo`, `resumes`/`merges` and `registered`).

| part | code |
|---|---|
| `Present`, `Duplicate`, `parentOf`, `childOf`, `BrokenDisks` | `RemoteDiskLineage.init` |
| `isComplete`, `RemoveMetadata`, `KeepMetadata`, `BeginUpdate`, `EndUpdate` | `VmIncrementalBackupArchive.check`, `clean`, `updateMetadata` |
| `Walk`, `pin`, `Refused`, `Resumed`, `Dropped`, `Roots`, `toDelete`, `toMerge`, `Scan` | `RemoteDiskLineage.clean`, the decisions |
| `DeleteData`, `DeletePath`, `SkipDelete`, `EndDelete` | the deletions |
| `StartMerge` ... `DropState` | `#mergeChain` with `openDiskChain` and the merge |
| `CleanOrphanDataFiles`, `EndClean` | the end of the cleanup |
| `WriteDisk`, `CreateAlias`, `BeginRecord`, `EndRecord`, `MarkExported` | the backup, from `checkBaseVdis` to `markExportSuccessfull` |
| `Expire` | `deleteDeltaVmBackups` |
| `Fault` | an operation fails, or the process dies and its lock is lost |
| `Lose` | a disk becomes unreadable between two runs; the properties are about the backups that did not need it |

A file operation that can be seen half done (the two unlinks of an alias, a
JSON file rewritten in place) is two actions.

### 2.3 `MergeWorker`

On the remote: for each VM directory whether it has disks left to merge
(`pending`), whether a merge may have been left half done (`interrupted`) and who has its lock; for each task the number of `_` its file name
has (`queue`), and the deletions of task files that are in flight.  A task is a VM and a
number: the date and the random suffix of the name make it unique.  `pc` is the
process that locked the queue last; `dead` means it died and its lock is not
stale yet.  `phase` is how far each task of a pass is.  `deleting` and `raced` are about
the deletions by users, which take no lock: a cleanup still to come, and a deletion during the backup or
cleanup under way.

| action | code |
|---|---|
| `BeforeBackup`, `AfterBackup`, `QueueTask` | `beforeBackup`, `afterBackup`: the lock is released, then the task is written; `_cleanVm` swallows errors (`FirstCleanFails` before the backup, `AfterBackupFails` after it) |
| `CheckLock`, `Spawn` | `run` |
| `TakeQueueLock`, `LoseQueueLock` | a worker process starts, and exits if the queue is locked |
| `List`, `Wait`, `Leave` | `listRetry`; after the last wait the worker leaves without another listing |
| `Take`, `TakeFails` | the rename that moves a task to the end; any error stops the worker, after deleting the task if its name is too long |
| `BeginClean`, `MeetLock`, `EndClean`, `CleanFails` | `adapter.cleanVm` under the lock of the VM directory; it may end well and leave disks to merge (`Partial`) |
| `Unlink`, `FinishUnlink`, `UnlinkFails` | the deletion of the task file, which is not waited for |
| `KillWriter`, `KillWorker`, `ExpireVmLock`, `ExpireQueueLock` | processes that die, and the expiry of their locks |
| `DeleteMetadata`, `BeginDelete`, `EndDelete` | `deleteVmBackups`, in the main process: metadata is unlinked without the lock, then a cleanup takes it or, if it is taken, is given up |

A cleanup that succeeds does not always leave nothing to merge.  When it resumes an interrupted
merge it pins the chain the state file recorded, and what was deleted since stays for the next cleanup;
metadata a user deletes meanwhile is not seen, or makes the cleanup fail with `ENOENT`, which the
worker takes for a missing directory.  The worker deletes its task in both cases.  `EndClean` may
leave disks in these cases and in no other.

Two history variables say what the properties do not promise.  `waived`: the VMs
whose merge was left aside by a failed cleanup, a process that died, a deletion by a user (which queues
no task), a task that met its lock, or such a partial cleanup.  A VM is waived until a
cleanup leaves nothing to merge or a new task is queued; without a new backup nobody need merge its
disks.  `orphans`: the tasks
that were queued when a worker ended, or when `run` met the lock of a dead one; the next
worker handles them.  Both happen: the worker retries a task without a pause, so the
task of a VM that is being backed up is dropped after some 220 passes (the name of a
file has at most 255 bytes) and takes the worker with it, and a task written during the last wait of the worker, ten
seconds, waits for the next backup.

### 2.4 `RetentionPolicy` and `Retention`

Entries are the backups of one VM by one schedule, named by their timestamp; a
duration (day, week...) is any monotone division of time in buckets.  `Kept`
says declaratively what the settings keep of a set of entries.  `Visit`,
`GetLtrEntries` and `GetOldEntries` are the walk of `_getOldEntries.mjs`, with
its countdowns; `GetEntryStatus` gives the tags of a new backup.  `Prepare`,
`Transfer`, `Fail`, `Cleanup` are a run: the old entries are computed before the
transfer, cut at `maxMergedDeltasPerRun`, and deleted before or after it
(`deleteFirst`), newest first and one by one, any suffix of them when a deletion
fails.  The history variables `made` and `tagged` say what the properties are about.
The settings of a job do not change, nobody deletes a backup by hand, and its
mode (full or incremental) is one.

### 2.5 `BackupRepository` and `VmBackupsCache`

`BackupRepository` has two processes: `job`, which adds backups under the lock of the
directory (`WriteVmBackupMetadata`: file, journal, cache), and `server`, from which a
user deletes them without it (`DeleteVmBackup`: file, cache, journal, then `cleanVm`).
`UpdateCacheRead` and `UpdateCacheWrite` are `_updateCache`; `CleanScan`,
`CheckCacheCount`, `RegenerateCache` are the cleanup, `CleanRefused` one that
meets the lock.  Journal entries are stamped before they are written.

`VmBackupsCache` adds the listing.  An entry and the object of its backups are one
object with an identity, since reads, `#announced` and `#entries` may refer to
different ones.

| action | code |
|---|---|
| `Get`, `Poll`, `Start`, `NeedsBuild` | `get`, `#refresh`, `#read`: the calls share the read in progress |
| `Build`, `ListVmBackups`, `WriteListedCache`, `Built` | `#build`, `listAll`, `_readCacheListVmBackups` |
| `Replay`, `ReadJournal`, `Replayed`, `Refused`, `ReadFailed` | `#replay` and `readBackupJournalEvents`, with a source without journal and errors |
| `ReadAgain`, `Refreshed`, `Settle` | the loop of `#refresh` and the end of `get` |
| `Refresh`, `RefreshForOthers` | `refresh`, after a deletion, a job, and by the timer |
| `RebuildInterval` | an hour has gone by |
| `Delete`, `Remove` | `delete`, `remove` |

The cursor of a new entry is five minutes behind the clock; the model assumes that
an operation on the repository takes less than that (`BootstrapCursors`).  Not modelled:
`getOneVm`, the refresh window (a `get` inside it changes nothing), `journalConfirmed`
and `mustExist`, re-pointed remotes (`isSameRepository`), `change` events, the death of
the server process (its listing dies with it), and, in `cleanVm`, the removal of
incomplete metadata.

### 2.6 `NbdClient`

A transport is named by the generation of the attempt that opened it; per
transport, `asked` is what the server has to answer and `wire` what was not read.
`backlog`, `waiting` and `readers` are the client's `#commandQueryBacklog`,
`#waitingForResponse` and the running `#readBlockResponse`.  `Connect`, `Reconnect`,
`ConnectOk`, `ConnectFail`, `ConnectTimeout`, `LateConnect`, `LateConnectFail` are
`connect`, `#connect` and `reconnect`; `ReadBlock`, `Retry`, `ReadHeader`,
`ReadPayload`, `ReadEnd`, `ReadTimeout`, `WriteTimeout` are the reads;
`TransportError` is `#onTransportError`, and `Reject` what a rejection leads to: a
reconnection, or the eviction from the pool.  `Answer`, `AnswerError` and
`ServerClose` are the server's (external).  What runs in microtasks after an event
is part of its action.

### 2.7 `BlockDevice` and `CachedDiskBlockDevice`

Sizes are counted in sectors.  `req` is where each request is: `read` and `write`
ensure their blocks one after the other (`SkipCached`, `EnsureBlock`, `StartFetch`), then use
the store (`ReadStore`, `WriteStore`, `WriteDone`).  A fetch is `reading`, `writing`
and `landed` (`FetchRead`, `FetchLand`, `FetchDone`) or fails with everyone who
awaits it (`FetchFail`).  `Hydrate`, `HydrateNext`, `HydrateDone`, `HydrateAbort` are `hydrate` with
the counting of `asyncEach`.  `SaveByte` is the caller's saving of one byte of
the bitmap (external), `Close`, `Crash`, `OpenResumed`, `OpenCold` the life of the device.

The mapping to `BlockDevice`: a sector holds what the store has if its block is in
the bitmap or is a hole of the source, and what the source has otherwise (`Content`);
it survives a restart when its byte is saved (`Stable`).  So a fetch that lands
is a stutter, and so is the marking of the block: that it *is* one, with writes
about, is the point of the refinement.

## 3. Runs

Each run is one question; the constants are in its `.cfg`.

| run | shows |
|---|---|
| `merge_directories` | concurrent blocks and overlapping attempts (two attempts, one fault): no block is lost, every recorded position can be trusted, and the merge ends |
| `merge_files` | two children, plain VHD files rewritten in place: the younger one's block wins, nothing is removed before it is merged; `IndInv`, the invariant of the proofs, has the types and all the safety properties of a merge as conjuncts |
| `lineage_history` | four backups, two faults, deletions at any time, both formats: no backup is lost, every one is restorable, one merge at most is interrupted, chains stay linear and a delta is chained onto a complete chain |
| `lineage_deletions` | three backups, with disks that become unreadable and deletions that fail or die half way: the backups are restorable and the directory ends up with the disks of the backups |
| `worker_queue` | two VMs, two tasks, one fault or deletion: a pending merge always has a task or a writer, unless it was left aside, a task always has somebody to handle it, and a task the worker can still list is handled |
| `retention` | the walk of `getOldEntries` is the documented set for every set of entries runs can leave; the runs implement the policy; nothing promised is lost, no bucket is tagged twice |
| `listing_reads` | a backup added and deleted, cold or warm cache, two reads in flight and one `delete` or `remove`: the events mirror the collection, a deletion by this server is seen at once, a removed repository stays away |
| `listing_drift` | two backups, jobs that clean, a lost update, entry, read or process: the collection converges, but for a drift the count check cannot see |
| `nbd` | two callers, three faults: right data, one reader per stream, no caller forgotten, no transport leaked, every read settles |
| `mount` | two requests and a hydration over a hole and a cut block, with failures, closing, death and resumption: the device implements `BlockDevice`, and everybody is answered |

and two in which TLC finds a disagreement between the code and its documentation
or comments:

| run | what happens |
|---|---|
| `lineage_windows` | death at a point where the next cleanup misreads what it finds: the data of a backup is deleted |
| `nbd_orphan` | an answer breaks between its header and its payload: `#readBlockResponse` has taken the query out of the backlog, `#rejectAll` does not find it and its caller waits for ever |

`lineage_windows` allows a fault at four points and TLC reports the one with the
shortest counterexample, `state`.  With `FaultPoints` reduced to one of them it
violates `NoBackupLost` each time:

* `state`: after `mergeMetadata`, the merge target has the uuid of its parent and is
  dropped as a duplicate; the parent, without a child, is deleted with the
  merged data;
* `unlink`: between the unlink of the target and the rename, fewer than two disks of the
  recorded chain are left: the state is dropped as unresumable, the merged parent
  is deleted, then the metadata;
* `link`: two aliases lead to the merged data; the parent's one is unused and is deleted
  with the data;
* `update`: `updateMetadata` rewrites the JSON in place; the next cleanup cannot
  read it, nothing claims it, and the backup is deleted.

The other disagreements met while modelling have no run of their own.  Where a constant is
named, the passing run of that module reaches the case once the constant is changed so:

* a lost write of the merge state lets children be removed under a file that still says
  `mergeBlocks`, so that a gap in the chain looks like lost data (`MergeRemoteDisk.mjs:180` only logs the
  error; the comment of lines 349-350: "disks are only removed during the cleanup step");
* a torn state file beside a plain VHD whose second footer is gone: the fresh merge that
  `RemoteDiskLineage.mts:370` counts on does not force the opening of the parent, and never ends;
* fault point `mark` refutes `LinearChain`: a backup that is recorded but not marked as exported
  (`_AbstractXapi.mjs:690`) makes the next delta a sibling, where the documentation of the
  VM backups (line 100) has one chain;
* fault point `delete` with four backups refutes `ChainedOnUsable`: a delta is chained onto a disk
  whose parent is missing (`RemoteAdapter.mjs:77`, documentation line 107);
* `updateMetadata` writes the metadata of a backup that was deleted meanwhile
  (`VmIncrementalBackupArchive.mts:179`): it is listed again;
* `LateCalls = {"refusal"}` refutes `RemovedStaysRemoved` and `Populated`: `#read` builds
  an entry (line 547) when a source refuses a replay, also when `remove` dropped the
  repository meanwhile, where the comments (lines 417, 716-717) say it stays away;
* `LateCalls = {"get"}` refutes `RemovedStaysRemoved`: the caller of `get` may have
  read the record of the remote before its removal (`backups-ng/index.mjs:932`);
* without `InOrder`, `ReadYourDeletion` is refuted: an entry of the journal that
  appears after the cursor has passed its name is not read until the hourly listing;
* a deletion whose cleanup meets the lock of a job rejects, and `refresh` is not
  called although the backup is gone (`index.mjs:646`): the next poll sees it;
* `#checkCacheCount` compares numbers: one entry too many and one too few cancel out.
  It takes no fault, only a cold cache listed while a job and a deletion are under way;
* `hydrate` is documented (lines 182-184) to reject on an abort "once the blocks already in flight
  settle"; `asyncEach` rejects at once;
* `LateClose = TRUE` refutes `OneReader`: a coroutine that outlives its transport goes on with the
  next one beside the reader of the new connection.  It takes a server that does not
  close within the delay of a reconnection;
* a query whose write times out rejects alone and stays in the backlog, a caller retries on a client
  the pool has evicted, and `disconnect` during a reconnection does nothing: all
  three are in `nbd` as they are, and break none of its properties.

Bounds.  `NBlocks = 3` with `Concurrency = 2` lets a block end before, between
and after others; `MaxAttempts` is `MaxFaults` + 1 for liveness, so that faults never use up
the attempts, and one fault in three blocks is enough for an abandoned attempt to go on beside the
next one; the invariants are proved for all bounds; two children tell "the youngest wins" from "any wins".  In the
lineage, four backups allow an active disk, two orphans and a resumed merge
whose chain has become longer; two faults allow an interruption of the repair
of an interruption.  `FaultPoints` names the steps at which a fault may strike: the
passing run `lineage_history` includes all of them but those that lead to a disagreement (`state`,
`unlink`, `link`, `update`, `mark`, `record`, `torn`) and but `delete`, which
with four backups leads to a broken base: `lineage_deletions` has it with three.  So
the passing runs say: *apart from these windows*, no interruption loses data.
The invariants of `lineage_history` are proved for any number of backups and faults at its
points (section 4).
`record` and `torn` are left out with `mark`, whose consequence they share: such
a fault leaves an orphan disk; if every backup is deleted meanwhile the directory is
not cleaned (`cleanOrphanDiskDirs` only logs it), and the next backup, on the same base, becomes
its sibling.

In the queue two tasks are of one VM or of two,
`MaxPrefix = 2` lets a task fail, be tried again and be dropped, `Retries = 2` has a
wait with a listing after it and one without, and `Concurrency = 2` includes every
behaviour of the default, 1.  One disturbance, a fault or a deletion, is enough for each way a
merge is left aside, since an interrupted merge may be resumed in whole or in part.
The invariants are proved for all bounds.

In `retention`, a day of 2 instants and a week of 3 do not nest, seven instants make
four days and three weeks against at most two kept of each, and 1 or 3 deletions
per run make the cut happen or not.  Two runs share the cases of the listing.
`listing_reads` has one backup that is added, then deleted, from a cold or a warm cache, with two
reads in flight, one `delete` or `remove` and no fault: enough for the add and the deletion to
cross in the journal and in what the reads hold; `MAX_REFRESH_READS` is 2 (3 in the
code), so that both outcomes of the loop happen.  `listing_drift` has two backups, one of them
already there, two writes, one fault and cleaning jobs, so that an addition and a deletion
cross in the cache.  In `nbd` each caller has two
tries, as a reconnection has, and three faults let both be used up; faults between header and
payload are left to `nbd_orphan`.  In `mount`, three sectors make a hole of two and a
cut block of one, both requests are over the two blocks, and
one slot for two blocks makes the hydration wait.

Deadlock is not checked in the runs of `MergeRemoteDisk`, where a finished merge,
or one whose attempts are used up, stops, nor in `worker_queue`, where nothing is left
to do once the worker has left and the tasks are used up, nor where the bounds end the
behaviour (`retention`, `listing_reads`, `nbd`), nor in `mount`, whose client may be idle.
It is checked in those of `RemoteDiskLineage` and in `listing_drift`.

Fairness.  `MergeRemoteDisk`: the event loop runs what is ready, so every
step of a merge is weakly fair, and a failed merge is tried again by the next
cleanup; crashes and errors are not fair.  `RemoteDiskLineage`: the process that
has the lock goes on; cleanups are started again and again by the schedules;
a cleanup that merges is started infinitely often if cleanups are (strong
fairness of `Scan` with `merge`), since every backup run starts with one.
`MergeWorker`: the process of the worker goes on unless it is killed; nothing else has to, not the
writers, the deletions by users or of task files, or the expiry of a lock.  `VmBackupsCache`: operations, reads and cleanups go on, the
timer polls the collection and hours go by; nobody has to write, delete, drop or refuse.
`NbdClient`: the client's event loop and its timers, and the server answers or closes; failures
are not fair.  `CachedDiskBlockDevice`: the I/O of the store and of the source
settles, well or not; nobody has to call, hydrate or reopen.

## 4. Proofs

`MergeRemoteDiskProofs` proves, for any number of blocks, children, attempts,
faults, any concurrency and both formats (from `ConstantsAssumption` only):

* `TypeCorrect`: `TypeOK`;
* `Invariant`: `IndInv`;
* `BlocksSafe`, `ResumeSafe`, `RemovalSafe`, `RestoreSafe`: `NoBlockLost`,
  `ResumePointSound`, `RemovedOnlyWhenMerged`, `RestoreSound`.

The safety properties are not inductive.  That a recorded position is sound
depends on what the attempt that wrote it believed, hence on all blocks
below it being held (`MergedIsHeld`), which depends on blocks being taken in
ascending order (`BlocksInOrder`); and since an abandoned attempt goes on beside
the next one, it must hold of each of them, and of the attempts' order
(`AttemptsInOrder`).  Removing children is safe because the parent's table lists what the
attempt moved (`MergedIsListed`) and because nobody is still before the cleanup once
the state says so (`InPlaceBeforeCleanup`).  For plain files, where a block is torn
while it is rewritten, one needs that the rewritten blocks are above the
recorded position and that the children keep theirs (`FilesRewrittenAbove`).
The proof has one lemma per shape of step, and `IndInvStep` has one step per
action.

`RemoteDiskLineageProofs` proves, for any number of backups and of faults, both formats, and
backups deleted at any time or not, as long as the faults strike at the points `Calm` names
(`FaultPoints` is within those of `lineage_history`):

| theorem | property |
|---|---|
| `TypeCorrect` | `TypeOK`, with the order of the disks |
| `Lossless` | `NoBackupLost` |
| `Restores` | `Restorable` |
| `OneMerge` | `OneMergeInterrupted` |
| `Linear` | `LinearChain` |
| `Usable` | `ChainedOnUsable` |

`Calm` leaves out the points at which the code itself breaks one of these properties (section 3:
`state`, `unlink`, `link`, `update` lose a backup, `mark` forks the chain, `delete` leaves a
base without its parent), `record` and `torn`, which share the consequence of `mark`, and the
storage that loses disks (`lose`).  The proof has three layers.

*The plan.*  What `init` and `clean` compute is recursive: broken disks follow their parents,
`Walk` follows the children up to a disk in use, `pin` the parents.  `RecursionDown` and `RecursionUp` show that
a function that recurs along links that always go to an older, or always to a younger disk,
exists, so that each of these definitions satisfies its equation; they, and every other
induction here, argue about the least or the largest disk for which a claim fails.  Whenever a scan
starts the directory is `Settled`: every disk can be opened, has its own uuid, its parent is older and
present, and nobody else has the same parent.  Then, in either order of the listing, nothing is a duplicate or
broken, so no archive is incomplete and its metadata is not removed; no disk on the way from a
backup to its root is deleted; a chain to merge is a run of successive disks of which only the last
belongs to a backup; two chains do not overlap; and an interrupted merge that some backup still
depends on is resumed, not dropped.

*The invariant* (`Inv`).  None of the properties is inductive: that a merge may move blocks and remove disks
without harm depends on what the scan decided long before, and on what deletions of
backups did since.  `Plan` says the chains still to be merged are still runs of successive disks, disjoint
from each other and from what is being deleted, and end at the only disk that may be listed
(`Listed`: by a metadata file or by the archives in memory, since `updateMetadata`
writes the metadata of those again).  `Merging` says of each merge state file whose parent is there,
written by this process or by one that died, that its chain is such a run, that nothing outside is
chained onto the disks it removes, and that the *union* of what the disks of the chain hold, with what
the parent's parent brings, is what the target's backup needs: that is what moving the
blocks, an interruption and a resumption have in common.  `Sound` gives the same for one disk,
outside of merges.  `AtWork` follows the merge under way: once blocks are moved the parent holds all
that any disk of the chain holds, so that unlinking loses nothing.  `Claims` (data belongs to one path, but for the moment
between the two aliases of a rename), `Readable`, `Ancestry` (parents are there, unless being
renamed) and `Books` (a backup that was not deleted is listed, a listed disk is there) tie the files
together; `History`, `Memory` and `Draft` are about the backup under way and what each step keeps in memory.

*The step.*  `InvStep` has a lemma per action.  `StartMergeStep` rests on `Summed`: in a settled
directory, what a backup needs is what the disks of a run below it hold.  `NoBackupLost` and
`ChainedOnUsable` then follow by going down the chain, and through an interrupted merge as a whole (`AllStored`, `AllRead`);
`Restorable` adds that a restore reads nothing more (`OnlyNeeded`).

`MergeWorkerProofs` proves, for any finite set of VMs, any number of tasks,
prefixes, listings and disturbances and any concurrency, `TypeCorrect`,
`MergesAsked` (`MergeAsked`) and `TasksAttended` (`Attended`, which is inductive
with the types).  `MergeAsked` is not inductive: a task that failed may be dropped
by the next pass.  The invariant says that a pending VM has a task that *has not
failed yet* (`Asked`): a task fails because a writer has the lock, and that writer
will queue a new one, or because another task of the same VM is being
cleaned, or for a reason that waives the merge; and a task that succeeds leaves disks only when its
cleanup was partial, which waives it too.  It needs that a deletion in
flight never hits the task the worker is at (`Deleting`: the rename gave it
another name), that a pass takes a task once (`OncePerPass`) and who has which lock (`Locks`);
`Room` and `FreshNames` are about the numbers of the tasks.

`RetentionPolicyProofs` proves `PromiseKept` (`NothingPromisedLost`) and `TagsUnique`
(`OneTagPerBucket`) of the policy, for any set of timestamps, any durations whose
buckets are monotone, and all settings.  The heart is that keeping is antitone: an
entry kept of a set is kept of every subset it is in (`KeptAmongFewer`), so what a
run computes from what the previous ones left errs on the side of keeping; and an
entry kept once a new backup is there was kept, with one fewer, before it
(`KeptWithNew`).  The invariant adds that the entries the run
under way will delete are promised to nobody (`OldExpired`, before and after the
transfer), that every bucket has an oldest entry (`Represented`) and that the tagged
ones are such (`TaggedOldest`).  That `Retention` implements the policy is
model-checked: what its walk computes is an induction over data.

`CachedDiskBlockDeviceProofs` proves, for any size, block size, holes, contents,
requests and concurrency, `TypeCorrect`, `WaitersAreServed` (`WaitersServed`),
`HydrationComplete` (`HydratedMeansCached`) and `Refinement`
(`ImplementsBlockDevice`).  The invariant: a block in flight is not marked
(`FetchSound`: a late fetch cannot land on a write); the blocks a request has gone
past are marked (`ProgressSound`: it uses the store only); what has landed is the
source's (`LandedSound`: marking changes nothing a client sees); saved implies
marked (`SavedSound`: a resumption loses nothing stable); and the slots of a
hydration are the blocks it awaits (`HydrationSound`, `CountSound`).  Every action is
then shown to be a step of `BlockDevice` or a stutter.

`VmBackupsCacheProofs` proves, for any set of backups, any number of writes, faults and drops and any
`MAX_REFRESH_READS`, with two reads in flight at a time (`Reads` is not a parameter):

| theorem | property | what may come late |
|---|---|---|
| `TypeCorrect`, `MirrorHolds` | `TypeOK`, `Mirror` | anything |
| `PopulatedHolds`, `ReadYourDeletionHolds` | `Populated`, `ReadYourDeletion` | a `get` |
| `RemovedStaysRemovedHolds` | `RemovedStaysRemoved` | nothing |

The hypotheses on `LateCalls` are the limits found in section 3: when the call that is left out is allowed,
TLC refutes the property.  `Mirror` is not inductive: a listing
fills its entry without any event, so it needs that such an entry is neither announced nor
another read's (`FreshListing`), that what a replay adds it does not delete (`GotGone`), and that a
new entry has an identity of its own (`Shape`, `Free`).  In the
repository, only the server deletes and only jobs add (`Roles`), a deletion under way has its
place on the clock (`Budget`), and a backup whose deletion is in the journal is gone for
good (`Gone`), which every step preserves (`OnlyForward`).  The argument of
`ReadYourDeletion` is `Told`: as long as the journal appears in the order of its
names, a deletion the entry was told of is either out of the view, or still after the cursor of the entry
with the stale mark on, or in the hands of a read that will apply it (`Followed`), whose own
cursor is never ahead of a deletion it has not collected (`Ahead`).  It is the stale mark that
closes the gap between a read that collected its events before the deletion and the caller that
asks after it.  `Populated` needs that an entry that is not built is being listed
(`Registered`), by the read that all calls share (`Shared`),
and `RemovedStaysRemoved` that a detached repository has neither entry (`Detached`).

`NbdClientProofs` proves, for any set of callers and any number of tries, reconnections and
faults:

| theorem | property | assuming |
|---|---|---|
| `NoLeakHolds` | `NoLeak` | nothing |
| `TypeCorrect`, `RightDataHolds`, `OneReaderHolds`, `StaleErrorsIgnoredHolds` | `TypeOK`, `RightData`, `OneReader`, `StaleErrorsIgnored` (an action property) | `~LateClose` |
| `NoOrphanHolds` | `NoOrphan` | `~LateClose` and `~PayloadFaults` |

`LateClose` is a server that keeps a closed transport alive beyond the delay of a reconnection:
two coroutines then read one transport, and nothing bounds the reconnections any more.
`PayloadFaults` is the finding of `nbd_orphan`.  The heart of `RightData` is that a stream is where its reader
expects it (`Wires`): an answer is a header followed by its payload, whatever their order, and
the coroutine that has read a header is alone to read the payload (`ReadersOK`).  That an answer
finds its query takes `Outstanding` (what the current transport has to answer is in the backlog, once:
`#connect` starts from an empty one), `Past` (a query in any backlog, wire or
server is of a try its caller has already made, so a late answer is nobody else's) and `Fresh`.
`Credit` counts: every attempt has a fault or the user's `disconnect` to pay for it, so
`generation` is bounded.  `NoOrphan` adds `Attended`: while a caller of a client in the pool
waits, a coroutine runs, the query is in the backlog or in its hands, and the backlog of the
current transport holds nothing but such queries, hence the coroutine does not stop early.
`NoLeak` has an invariant of its own (`Current`), that needs none of this.

Each of these invariants was checked by TLC, with the constants of the runs and with larger
ones, before it was proved.

Only model-checked: the liveness properties (fairness is out of the prover's
reach), `OldEntriesExact` and `ImplementsPolicy` (induction over data), and, in
`RemoteDiskLineage`, what holds when disks become unreadable or deletions fail
(`lineage_deletions`).

## 5. What is not modelled

* The bytes: VHD headers, bitmaps, streams, compression and encryption.
* Several VDIs of one VM: their directories are independent lineages; a backup
  is complete when all are.
* The order of a directory listing is by name or reversed, the two extremes for a
  chain of numbered disks.
* `remove: false` and the dry runs of the command line.  `preferNbd` is off: with it
  `checkBaseVdis` also probes qcow2 bases written before a fix.
* The VDI directories no metadata references: `cleanOrphanDiskDirs` documents that it
  deletes them and only logs them (its `rmtree` is a TODO), so `Converges` is
  stated for directories that have a backup left.
* Full backups' streams, the calendar of retention (its buckets are any monotone
  division of time), the handshake of NBD and the choice among several
  connections, the iSCSI protocol, and the parts of the repository that are not
  the backup engine (see the components of `PROJECT.json`): most of its lines
  are user interfaces, translations, API handlers over XAPI objects and
  plugins, which have no protocol of their own to check.
* A lock that is compromised while its holder works (`fs/src/local.js`), and remotes
  without locks: S3 and Azure inherit a `_lock` that does nothing
  (`fs/src/abstract.js`), so that nothing serialises backups and cleanups
  there.  `RemoteDiskLineage` has one process at work.  The merge worker is
  only used for directories.
* In `MergeWorker`, a VM directory that is missing is one with nothing to merge, a VM has one
  deletion at a time between its metadata and its cleanup, and `interrupted` stays after the writer's own
  cleanups, which may resume the merge: the worker's next one may then leave disks, or not.
* In `RemoteDiskLineage` the merge state file is never lost or torn: `#writeState` swallows its errors, and
  `MergeRemoteDisk` has that.  In `MergeRemoteDisk` an unlink that fails ends the unlinks of the children;
  the code goes on with the next one.
* In `Retention` the entries a run lists are those of the metadata files.  The code lists them through
  `cache.json.gz` (`RemoteAdapter.mjs:484-507`): after a run that died between the metadata and the cache, the next
  one may not see its backup and tag the same bucket, so `OneTagPerBucket` is about an up to date listing; how the cache
  drifts and is repaired is `BackupRepository` and `VmBackupsCache`.  Deletions go one by one, with the
  cut of `maxMergedDeltasPerRun`, as those of `IncrementalRemoteWriter`; those of `FullRemoteWriter` run at the same time
  and without a cut, which `RetentionPolicy` allows.
* In `VmBackupsCache` a read takes the journal and the metadata files it needs at one instant.
* In `CachedDiskBlockDevice` a write of several sectors to the store is one step; `FileBlockDevice` loops over
  partial writes.

## 6. Plan

Done, in this order: the disk merge, the lineage, the merge worker; then retention,
the repository's cache and journal with xo-server's listing, the NBD client and the
live mount device.  What is left:

1. `RemoteDiskLineage` with a lock that can be lost: two cleanups at work on one
   directory, hence a second copy of the plan variables; S3 and Azure are the case
   in which there is none.
2. `Restorable` proved for the fault points of `lineage_deletions` too: with unreadable disks the
   scan has broken disks and incomplete archives to tell apart, and the invariant has to
   speak of the backups the storage did not damage only.
3. `BackupStore`: the abstract promise (a set of restorable backups, add, delete),
   shown to be implemented by `RemoteDiskLineage` under the fault points of its
   passing runs.
4. `CoalesceCalls` and `Deduped`: the contracts of the helpers; the pool of several
   NBD connections.
