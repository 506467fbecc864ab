------------------------- MODULE RemoteDiskLineage -------------------------
(***************************************************************************)
(* The disks of one VDI on a backup remote, over many backup runs:         *)
(* incremental backups add disks, retention and users delete backups, and  *)
(* cleanVm (VmBackupDirectory, VmIncrementalBackupArchive and              *)
(* RemoteDiskLineage) merges or deletes the disks no backup uses anymore.  *)
(*                                                                         *)
(* Every file operation is a step; the process can die, or an operation    *)
(* fail, between two steps.  The lock of the VM directory, on the remotes  *)
(* that have locks, serialises backups and cleanups, but deleting a backup *)
(* does not take it.                                                       *)
(*                                                                         *)
(* Backups, disk paths, data files and the changes a backup transfers are  *)
(* all numbered in the order of the backups: the metadata of backup i      *)
(* names the disk at path i.  Inside a merge the blocks are moved in one   *)
(* step: MergeRemoteDisk is the model of that part.                        *)
(***************************************************************************)
EXTENDS Integers, FiniteSets, FiniteSetsExt

CONSTANTS
    NDisks,         \* backups explored
    Formats,        \* what the disks may be written as
    FaultPoints,    \* points at which the process may die or an operation fail
    MaxFaults,      \* faults explored
    DeleteAnytime   \* backups are also deleted while a cleanup runs

Steps == {"idle", "scan", "delete", "merge", "blocks", "uuid", "state",
          "unlink", "link", "drop", "collect", "archives", "update",
          "transfer", "alias", "record", "torn", "mark"}

ASSUME ConstantsAssumption ==
    /\ NDisks \in Nat \ {0}
    /\ Formats \subseteq {"directory", "file"}
    /\ FaultPoints \subseteq Steps \cup {"lose"}
    /\ MaxFaults \in Nat
    /\ DeleteAnytime \in BOOLEAN

Disks == 1 .. NDisks
None  == 0

VARIABLES
    (* the remote *)
    entry,       \* data each disk path leads to
    data,        \* the data of the disks
    mergeState,  \* merge state file of each merge parent
    metadata,    \* metadata file of each backup
    (* the settings and the snapshots of the source *)
    format,      \* VHD directories behind aliases, or VHD files
    base,        \* last backup whose export was marked successful
    (* the process that holds the lock *)
    pc,          \* where it is
    next,        \* what follows the cleanup: "transfer" or "idle"
    registered,  \* #diskPaths
    todo,        \* disks to delete (toDelete), then archives to clean
    complete,    \* archives whose disks are all accessible
    archives,    \* archives loaded by the scan
    junk,        \* unreadable metadata files found by the scan
    resumes,     \* interrupted merges to resume (toMerge)
    merges,      \* new merges (toMerge)
    chain,       \* chain under merge, then archives being rewritten
    merged,      \* merge targets (mergedSizes)
    (* history and environment *)
    written,     \* number of backups transferred
    need,        \* changes the backup consists of
    recorded,    \* backups whose metadata was written
    expired,     \* backups deleted by retention or by a user
    lost,        \* changes the storage lost
    faults

remoteVars == <<entry, data, mergeState, metadata>>
planVars   == <<registered, archives, complete, junk, resumes, merges, merged>>
backupVars == <<format, base, written, need, recorded, expired, lost>>
vars == <<remoteVars, planVars, backupVars, pc, next, todo, chain, faults>>

UseAlias == format = "directory"

NoData  == [exists |-> FALSE, uuid |-> None, parent |-> None, bat |-> {}, holds |-> {}]
NoMerge == [step |-> "absent", chain |-> {}]

(* Types, and the order of the disks VmBackupDirectory relies on.          *)
TypeOK ==
    /\ entry \in [Disks -> Disks \cup {None}]
    /\ data \in [Disks -> [exists : BOOLEAN, uuid : Disks \cup {None},
                           parent : Disks \cup {None}, bat : SUBSET Disks,
                           holds : SUBSET Disks]]
    /\ mergeState \in [Disks -> [step : {"absent", "mergeBlocks", "cleanup"},
                                 chain : SUBSET Disks]]
    /\ metadata \in [Disks -> {"absent", "torn", "ok"}]
    /\ format \in Formats
    /\ base \in Disks \cup {None}
    /\ pc \in Steps \ {"update"}
    /\ next \in {"transfer", "idle"}
    /\ archives \subseteq Disks /\ complete \subseteq archives /\ junk \subseteq Disks \ archives
    /\ registered \subseteq Disks /\ todo \subseteq Disks
    /\ chain \subseteq Disks /\ merged \subseteq Disks
    /\ resumes \subseteq SUBSET Disks /\ merges \subseteq SUBSET Disks
    /\ written \in 0 .. NDisks
    /\ need \in [Disks -> SUBSET Disks]
    /\ expired \subseteq recorded /\ recorded \subseteq 1 .. written
    /\ lost \subseteq Disks
    /\ faults \in 0 .. MaxFaults
    /\ \A d \in Disks : data[d].parent < d   \* "vhd must be sorted to be chained"

Init ==
    /\ entry = [p \in Disks |-> None]
    /\ data = [d \in Disks |-> NoData]
    /\ mergeState = [p \in Disks |-> NoMerge]
    /\ metadata = [i \in Disks |-> "absent"]
    /\ format \in Formats
    /\ base = None
    /\ pc = "idle" /\ next = "idle"
    /\ registered = {} /\ todo = {} /\ archives = {} /\ complete = {} /\ junk = {}
    /\ resumes = {} /\ merges = {} /\ chain = {} /\ merged = {}
    /\ written = 0
    /\ need = [i \in Disks |-> {}]
    /\ recorded = {} /\ expired = {} /\ lost = {}
    /\ faults = 0

-----------------------------------------------------------------------------
(* The scan of the directory (init).                                       *)

Present     == {p \in Disks : entry[p] # None}
disk(p)     == data[entry[p]]
Openable(p) == p \in Present /\ disk(p).exists

(* The remote lists its files in an order of its own: by name or reverse.  *)
ListedBefore(byName, p, q) == IF byName THEN p < q ELSE q < p

(* A disk with the uuid of a disk listed before it, which does not contain *)
(* strictly less, is left out of the parent and child maps.                *)
Duplicate(byName, p) ==
    \E q \in Present \ {p} :
        /\ ListedBefore(byName, q, p)
        /\ Openable(q) /\ disk(q).uuid = disk(p).uuid
        /\ disk(p).bat \subseteq disk(q).bat \/ ~ disk(q).bat \subseteq disk(p).bat

(* #parentOf                                                               *)
parentOf(byName, p) ==
    IF Openable(p) /\ ~ Duplicate(byName, p) THEN disk(p).parent ELSE None

(* #childOf: of several children, the first listed.                        *)
childOf(byName, p) ==
    LET children == {c \in Disks : parentOf(byName, c) = p}
    IN  IF children = {} THEN None
        ELSE IF byName THEN Min(children) ELSE Max(children)

(* #brokenDiskPaths: a broken disk breaks its child, and the other         *)
(* children the scan meets after it.                                       *)
BrokenDisks(byName) ==
    LET broken[p \in Disks] ==
            \/ ~ Openable(p)
            \/ LET parent == parentOf(byName, p)
               IN  /\ parent # None
                   /\ \/ ~ Openable(parent)
                      \/ broken[parent] /\ (byName \/ childOf(byName, parent) = p)
    IN  {p \in Present : broken[p]}

(* The archives whose metadata could be read, and those that are complete. *)
Archives == {i \in Disks : metadata[i] = "ok"}
isCompleteAnyDisk(byName) == Present \ BrokenDisks(byName)
isComplete(byName) == Archives \cap (Present \ BrokenDisks(byName))

-----------------------------------------------------------------------------
(* The plan made by clean.                                                 *)

(* getUsedChildChainOrDelete: the orphans from p on, in the order of the   *)
(* children, and the active disk that ends the chain (None: there is none).*)
Walk(byName, visited, p) ==
    LET orphans == Present \ isComplete(byName)
        walk[q \in Disks] ==
            IF q \in visited THEN [orphans |-> {}, anchor |-> None]
            ELSE IF q \notin orphans THEN [orphans |-> {}, anchor |-> q]
            ELSE LET child == childOf(byName, q)
                     rest  == IF child = None THEN [orphans |-> {}, anchor |-> None]
                              ELSE walk[child]
                 IN  [rest EXCEPT !.orphans = @ \cup {q}]
    IN  walk[p]

hasUsedDescendant(byName, p) == Walk(byName, {}, p).anchor # None

(* pin: the disks and every ancestor they read through.                    *)
pinAlone(byName, disks) == disks
pin(byName, disks) ==
    LET up[p \in Disks] ==
            {p} \cup (IF parentOf(byName, p) = None THEN {} ELSE up[parentOf(byName, p)])
    IN  UNION {up[p] : p \in disks}

Interrupted == {p \in Disks : mergeState[p].step # "absent"}
Survivors(p) == mergeState[p].chain \cap Present

(* A chain that lost disks before its cleanup step is not resumed.         *)
LostDisks(p) == mergeState[p].step # "cleanup" /\ Survivors(p) # mergeState[p].chain

Refused(byName) ==
    {p \in Interrupted \cap Present :
        LostDisks(p) /\ \E q \in Survivors(p) : hasUsedDescendant(byName, q)}

Resumed(byName) ==
    {p \in Interrupted \cap Present :
        /\ ~ LostDisks(p)
        /\ Cardinality(Survivors(p)) >= 2
        /\ hasUsedDescendant(byName, p)}

(* The state files that are deleted: of a missing disk, of a chain that    *)
(* cannot be resumed, of a lineage no backup uses.                         *)
Dropped(byName) == Interrupted \ (Refused(byName) \cup Resumed(byName))

Visited(byName) ==
    (UNION {pin(byName, Survivors(p)) : p \in Refused(byName) \cup Resumed(byName)})
    \cup (UNION {LET w == Walk(byName, {}, p) IN w.orphans \cup {w.anchor}
                 : p \in Resumed(byName)})

(* The orphans the last loop starts from.                                  *)
RootsWithoutParent(byName) ==
    {p \in (Present \ isComplete(byName)) \ Visited(byName) : parentOf(byName, p) = None}
Roots(byName) ==
    LET orphans == Present \ isComplete(byName)
    IN  {p \in orphans \ Visited(byName) : parentOf(byName, p) \notin orphans}

toDeleteOrphans(byName) == (Present \ isComplete(byName)) \ Visited(byName)
toDelete(byName) ==
    LET dead == Roots(byName)
                \cup {p \in Dropped(byName) \cap Present :
                         ~ LostDisks(p) /\ Cardinality(Survivors(p)) >= 2}
    IN  UNION {LET w == Walk(byName, Visited(byName), p)
               IN  IF w.anchor = None THEN w.orphans ELSE {} : p \in dead}

toMerge(byName) ==
    {w.orphans \cup {w.anchor} :
        w \in {Walk(byName, Visited(byName), p) : p \in Roots(byName)}
              \cap [orphans : SUBSET Disks, anchor : Disks]}

-----------------------------------------------------------------------------
(* Taking the lock, and the deletion of backups, which does not take it.   *)

(* A backup run (beforeBackup), or a cleanup alone: the merge worker, or   *)
(* the cleanup after a deletion.                                           *)
Begin ==
    /\ pc = "idle"
    /\ pc' = "scan"
    /\ next' \in {"idle"} \cup (IF written < NDisks THEN {"transfer"} ELSE {})
    /\ UNCHANGED <<remoteVars, planVars, backupVars, todo, chain, faults>>

(* deleteDeltaVmBackups: only the metadata is deleted.                     *)
Expire(i) ==
    /\ i \in recorded \ expired
    /\ DeleteAnytime \/ pc \in {"idle", "mark"}
    /\ metadata' = [metadata EXCEPT ![i] = "absent"]
    /\ expired' = expired \cup {i}
    /\ UNCHANGED <<entry, data, mergeState, planVars, format, base, written, need,
                   recorded, lost, pc, next, todo, chain, faults>>

-----------------------------------------------------------------------------
(* cleanVm.                                                                *)

(* The end of a cleanup, or of what follows it: nothing is kept in memory. *)
Leave(step) ==
    /\ pc' = step
    /\ next' = IF step = "transfer" THEN "transfer" ELSE "idle"
    /\ registered' = {} /\ todo' = {} /\ archives' = {} /\ complete' = {} /\ junk' = {}
    /\ resumes' = {} /\ merges' = {} /\ chain' = {} /\ merged' = {}

(* init, check and the plan of clean, with the merge state files it drops. *)
(* Without any readable archive the directory is not looked at.            *)
Scan(byName, merge) ==
    /\ pc = "scan"
    /\ next = "transfer" => merge
    /\ archives' = Archives
    /\ junk' = {i \in Disks : metadata[i] = "torn"}
    /\ complete' = isComplete(byName)
    /\ merged' = {}
    /\ IF Archives = {}
       THEN /\ pc' = "archives"
            /\ todo' = {} /\ registered' = {} /\ resumes' = {} /\ merges' = {}
            /\ UNCHANGED mergeState
       ELSE /\ pc' = "delete"
            /\ registered' = Present
            /\ todo' = toDelete(byName)
            /\ resumes' = IF merge THEN {Survivors(p) : p \in Resumed(byName)} ELSE {}
            /\ merges' = IF merge THEN toMerge(byName) ELSE {}
            /\ mergeState' = [p \in Disks |->
                                IF p \in Dropped(byName) THEN NoMerge ELSE mergeState[p]]
    /\ UNCHANGED <<entry, data, metadata, backupVars, next, chain, faults>>

(* unlink of an unused disk: its data, then its alias.                     *)
DeleteData(p) ==
    /\ pc = "delete" /\ p \in todo
    /\ UseAlias /\ Openable(p)
    /\ data' = [data EXCEPT ![entry[p]] = NoData]
    /\ UNCHANGED <<entry, mergeState, metadata, planVars, backupVars, pc, next,
                   todo, chain, faults>>

DeletePath(p) ==
    /\ pc = "delete" /\ p \in todo
    /\ UseAlias => ~ Openable(p)
    /\ entry' = [entry EXCEPT ![p] = None]
    /\ data' = [data EXCEPT ![entry[p]] = NoData]
    /\ todo' = todo \ {p}
    /\ registered' = registered \ {p}
    /\ UNCHANGED <<mergeState, metadata, archives, complete, junk, resumes, merges,
                   merged, backupVars, pc, next, chain, faults>>

(* "failed to delete unused disk": the cleanup goes on.                    *)
SkipDelete(p) ==
    /\ pc = "delete" /\ p \in todo
    /\ "delete" \in FaultPoints /\ faults < MaxFaults
    /\ todo' = todo \ {p}
    /\ faults' = faults + 1
    /\ UNCHANGED <<remoteVars, planVars, backupVars, pc, next, chain>>

EndDelete ==
    /\ pc = "delete" /\ todo = {}
    /\ pc' = "merge"
    /\ UNCHANGED <<remoteVars, planVars, backupVars, next, todo, chain, faults>>

-----------------------------------------------------------------------------
(* #mergeChain.                                                            *)

Parent == Min(chain)
Target == Max(chain)

(* openDiskChain: the disks from the target to the parent can be opened.   *)
openDiskChain(c) ==
    LET opens[p \in Disks] ==
            /\ Openable(p)
            /\ disk(p).parent # None
            /\ disk(p).parent = Min(c) \/ opens[disk(p).parent]
    IN  Openable(Min(c)) /\ opens[Max(c)]

(* The merges run one at a time, the interrupted ones first.  When a disk  *)
(* cannot be opened the whole cleanup fails.                               *)
StartMerge(c) ==
    /\ pc = "merge"
    /\ c \in IF resumes # {} THEN resumes ELSE merges
    /\ IF openDiskChain(c)
       THEN /\ chain' = c
            /\ pc' = IF mergeState[Min(c)].step = "cleanup" THEN "state" ELSE "blocks"
            /\ mergeState' = [mergeState EXCEPT ![Min(c)] =
                                IF @.step = "absent" THEN [step |-> "mergeBlocks", chain |-> c]
                                ELSE @]
            /\ UNCHANGED <<planVars, next, todo>>
       ELSE /\ Leave(next)
            /\ UNCHANGED mergeState
    /\ UNCHANGED <<entry, data, metadata, backupVars, faults>>

(* The blocks are moved to the parent.  The children keep their tables.    *)
MergeBlocksOfTarget ==
    /\ pc = "blocks"
    /\ data' = [data EXCEPT ![entry[Parent]].bat   = @ \cup disk(Target).bat,
                            ![entry[Parent]].holds = @ \cup disk(Target).holds]
    /\ pc' = "uuid"
    /\ UNCHANGED <<entry, mergeState, metadata, planVars, backupVars, next, todo,
                   chain, faults>>
MergeBlocks ==
    /\ pc = "blocks"
    /\ LET children == {entry[p] : p \in chain \ {Parent}}
       IN  data' = [d \in Disks |->
              IF d = entry[Parent]
              THEN [data[d] EXCEPT !.bat   = @ \cup UNION {data[c].bat : c \in children},
                                   !.holds = @ \cup UNION {data[c].holds : c \in children}]
              ELSE IF d \in children /\ UseAlias THEN [data[d] EXCEPT !.holds = {}]
              ELSE data[d]]
    /\ pc' = "uuid"
    /\ UNCHANGED <<entry, mergeState, metadata, planVars, backupVars, next, todo,
                   chain, faults>>

(* mergeMetadata: the parent takes the uuid of the target.                 *)
MergeMetadata ==
    /\ pc = "uuid"
    /\ data' = [data EXCEPT ![entry[Parent]].uuid = disk(Target).uuid]
    /\ pc' = "state"
    /\ UNCHANGED <<entry, mergeState, metadata, planVars, backupVars, next, todo,
                   chain, faults>>

BeginCleanup ==
    /\ pc = "state"
    /\ mergeState' = [mergeState EXCEPT ![Parent].step = "cleanup"]
    /\ pc' = "unlink"
    /\ UNCHANGED <<entry, data, metadata, planVars, backupVars, next, todo, chain, faults>>

(* The children are unlinked from the oldest to the target.                *)
Unlinkable(p) == p = Min((chain \ {Parent}) \cap Present)

UnlinkData(p) ==
    /\ pc = "unlink" /\ (chain \ {Parent}) \cap Present # {}
    /\ Unlinkable(p)
    /\ UseAlias /\ Openable(p)
    /\ data' = [data EXCEPT ![entry[p]] = NoData]
    /\ UNCHANGED <<entry, mergeState, metadata, planVars, backupVars, pc, next,
                   todo, chain, faults>>

UnlinkPath(p) ==
    /\ pc = "unlink" /\ (chain \ {Parent}) \cap Present # {}
    /\ Unlinkable(p)
    /\ UseAlias => ~ Openable(p)
    /\ entry' = [entry EXCEPT ![p] = None]
    /\ data' = [data EXCEPT ![entry[p]] = NoData]
    /\ UNCHANGED <<mergeState, metadata, planVars, backupVars, pc, next, todo,
                   chain, faults>>

(* rename: an alias is created, then the one of the parent is unlinked; a  *)
(* file is renamed.                                                        *)
Rename ==
    /\ pc = "unlink" /\ (chain \ {Parent}) \cap Present = {}
    /\ entry' = [entry EXCEPT ![Target] = entry[Parent],
                              ![Parent] = IF UseAlias THEN @ ELSE None]
    /\ pc' = IF UseAlias THEN "link" ELSE "drop"
    /\ UNCHANGED <<data, mergeState, metadata, planVars, backupVars, next, todo,
                   chain, faults>>

UnlinkParent ==
    /\ pc = "link"
    /\ entry' = [entry EXCEPT ![Parent] = None]
    /\ pc' = "drop"
    /\ UNCHANGED <<data, mergeState, metadata, planVars, backupVars, next, todo,
                   chain, faults>>

(* #cleanup of the merge: a state file that cannot be deleted is only      *)
(* warned about.                                                           *)
DropState ==
    /\ pc = "drop"
    /\ \/ /\ mergeState' = [mergeState EXCEPT ![Parent] = NoMerge]
          /\ UNCHANGED faults
       \/ /\ "drop" \in FaultPoints /\ faults < MaxFaults
          /\ faults' = faults + 1
          /\ UNCHANGED mergeState
    /\ registered' = registered \ (chain \ {Target})
    /\ merged' = merged \cup {Target}
    /\ resumes' = resumes \ {chain}
    /\ merges' = IF resumes = {} THEN merges \ {chain} ELSE merges
    /\ chain' = {}
    /\ pc' = "merge"
    /\ UNCHANGED <<entry, data, metadata, archives, complete, junk, backupVars, next, todo>>

EndMerge ==
    /\ pc = "merge" /\ resumes = {} /\ merges = {}
    /\ pc' = "collect"
    /\ UNCHANGED <<remoteVars, planVars, backupVars, next, todo, chain, faults>>

-----------------------------------------------------------------------------
(* The end of the cleanup.                                                 *)

(* #cleanOrphanDataFiles: aliases without data, then data without alias if *)
(* an alias leads to the data directory; nothing is checked of a file.     *)
CleanOrphanDataFiles ==
    /\ pc = "collect"
    /\ LET live    == {p \in registered : Openable(p)}
           claimed == {entry[p] : p \in live}
       IN  /\ entry' = [p \in Disks |->
                           IF UseAlias /\ p \in registered \ live THEN None ELSE entry[p]]
           /\ data' = IF UseAlias /\ claimed # {}
                      THEN [d \in Disks |-> IF d \in claimed THEN data[d] ELSE NoData]
                      ELSE data
    /\ todo' = archives
    /\ pc' = "archives"
    /\ UNCHANGED <<mergeState, metadata, planVars, backupVars, next, chain, faults>>

(* VmIncrementalBackupArchive.clean: the metadata of an incomplete backup  *)
(* is deleted; that of a merge target is rewritten in place, which creates *)
(* it again if it was deleted since the scan.                              *)
RemoveMetadata(i) ==
    /\ pc = "archives" /\ i \in todo \ complete
    /\ metadata' = [metadata EXCEPT ![i] = "absent"]
    /\ todo' = todo \ {i}
    /\ UNCHANGED <<entry, data, mergeState, planVars, backupVars, pc, next, chain, faults>>

KeepMetadata(i) ==
    /\ pc = "archives" /\ i \in (todo \cap complete) \ merged
    /\ todo' = todo \ {i}
    /\ UNCHANGED <<remoteVars, planVars, backupVars, pc, next, chain, faults>>

BeginUpdate(i) ==
    /\ pc = "archives" /\ i \in (todo \cap merged) \ chain
    /\ metadata' = [metadata EXCEPT ![i] = "torn"]
    /\ chain' = chain \cup {i}
    /\ UNCHANGED <<entry, data, mergeState, planVars, backupVars, pc, next, todo, faults>>

EndUpdate(i) ==
    /\ pc = "archives" /\ i \in chain
    /\ metadata' = [metadata EXCEPT ![i] = "ok"]
    /\ chain' = chain \ {i}
    /\ todo' = todo \ {i}
    /\ UNCHANGED <<entry, data, mergeState, planVars, backupVars, pc, next, faults>>

(* The files nothing claims are deleted: the metadata files that could not *)
(* be read.  Then the backup starts, or the lock is released.              *)
EndClean ==
    /\ pc = "archives" /\ todo = {}
    /\ metadata' = [i \in Disks |-> IF i \in junk THEN "absent" ELSE metadata[i]]
    /\ Leave(next)
    /\ UNCHANGED <<entry, data, mergeState, backupVars, faults>>

-----------------------------------------------------------------------------
(* The backup (IncrementalRemoteWriter).                                   *)

(* Mutant: any disk of the directory will do as the base. *)
BasesAnyDisk == {p \in Present : base # None /\ Openable(p)}

(* checkBaseVdis: a disk with the uuid of the base; only the disk itself   *)
(* is opened.                                                              *)
Bases == {p \in Present : base # None /\ Openable(p) /\ disk(p).uuid = base}

(* A full when there is no base, or when fullInterval asks for one.        *)
WriteDisk ==
    /\ pc = "transfer"
    /\ LET n == written + 1
       IN  /\ written' = n
           /\ \E parent \in Bases \cup {None} :
                 /\ data' = [data EXCEPT ![n] =
                        [exists |-> TRUE, uuid |-> n, parent |-> parent,
                         bat |-> {n}, holds |-> {n}]]
                 /\ need' = [need EXCEPT ![n] =
                        {n} \cup (IF parent = None THEN {} ELSE need[base])]
           /\ entry' = IF UseAlias THEN entry ELSE [entry EXCEPT ![n] = n]
    /\ pc' = IF UseAlias THEN "alias" ELSE "record"
    /\ UNCHANGED <<mergeState, metadata, planVars, format, base, recorded, expired, lost,
                   next, todo, chain, faults>>

CreateAlias ==
    /\ pc = "alias"
    /\ entry' = [entry EXCEPT ![written] = written]
    /\ pc' = "record"
    /\ UNCHANGED <<data, mergeState, metadata, planVars, backupVars, next, todo,
                   chain, faults>>

(* writeVmBackupMetadata                                                   *)
BeginRecord ==
    /\ pc = "record"
    /\ metadata' = [metadata EXCEPT ![written] = "torn"]
    /\ pc' = "torn"
    /\ UNCHANGED <<entry, data, mergeState, planVars, backupVars, next, todo,
                   chain, faults>>

EndRecord ==
    /\ pc = "torn"
    /\ metadata' = [metadata EXCEPT ![written] = "ok"]
    /\ recorded' = recorded \cup {written}
    /\ pc' = "mark"
    /\ UNCHANGED <<entry, data, mergeState, planVars, format, base, written, need, expired, lost,
                   next, todo, chain, faults>>

(* Mutant: only the first export is marked. *)
MarkExportedOnce ==
    /\ pc = "mark"
    /\ base' = IF base = None THEN written ELSE base
    /\ pc' = "scan" /\ next' = "idle"
    /\ UNCHANGED <<remoteVars, planVars, format, written, need, recorded, expired, lost,
                   todo, chain, faults>>

(* markExportSuccessfull, then the cleanup of afterBackup.                 *)
MarkExported ==
    /\ pc = "mark"
    /\ base' = written
    /\ pc' = "scan" /\ next' = "idle"
    /\ UNCHANGED <<remoteVars, planVars, format, written, need, recorded, expired, lost,
                   todo, chain, faults>>

-----------------------------------------------------------------------------
(* The process dies: the lock is lost.  Or an operation fails: a failed    *)
(* cleanup is ignored by the backup that asked for it, and a failed backup *)
(* still runs the cleanup of afterBackup.                                  *)
Cleaning == pc \in {"scan", "delete", "merge", "blocks", "uuid", "state", "unlink",
                    "link", "drop", "collect", "archives"}
Point == IF pc = "archives" /\ chain # {} THEN "update" ELSE pc

FaultNextMerge ==
    /\ pc # "idle"
    /\ Point \in FaultPoints /\ faults < MaxFaults
    /\ faults' = faults + 1
    /\ IF chain # {} /\ pc # "archives"
       THEN /\ pc' = "merge"
            /\ resumes' = resumes \ {chain} /\ merges' = merges \ {chain} /\ chain' = {}
            /\ UNCHANGED <<next, registered, todo, archives, complete, junk, merged>>
       ELSE Leave(IF Cleaning THEN next ELSE "scan")
    /\ UNCHANGED <<remoteVars, backupVars>>
Fault ==
    /\ pc # "idle"
    /\ Point \in FaultPoints /\ faults < MaxFaults
    /\ faults' = faults + 1
    /\ \E step \in {"idle", IF Cleaning THEN next ELSE "scan"} : Leave(step)
    /\ UNCHANGED <<remoteVars, backupVars>>

(* A disk becomes unreadable between two runs.                             *)
Lose(p) ==
    /\ pc = "idle" /\ Openable(p)
    /\ "lose" \in FaultPoints /\ faults < MaxFaults
    /\ faults' = faults + 1
    /\ lost' = lost \cup disk(p).bat
    /\ data' = [data EXCEPT ![entry[p]] = NoData]
    /\ UNCHANGED <<entry, mergeState, metadata, planVars, format, base, written, need,
                   recorded, expired, pc, next, todo, chain>>

CleanStep ==
    \/ \E byName, merge \in BOOLEAN : Scan(byName, merge)
    \/ \E p \in Disks : DeleteData(p) \/ DeletePath(p)
    \/ EndDelete
    \/ \E c \in resumes \cup merges : StartMerge(c)
    \/ MergeBlocks \/ MergeMetadata \/ BeginCleanup
    \/ \E p \in Disks : UnlinkData(p) \/ UnlinkPath(p)
    \/ Rename \/ UnlinkParent \/ DropState \/ EndMerge
    \/ CleanOrphanDataFiles
    \/ \E i \in Disks : RemoveMetadata(i) \/ KeepMetadata(i) \/ BeginUpdate(i) \/ EndUpdate(i)
    \/ EndClean

BackupStep == WriteDisk \/ CreateAlias \/ BeginRecord \/ EndRecord \/ MarkExported

Next ==
    \/ Begin
    \/ CleanStep
    \/ BackupStep
    \/ \E i \in Disks : Expire(i)
    \/ \E p \in Disks : SkipDelete(p) \/ Lose(p)
    \/ Fault

Spec == Init /\ [][Next]_vars

(* The process that holds the lock goes on; cleanups are started again and *)
(* again, and every backup run starts with one that merges.  Nothing       *)
(* forces a backup to be made or deleted, nor a fault.                     *)
Fairness ==
    /\ WF_vars(Begin /\ next' = "idle")
    /\ WF_vars(CleanStep)
    /\ WF_vars(BackupStep)
    /\ SF_vars(\E byName \in BOOLEAN : Scan(byName, TRUE))

FairSpec == Spec /\ Fairness

-----------------------------------------------------------------------------
(* The backups that were neither deleted nor damaged by the storage.       *)
Backups == {i \in recorded \ expired : need[i] \cap lost = {}}

(* Such a backup keeps its metadata, and every change it consists of is    *)
(* stored in a disk that has a path, whatever cleanVm deletes and merges   *)
(* and wherever it is interrupted.                                         *)
NoBackupLost ==
    LET stored == UNION {disk(p).holds : p \in {q \in Present : Openable(q)}}
    IN  \A i \in Backups : metadata[i] # "absent" /\ need[i] \subseteq stored

(* What a restore of path p reads: its disk and all its ancestors.         *)
ChainContent ==
    LET content[p \in Disks] ==
            IF ~ Openable(p) THEN {}
            ELSE disk(p).holds \cup (IF disk(p).parent = None THEN {}
                                     ELSE content[disk(p).parent])
    IN  content

(* When nobody works on the directory and no merge is interrupted, every   *)
(* backup restores exactly what was backed up: the disks RemoteDiskLineage *)
(* merged and those it left form the same chain.                           *)
Restorable ==
    pc = "idle" /\ Interrupted = {} =>
        \A i \in Backups : metadata[i] = "ok" /\ ChainContent[i] = need[i]

(* At most one merge is interrupted at any time: a merge that fails keeps  *)
(* the ones planned after it by clean from starting, and is resumed before *)
(* them.                                                                   *)
OneMergeInterrupted == Cardinality(Interrupted \cap Present) <= 1

(* Once backups are neither made nor deleted anymore, the directory ends   *)
(* up with the disks of the backups and no interrupted merge, as long as   *)
(* there is a backup left (clean, #cleanOrphanDataFiles).                  *)
Converges ==
    <>[](Archives # {} => Present = Archives /\ Interrupted = {})

(* The README of the backups: `one VDI directory = one chain, linear, a    *)
(* disk has at most one child`.  Neither merges, deletions nor             *)
(* interruptions break it, as long as a backup that was recorded was also  *)
(* marked as exported: a death in between (fault point "mark") chains the  *)
(* next backup onto the same disk.                                         *)
LinearChain ==
    \A p, q \in Present :
        /\ entry[p] # entry[q]
        /\ disk(p).parent # None
        => disk(p).parent # disk(q).parent

(* The README of the backups: `a disk with a missing or unreadable parent  *)
(* is unusable`.  checkBaseVdis opens the candidate base alone; still, a   *)
(* new backup is chained onto a disk that has all it needs, as long as no  *)
(* deletion was interrupted (fault point "delete").                        *)
ChainedOnUsable ==
    pc = "mark" /\ written \in Backups => need[written] \subseteq ChainContent[written]
=============================================================================
