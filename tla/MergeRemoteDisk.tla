-------------------------- MODULE MergeRemoteDisk --------------------------
(***************************************************************************)
(* The merge of a disk (the "parent") with the chain of its descendants    *)
(* (the "children"), as done by class MergeRemoteDisk on a backup remote.  *)
(*                                                                         *)
(* A merge folds the blocks of the children into the parent, then unlinks  *)
(* the children and gives the parent the path of the youngest child.  It   *)
(* is a long series of file operations on a remote: each can fail, and the *)
(* process can die between any two of them.  A state file next to the      *)
(* parent lets a later attempt resume.                                     *)
(*                                                                         *)
(* An attempt is one MergeRemoteDisk object.  Several blocks are moved at  *)
(* the same time; when one move fails the attempt is abandoned, but the    *)
(* moves under way are not cancelled and go on beside the next attempt.    *)
(*                                                                         *)
(* Children are numbered from the oldest (1) to the tip (NChildren).  The  *)
(* content of a block is abstracted to the disk that wrote it: Base for    *)
(* the parent's own data, a child's number for a child's.                  *)
(***************************************************************************)
EXTENDS Integers, FiniteSets

CONSTANTS
    NBlocks,        \* blocks of the disks (getMaxBlockCount)
    NChildren,      \* disks of the child chain
    MaxAttempts,    \* attempts explored: one MergeRemoteDisk object each
    Concurrency,    \* mergeBlockConcurrency
    UseDirectory,   \* TRUE: VHD directories, FALSE: VHD files
    RemoveUnused,   \* removeUnused: unlink the children during the cleanup
    MaxFaults       \* crashes, I/O errors and lost state writes explored

ASSUME ConstantsAssumption ==
    /\ NBlocks \in Nat
    /\ NChildren \in Nat \ {0}
    /\ MaxAttempts \in Nat
    /\ Concurrency \in Nat \ {0}
    /\ UseDirectory \in BOOLEAN
    /\ RemoveUnused \in BOOLEAN
    /\ MaxFaults \in Nat

Blocks   == 0 .. NBlocks - 1
Children == 1 .. NChildren
Tip      == NChildren
Attempts == 1 .. MaxAttempts

Base == 0       \* content written by the parent itself
None == -1      \* no block file, unallocated block
Torn == -2      \* block being overwritten in place (VHD file)

VARIABLES
    (* the remote *)
    childBat,     \* allocation table of each child: never rewritten by a merge
    childBlocks,  \* blocks each child still stores
    parentBat,    \* allocation table of the parent
    parentBlock,  \* content of each block stored by the parent
    footerOk,     \* both footers of the parent agree (VHD file)
    merged,       \* the parent's footer has the tip's uuid and sizes
    path,         \* what the path of each child gives access to
    parentPath,   \* the parent can be reached at its own path
    state,        \* the merge state file
    (* the memory of each attempt *)
    pc,           \* where the attempt is
    resuming,     \* #isResuming
    currentBlock, \* #state.currentBlock
    phase,        \* progress of each block
    memBat,       \* allocation table of the parent, in memory
    (* environment *)
    faults

remoteVars  == <<childBat, childBlocks, parentBat, parentBlock, footerOk,
                 merged, path, parentPath, state>>
attemptVars == <<pc, resuming, currentBlock, phase, memBat>>
vars == <<remoteVars, attemptVars, faults>>

StateFile(step, block) == [step |-> step, currentBlock |-> block]
NoState      == StateFile("absent", 0)
CorruptState == StateFile("corrupt", 0)
FileStates   == [step : {"absent", "corrupt", "mergeBlocks", "cleanup"}, currentBlock : Nat]
Readable     == state.step \in {"mergeBlocks", "cleanup"}

Contents == {Base, None, Torn} \cup Children
(* "own": the child's disk; "broken": its data is gone, its alias is not;  *)
(* "none": no such file; "merged": the data of the parent (the tip only).  *)
Paths  == {"own", "broken", "none", "merged"}
Phases == {"skip", "todo", "merging", "copying", "moved", "failed", "merged"}
Pcs    == {"idle", "start", "merge", "flush", "metadata", "cleanup", "unlink",
           "rename", "drop", "done", "failed", "dead"}

TypeOK ==
    /\ childBat \in [Children -> SUBSET Blocks]
    /\ childBlocks \in [Children -> SUBSET Blocks]
    /\ parentBat \in SUBSET Blocks
    /\ parentBlock \in [Blocks -> Contents]
    /\ footerOk \in BOOLEAN
    /\ merged \in BOOLEAN
    /\ path \in [Children -> Paths]
    /\ parentPath \in BOOLEAN
    /\ state \in FileStates
    /\ pc \in [Attempts -> Pcs]
    /\ resuming \in [Attempts -> BOOLEAN]
    /\ currentBlock \in [Attempts -> Nat]
    /\ phase \in [Attempts -> [Blocks -> Phases]]
    /\ memBat \in [Attempts -> SUBSET Blocks]
    /\ faults \in 0 .. MaxFaults

-----------------------------------------------------------------------------
(* The child chain (RemoteVhdDiskChain) and the parent.                    *)

hasBlock(b) == \E c \in Children : b \in childBat[c]

(* What the backed up disk contains: the youngest child that has a block.  *)
Youngest(c, b) ==
    /\ b \in childBat[c]
    /\ \A d \in Children : d > c => b \notin childBat[d]

(* getBlockPath and readBlock look for the block from the last disk of the *)
(* chain to the first.                                                     *)
getBlockPathForward(c, b) ==
    /\ b \in childBat[c]
    /\ \A d \in Children : d < c => b \notin childBat[d]
getBlockPath(c, b) ==
    /\ b \in childBat[c]
    /\ \A d \in Children : d > c => b \notin childBat[d]

(* Attempts that run in a live process.                                    *)
Active(a) == pc[a] \notin {"idle", "done", "failed", "dead"}

(* Moves go on after their attempt was abandoned; only VHD directories are *)
(* merged several blocks at a time.                                        *)
Moving(a) == pc[a] = "merge" \/ (UseDirectory /\ pc[a] = "failed")

InFlight(a, b) == phase[a][b] \in {"merging", "copying", "moved"}

(* Blocks of the local set `merging`: a block that failed stays in it.     *)
Merging(a) == {b \in Blocks : phase[a][b] \in {"merging", "copying", "moved", "failed"}}

Init ==
    /\ childBat \in [Children -> SUBSET Blocks]
    /\ childBlocks = childBat
    /\ parentBat \in SUBSET Blocks
    /\ parentBlock = [b \in Blocks |-> IF b \in parentBat THEN Base ELSE None]
    /\ footerOk = TRUE
    /\ merged = FALSE
    /\ path = [c \in Children |-> "own"]
    /\ parentPath = TRUE
    /\ state = NoState
    /\ pc = [a \in Attempts |-> "idle"]
    /\ resuming = [a \in Attempts |-> FALSE]
    /\ currentBlock = [a \in Attempts |-> 0]
    /\ phase = [a \in Attempts |-> [b \in Blocks |-> "skip"]]
    /\ memBat = [a \in Attempts |-> {}]
    /\ faults = 0

-----------------------------------------------------------------------------
(* #writeState never fails: an error is logged and swallowed.  The file is *)
(* truncated then written, so that a failure leaves the previous content   *)
(* or an unreadable file.                                                  *)
writeState(step, block) ==
    \/ /\ state' = StateFile(step, block)
       /\ UNCHANGED faults
    \/ /\ faults < MaxFaults
       /\ faults' = faults + 1
       /\ state' \in {state, CorruptState}

(* #mergeChain opens the parent, forgiving its second footer only when it  *)
(* resumes, and every disk from the tip down to the parent.                *)
Openable ==
    /\ parentPath
    /\ \A c \in Children : path[c] = "own"
    /\ footerOk \/ Readable

(* The first block the child chain has, NBlocks if it has none.            *)
IsFirstBlock(k) ==
    /\ k \in 0 .. NBlocks
    /\ \A b \in Blocks : hasBlock(b) => b >= k
    /\ k < NBlocks => hasBlock(k)

(* Blocks listed in toMerge when the merge starts from block k.            *)
ToMergeAfter(k) == [b \in Blocks |-> IF hasBlock(b) /\ b > k THEN "todo" ELSE "skip"]
ToMerge(k) == [b \in Blocks |-> IF hasBlock(b) /\ b >= k THEN "todo" ELSE "skip"]

(* merge(): the previous attempt has ended, a new one opens the disks and  *)
(* reads the state file.  An unreadable or missing file is a fresh start.  *)
StartNeverResuming(a) ==
    /\ pc[a] = "idle"
    /\ \A x \in Attempts : x < a => pc[x] \in {"failed", "dead"}
    /\ Openable
    /\ resuming' = [resuming EXCEPT ![a] = FALSE]
    /\ memBat' = [memBat EXCEPT ![a] = parentBat]
    /\ \/ /\ Readable
          /\ currentBlock' = [currentBlock EXCEPT ![a] = state.currentBlock]
          /\ pc' = [pc EXCEPT ![a] =
                      IF state.step = "cleanup" THEN "cleanup" ELSE "start"]
       \/ /\ ~Readable
          /\ pc' = [pc EXCEPT ![a] = "start"]
          /\ UNCHANGED currentBlock
    /\ UNCHANGED <<remoteVars, phase, faults>>

Start(a) ==
    /\ pc[a] = "idle"
    /\ \A x \in Attempts : x < a => pc[x] \in {"failed", "dead"}
    /\ Openable
    /\ resuming' = [resuming EXCEPT ![a] = Readable]
    /\ memBat' = [memBat EXCEPT ![a] = parentBat]
    /\ \/ /\ Readable
          /\ currentBlock' = [currentBlock EXCEPT ![a] = state.currentBlock]
          /\ pc' = [pc EXCEPT ![a] =
                      IF state.step = "cleanup" THEN "cleanup" ELSE "start"]
       \/ /\ ~Readable
          /\ pc' = [pc EXCEPT ![a] = "start"]
          /\ UNCHANGED currentBlock
    /\ UNCHANGED <<remoteVars, phase, faults>>

(* #step_mergeBlocks, resuming: the blocks below the recorded position are *)
(* marked as allocated without being looked at.                            *)
ResumeBlocksUnlisted(a) ==
    /\ pc[a] = "start"
    /\ resuming[a]
    /\ phase' = [phase EXCEPT ![a] = ToMerge(currentBlock[a])]
    /\ pc' = [pc EXCEPT ![a] = "merge"]
    /\ UNCHANGED <<remoteVars, resuming, currentBlock, memBat, faults>>

ResumeBlocks(a) ==
    /\ pc[a] = "start"
    /\ resuming[a]
    /\ memBat' = [memBat EXCEPT ![a] =
                    @ \cup {b \in Blocks : b < currentBlock[a] /\ hasBlock(b)}]
    /\ phase' = [phase EXCEPT ![a] = ToMerge(currentBlock[a])]
    /\ pc' = [pc EXCEPT ![a] = "merge"]
    /\ UNCHANGED <<remoteVars, resuming, currentBlock, faults>>

(* #step_mergeBlocks, from scratch: the state file is created first.       *)
FreshBlocks(a) ==
    /\ pc[a] = "start"
    /\ ~resuming[a]
    /\ \E k \in 0 .. NBlocks :
          /\ IsFirstBlock(k)
          /\ currentBlock' = [currentBlock EXCEPT ![a] = k]
          /\ phase' = [phase EXCEPT ![a] = ToMerge(k)]
          /\ writeState("mergeBlocks", k)
    /\ pc' = [pc EXCEPT ![a] = "merge"]
    /\ UNCHANGED <<childBat, childBlocks, parentBat, parentBlock, footerOk,
                   merged, path, parentPath, resuming, memBat>>

(* asyncEach starts the next block, in ascending order, while fewer than   *)
(* `concurrency` are under way; VHD files are merged one block at a time.  *)
BeginBlock(a, b) ==
    /\ pc[a] = "merge"
    /\ phase[a][b] = "todo"
    /\ \A x \in Blocks : phase[a][x] = "todo" => b <= x
    /\ Cardinality({x \in Blocks : InFlight(a, x)}) < (IF UseDirectory THEN Concurrency ELSE 1)
    /\ phase' = [phase EXCEPT ![a][b] = "merging"]
    /\ UNCHANGED <<remoteVars, pc, resuming, currentBlock, memBat, faults>>

(* mergeBlock of two VHD directories: the block file is renamed.           *)
MoveBlock(a, b, c) ==
    /\ UseDirectory
    /\ phase[a][b] = "merging"
    /\ Moving(a)
    /\ getBlockPath(c, b)
    /\ b \in childBlocks[c]
    /\ childBlocks' = [childBlocks EXCEPT ![c] = @ \ {b}]
    /\ parentBlock' = [parentBlock EXCEPT ![b] = c]
    /\ memBat' = [memBat EXCEPT ![a] = @ \cup {b}]
    /\ phase' = [phase EXCEPT ![a][b] = "moved"]
    /\ UNCHANGED <<childBat, parentBat, footerOk, merged, path, parentPath, state,
                   pc, resuming, currentBlock, faults>>

(* mergeBlock when the child's file is not there anymore (ENOENT): a       *)
(* resumed merge accepts the block when the parent can read it.            *)
AlreadyMovedBlock(a, b, c) ==
    /\ UseDirectory
    /\ phase[a][b] = "merging"
    /\ Moving(a)
    /\ getBlockPath(c, b)
    /\ b \notin childBlocks[c]
    /\ resuming[a]
    /\ parentBlock[b] \notin {None, Torn}
    /\ memBat' = [memBat EXCEPT ![a] = @ \cup {b}]
    /\ phase' = [phase EXCEPT ![a][b] = "moved"]
    /\ UNCHANGED <<remoteVars, pc, resuming, currentBlock, faults>>

(* The first error rejects asyncEach: #cleanup keeps the state file and    *)
(* the attempt is over, whatever the other blocks under way become.        *)
Abandon(a, b) ==
    /\ phase' = [phase EXCEPT ![a][b] = "failed"]
    /\ pc' = [pc EXCEPT ![a] = "failed"]
    /\ UNCHANGED <<remoteVars, resuming, currentBlock, memBat>>

(* mergeBlock, ENOENT: a fresh merge, or a parent without the block.       *)
MissingBlock(a, b, c) ==
    /\ UseDirectory
    /\ phase[a][b] = "merging"
    /\ Moving(a)
    /\ getBlockPath(c, b)
    /\ b \notin childBlocks[c]
    /\ ~resuming[a] \/ parentBlock[b] \in {None, Torn}
    /\ Abandon(a, b)
    /\ UNCHANGED faults

(* mergeBlock of VHD files: the block is written in place in the parent.   *)
(* A new block is allocated where the second footer was.                   *)
CopyBlock(a, b) ==
    /\ ~UseDirectory
    /\ phase[a][b] = "merging"
    /\ pc[a] = "merge"
    /\ parentBlock' = [parentBlock EXCEPT ![b] = Torn]
    /\ parentBat' = parentBat \cup {b}
    /\ footerOk' = (footerOk /\ b \in parentBat)
    /\ memBat' = [memBat EXCEPT ![a] = @ \cup {b}]
    /\ phase' = [phase EXCEPT ![a][b] = "copying"]
    /\ UNCHANGED <<childBat, childBlocks, merged, path, parentPath, state,
                   pc, resuming, currentBlock, faults>>

CopiedBlock(a, b, c) ==
    /\ ~UseDirectory
    /\ phase[a][b] = "copying"
    /\ pc[a] = "merge"
    /\ getBlockPath(c, b)
    /\ parentBlock' = [parentBlock EXCEPT ![b] = c]
    /\ phase' = [phase EXCEPT ![a][b] = "moved"]
    /\ UNCHANGED <<childBat, childBlocks, parentBat, footerOk, merged, path,
                   parentPath, state, pc, resuming, currentBlock, memBat, faults>>

(* Any other I/O error of mergeBlock.                                      *)
FailBlock(a, b) ==
    /\ phase[a][b] \in {"merging", "copying"}
    /\ Moving(a)
    /\ faults < MaxFaults
    /\ faults' = faults + 1
    /\ Abandon(a, b)

(* Mutant: the position of the last block being merged.                    *)
PositionOfLast(a, k) ==
    \E m \in Merging(a) : (\A x \in Merging(a) : x <= m) /\ k = IF m = 0 THEN 0 ELSE m - 1

(* The position recorded once block b is merged:                           *)
(* Math.max(0, Math.min(...merging) - 1), b still being in merging.        *)
Position(a, k) ==
    \E m \in Merging(a) : (\A x \in Merging(a) : m <= x) /\ k = IF m = 0 THEN 0 ELSE m - 1

(* The rest of the iteratee: position, then a throttled state write whose  *)
(* time has come or has not.                                               *)
EndBlock(a, b) ==
    /\ phase[a][b] = "moved"
    /\ Moving(a)
    /\ phase' = [phase EXCEPT ![a][b] = "merged"]
    /\ \E k \in -1 .. NBlocks :
          /\ Position(a, k)
          /\ currentBlock' = [currentBlock EXCEPT ![a] = k]
          /\ \/ writeState("mergeBlocks", k)
             \/ UNCHANGED <<state, faults>>
    /\ UNCHANGED <<childBat, childBlocks, parentBat, parentBlock, footerOk, merged,
                   path, parentPath, pc, resuming, memBat>>

(* All the blocks are merged: #mergeBlocks writes the state a last time.   *)
EndBlocksEarly(a) ==
    /\ pc[a] = "merge"
    /\ \A b \in Blocks : phase[a][b] # "todo"
    /\ writeState("mergeBlocks", currentBlock[a])
    /\ pc' = [pc EXCEPT ![a] = "flush"]
    /\ UNCHANGED <<childBat, childBlocks, parentBat, parentBlock, footerOk, merged,
                   path, parentPath, resuming, currentBlock, phase, memBat>>

EndBlocks(a) ==
    /\ pc[a] = "merge"
    /\ \A b \in Blocks : phase[a][b] \in {"skip", "merged"}
    /\ writeState("mergeBlocks", currentBlock[a])
    /\ pc' = [pc EXCEPT ![a] = "flush"]
    /\ UNCHANGED <<childBat, childBlocks, parentBat, parentBlock, footerOk, merged,
                   path, parentPath, resuming, currentBlock, phase, memBat>>

(* flushMetadata: the allocation table.                                    *)
FlushMetadata(a) ==
    /\ pc[a] = "flush"
    /\ parentBat' = memBat[a]
    /\ pc' = [pc EXCEPT ![a] = "metadata"]
    /\ UNCHANGED <<childBat, childBlocks, parentBlock, footerOk, merged, path, parentPath,
                   state, resuming, currentBlock, phase, memBat, faults>>

(* mergeMetadata: uuid and sizes of the tip, in both footers.              *)
MergeMetadata(a) ==
    /\ pc[a] = "metadata"
    /\ merged' = TRUE
    /\ footerOk' = TRUE
    /\ pc' = [pc EXCEPT ![a] = "cleanup"]
    /\ UNCHANGED <<childBat, childBlocks, parentBat, parentBlock, path, parentPath,
                   state, resuming, currentBlock, phase, memBat, faults>>

-----------------------------------------------------------------------------
(* #step_cleanup: the state file first, then the children, if asked to.    *)
BeginCleanup(a) ==
    /\ pc[a] = "cleanup"
    /\ writeState("cleanup", currentBlock[a])
    /\ pc' = [pc EXCEPT ![a] = IF RemoveUnused THEN "unlink" ELSE "rename"]
    /\ UNCHANGED <<childBat, childBlocks, parentBat, parentBlock, footerOk, merged,
                   path, parentPath, resuming, currentBlock, phase, memBat>>

(* childDisk.unlink(): from the oldest to the tip; the data of an alias    *)
(* goes before the alias, and an error on the data is ignored.             *)
UnlinkData(a, c) ==
    /\ UseDirectory
    /\ pc[a] = "unlink"
    /\ path[c] = "own"
    /\ \A d \in Children : d < c => path[d] = "none"
    /\ path' = [path EXCEPT ![c] = "broken"]
    /\ childBlocks' = [childBlocks EXCEPT ![c] = {}]
    /\ UNCHANGED <<childBat, parentBat, parentBlock, footerOk, merged, parentPath,
                   state, attemptVars, faults>>

UnlinkPath(a, c) ==
    /\ pc[a] = "unlink"
    /\ path[c] = IF UseDirectory THEN "broken" ELSE "own"
    /\ \A d \in Children : d < c => path[d] = "none"
    /\ path' = [path EXCEPT ![c] = "none"]
    /\ childBlocks' = [childBlocks EXCEPT ![c] = {}]
    /\ UNCHANGED <<childBat, parentBat, parentBlock, footerOk, merged, parentPath,
                   state, attemptVars, faults>>

(* An error is swallowed: the rename goes on with what is left.            *)
EndUnlink(a) ==
    /\ pc[a] = "unlink"
    /\ \/ (\A c \in Children : path[c] = "none") /\ UNCHANGED faults
       \/ faults < MaxFaults /\ faults' = faults + 1
    /\ pc' = [pc EXCEPT ![a] = "rename"]
    /\ UNCHANGED <<remoteVars, resuming, currentBlock, phase, memBat>>

(* parentDisk.rename(mergeTargetPath): the target is unlinked, it becomes  *)
(* an alias of the parent's data, the parent's alias is unlinked.  A VHD   *)
(* file is renamed.                                                        *)
UnlinkTarget(a) ==
    /\ pc[a] = "rename"
    /\ path[Tip] \in {"own", "broken"}
    /\ path' = [path EXCEPT ![Tip] = "none"]
    /\ childBlocks' = IF UseDirectory THEN childBlocks ELSE [childBlocks EXCEPT ![Tip] = {}]
    /\ UNCHANGED <<childBat, parentBat, parentBlock, footerOk, merged, parentPath,
                   state, attemptVars, faults>>

CreateAlias(a) ==
    /\ UseDirectory
    /\ pc[a] = "rename"
    /\ path[Tip] = "none"
    /\ path' = [path EXCEPT ![Tip] = "merged"]
    /\ UNCHANGED <<childBat, childBlocks, parentBat, parentBlock, footerOk, merged,
                   parentPath, state, attemptVars, faults>>

UnlinkParentAlias(a) ==
    /\ UseDirectory
    /\ pc[a] = "rename"
    /\ path[Tip] = "merged"
    /\ parentPath' = FALSE
    /\ pc' = [pc EXCEPT ![a] = "drop"]
    /\ UNCHANGED <<childBat, childBlocks, parentBat, parentBlock, footerOk, merged, path,
                   state, resuming, currentBlock, phase, memBat, faults>>

RenameParent(a) ==
    /\ ~UseDirectory
    /\ pc[a] = "rename"
    /\ path[Tip] = "none"
    /\ path' = [path EXCEPT ![Tip] = "merged"]
    /\ parentPath' = FALSE
    /\ pc' = [pc EXCEPT ![a] = "drop"]
    /\ UNCHANGED <<childBat, childBlocks, parentBat, parentBlock, footerOk, merged,
                   state, resuming, currentBlock, phase, memBat, faults>>

(* #cleanup with success: the state file goes last; an error is ignored.   *)
DropState(a) ==
    /\ pc[a] = "drop"
    /\ \/ state' = NoState /\ UNCHANGED faults
       \/ /\ faults < MaxFaults
          /\ faults' = faults + 1
          /\ UNCHANGED state
    /\ pc' = [pc EXCEPT ![a] = "done"]
    /\ UNCHANGED <<childBat, childBlocks, parentBat, parentBlock, footerOk, merged, path,
                   parentPath, resuming, currentBlock, phase, memBat>>

-----------------------------------------------------------------------------
(* An I/O error outside of the moves: #cleanup keeps the state file.  The  *)
(* errors of unlink are swallowed.                                         *)
Fail(a) ==
    /\ pc[a] \in {"start", "flush", "metadata", "rename"}
    /\ faults < MaxFaults
    /\ faults' = faults + 1
    /\ pc' = [pc EXCEPT ![a] = "failed"]
    /\ UNCHANGED <<remoteVars, resuming, currentBlock, phase, memBat>>

(* The process dies, with the moves left behind by abandoned attempts.     *)
Crash ==
    /\ faults < MaxFaults
    /\ faults' = faults + 1
    /\ \E a \in Attempts : Active(a) \/ \E b \in Blocks : pc[a] = "failed" /\ InFlight(a, b)
    /\ pc' = [a \in Attempts |-> IF pc[a] \in {"idle", "done"} THEN pc[a] ELSE "dead"]
    /\ UNCHANGED <<remoteVars, resuming, currentBlock, phase, memBat>>

BlockStep(a, b) ==
    \/ BeginBlock(a, b)
    \/ \E c \in Children :
          MoveBlock(a, b, c) \/ AlreadyMovedBlock(a, b, c) \/ MissingBlock(a, b, c)
          \/ CopiedBlock(a, b, c)
    \/ CopyBlock(a, b)
    \/ EndBlock(a, b)

MergeStep(a) ==
    \/ ResumeBlocks(a)
    \/ FreshBlocks(a)
    \/ \E b \in Blocks : BlockStep(a, b)
    \/ EndBlocks(a)
    \/ FlushMetadata(a)
    \/ MergeMetadata(a)

CleanupStep(a) ==
    \/ BeginCleanup(a)
    \/ \E c \in Children : UnlinkData(a, c) \/ UnlinkPath(a, c)
    \/ EndUnlink(a)
    \/ UnlinkTarget(a)
    \/ CreateAlias(a)
    \/ UnlinkParentAlias(a)
    \/ RenameParent(a)
    \/ DropState(a)

Next ==
    \/ \E a \in Attempts : Start(a) \/ MergeStep(a) \/ CleanupStep(a) \/ Fail(a)
    \/ \E a \in Attempts, b \in Blocks : FailBlock(a, b)
    \/ Crash

Spec == Init /\ [][Next]_vars

(* cleanVm is run again by every backup of the VM, and a running process   *)
(* goes on.                                                                *)
Fairness ==
    \A a \in Attempts : WF_vars(Start(a)) /\ WF_vars(MergeStep(a)) /\ WF_vars(CleanupStep(a))

FairSpec == Spec /\ Fairness

-----------------------------------------------------------------------------
(* Properties.                                                             *)

(* Block b is in the parent as the youngest child wrote it.                *)
Held(b) == \A c \in Children : Youngest(c, b) => parentBlock[b] = c

(* The parent holds, and lists, every block of the children.               *)
FullyMerged == \A b \in Blocks : Held(b) /\ (hasBlock(b) => b \in parentBat)

(* No block is ever lost: what the youngest child that has a block wrote   *)
(* is in the parent, or still in that child.  It holds between any two     *)
(* file operations of mergeBlock and of the cleanup, hence whenever the    *)
(* process dies.                                                           *)
NoBlockLost ==
    \A b \in Blocks, c \in Children :
        Youngest(c, b) /\ parentBlock[b] # c => b \in childBlocks[c]

(* A resumed merge trusts currentBlock: every block of the children below  *)
(* the position found in a state file has really been merged, although     *)
(* blocks are merged concurrently and attempts overlap (#mergeBlocks,      *)
(* `alreadyMergedBlocks`).                                                 *)
ResumePointSound ==
    Readable => \A b \in Blocks : b < state.currentBlock => Held(b)

(* A child is removed, and the state file may say `cleanup`, only when the *)
(* parent holds and lists every block: a later attempt that starts from    *)
(* the cleanup step never looks at the blocks again.                       *)
RemovedOnlyWhenMerged ==
    \/ Readable /\ state.step = "cleanup"
    \/ \E c \in Children : path[c] # "own"
    => FullyMerged /\ merged

(* The path of the backed up disk never gives access to a parent that      *)
(* misses blocks, nor lists a block the disk never had: a restore gives    *)
(* the right content or fails, it never silently gives older data.         *)
RestoreSound ==
    /\ path[Tip] = "merged" => FullyMerged
    /\ \A b \in Blocks : ~hasBlock(b) => (b \in parentBat <=> parentBlock[b] = Base)

(***************************************************************************)
(* The inductive invariant behind these properties.                        *)
(***************************************************************************)

BeforeCleanup(a) == pc[a] \in {"start", "merge", "flush", "metadata"}
AfterMerge(a) == pc[a] \in {"flush", "metadata", "cleanup", "unlink", "rename", "drop", "done"}
AfterFlush(a) == pc[a] \in {"metadata", "cleanup", "unlink", "rename", "drop", "done"}

(* Attempts follow one another: at most one is active.                     *)
AttemptsInOrder ==
    \A a, x \in Attempts : x < a /\ pc[a] # "idle" => pc[x] \in {"failed", "dead"}

(* Nothing is moved before the list of blocks is made, and the list is     *)
(* gone through in ascending order.                                        *)
InOrder(a) ==
    /\ pc[a] \in {"idle", "start"} => \A b \in Blocks : phase[a][b] = "skip"
    /\ \A b, x \in Blocks :
          phase[a][b] = "todo" /\ phase[a][x] \notin {"todo", "skip"} => x < b
    /\ \A b \in Blocks : phase[a][b] # "skip" => hasBlock(b)
BlocksInOrder == \A a \in Attempts : InOrder(a)

(* What an attempt believes to be merged is.                               *)
BelievesHeld(a, b) ==
    \/ pc[a] = "start" /\ resuming[a] /\ b < currentBlock[a]
    \/ /\ pc[a] = "merge" \/ (UseDirectory /\ \E x \in Blocks : InFlight(a, x))
       /\ phase[a][b] \in {"skip", "moved", "merged"}
    \/ AfterMerge(a)
MergedIsHeld == \A a \in Attempts, b \in Blocks : BelievesHeld(a, b) => Held(b)

(* The allocation table in memory, and then on the remote, lists them.     *)
ListsMerged(a, b) ==
    /\ /\ pc[a] = "merge"
       /\ phase[a][b] \in {"skip", "moved", "merged", "copying"}
       /\ hasBlock(b)
       => b \in memBat[a]
    /\ pc[a] = "flush" /\ hasBlock(b) => b \in memBat[a]
    /\ AfterFlush(a) /\ hasBlock(b) => b \in parentBat
    /\ pc[a] \in {"start", "merge", "flush"} /\ ~hasBlock(b)
          => (b \in memBat[a] <=> b \in parentBat)
MergedIsListed == \A a \in Attempts, b \in Blocks : ListsMerged(a, b)

(* An attempt that has not reached its cleanup finds everything in place.  *)
InPlace(a) ==
    /\ BeforeCleanup(a) => (\A c \in Children : path[c] = "own") /\ state.step # "cleanup"
    /\ pc[a] \in {"cleanup", "unlink", "rename", "drop", "done"} => merged
InPlaceBeforeCleanup == \A a \in Attempts : InPlace(a)

(* VHD files are rewritten in place: the children keep their blocks, and   *)
(* only the blocks above the recorded position are written again.          *)
RewritesAbove(a) ==
    /\ pc[a] = "start" /\ Readable
          => resuming[a] /\ state.currentBlock <= currentBlock[a]
    /\ pc[a] = "merge" /\ Readable
          => \A b \in Blocks :
                phase[a][b] \in {"todo", "merging", "copying"} => b >= state.currentBlock
FilesRewrittenAbove ==
    ~UseDirectory =>
        /\ \A c \in Children : path[c] = "own" => childBlocks[c] = childBat[c]
        /\ \A a \in Attempts : RewritesAbove(a)

IndInv ==
    /\ TypeOK
    /\ AttemptsInOrder
    /\ BlocksInOrder
    /\ MergedIsHeld
    /\ MergedIsListed
    /\ InPlaceBeforeCleanup
    /\ FilesRewrittenAbove
    /\ NoBlockLost
    /\ ResumePointSound
    /\ RemovedOnlyWhenMerged
    /\ RestoreSound

Merged == \E a \in Attempts : pc[a] = "done"
Interrupted ==
    /\ \E c \in Children : path[c] # "own"
    /\ \A a \in Attempts : ~Active(a)

(* Whatever fails, the merge ends, unless the process dies while the disks *)
(* themselves are being removed.                                           *)
EventuallyMerged == <>(Merged \/ Interrupted)
=============================================================================
