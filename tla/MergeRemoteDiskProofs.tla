----------------------- MODULE MergeRemoteDiskProofs -----------------------
(***************************************************************************)
(* Proofs about MergeRemoteDisk, for any number of blocks, children,       *)
(* attempts and faults, any concurrency, VHD files and VHD directories.    *)
(***************************************************************************)
EXTENDS MergeRemoteDisk, TLAPS

(* The state file can be parsed, or it cannot.                             *)
LEMMA ReadableBoolean == Readable \in BOOLEAN
  BY DEF Readable

(* Whatever becomes of a write of the state file, there is such a file or  *)
(* none, and faults are counted.                                           *)
LEMMA WriteStateType ==
  ASSUME TypeOK, NEW step \in {"mergeBlocks", "cleanup"}, NEW k \in Nat, writeState(step, k)
  PROVE  state' \in FileStates /\ faults' \in 0 .. MaxFaults
  BY ConstantsAssumption DEF TypeOK, writeState, StateFile, CorruptState, FileStates

(* Every step keeps the types; in particular the position never becomes    *)
(* negative, the bug merge() still works around when it reads the state.   *)
LEMMA TypeStep == TypeOK /\ [Next]_vars => TypeOK'
<1> SUFFICES ASSUME TypeOK, [Next]_vars PROVE TypeOK'
  OBVIOUS
<1> USE ConstantsAssumption DEF TypeOK, Blocks, Children, Attempts, Contents, Base, None, Torn,
        FileStates, StateFile, Paths, Phases, Pcs, remoteVars, attemptVars
<1>1. ASSUME NEW a \in Attempts, Start(a) PROVE TypeOK'
  BY <1>1, ReadableBoolean DEF Start
<1>2. ASSUME NEW a \in Attempts, ResumeBlocks(a) PROVE TypeOK'
  BY <1>2 DEF ResumeBlocks, ToMerge
<1>3. ASSUME NEW a \in Attempts, FreshBlocks(a) PROVE TypeOK'
  <2>1. PICK k \in 0 .. NBlocks :
           /\ currentBlock' = [currentBlock EXCEPT ![a] = k]
           /\ phase' = [phase EXCEPT ![a] = ToMerge(k)]
           /\ writeState("mergeBlocks", k)
    BY <1>3 DEF FreshBlocks
  <2>2. state' \in FileStates /\ faults' \in 0 .. MaxFaults
    BY <2>1, WriteStateType
  <2>3. currentBlock' \in [Attempts -> Nat]
    BY <2>1
  <2>4. ToMerge(k) \in [Blocks -> Phases]
    BY DEF ToMerge
  <2>5. phase' \in [Attempts -> [Blocks -> Phases]]
    BY <2>1, <2>4
  <2>6. /\ pc' \in [Attempts -> Pcs]
        /\ UNCHANGED <<childBat, childBlocks, parentBat, parentBlock, footerOk, merged, path,
                       parentPath, resuming, memBat>>
    BY <1>3 DEF FreshBlocks
  <2> QED
    BY <2>2, <2>3, <2>5, <2>6
<1>4. ASSUME NEW a \in Attempts, NEW b \in Blocks, BeginBlock(a, b) PROVE TypeOK'
  BY <1>4 DEF BeginBlock
<1>5. ASSUME NEW a \in Attempts, NEW b \in Blocks, NEW c \in Children, MoveBlock(a, b, c) PROVE TypeOK'
  BY <1>5 DEF MoveBlock
<1>6. ASSUME NEW a \in Attempts, NEW b \in Blocks, NEW c \in Children, AlreadyMovedBlock(a, b, c)
      PROVE TypeOK'
  BY <1>6 DEF AlreadyMovedBlock
<1>7. ASSUME NEW a \in Attempts, NEW b \in Blocks, NEW c \in Children, MissingBlock(a, b, c)
      PROVE TypeOK'
  BY <1>7 DEF MissingBlock, Abandon
<1>8. ASSUME NEW a \in Attempts, NEW b \in Blocks, NEW c \in Children, CopiedBlock(a, b, c)
      PROVE TypeOK'
  BY <1>8 DEF CopiedBlock
<1>9. ASSUME NEW a \in Attempts, NEW b \in Blocks, CopyBlock(a, b) PROVE TypeOK'
  BY <1>9 DEF CopyBlock
<1>10. ASSUME NEW a \in Attempts, NEW b \in Blocks, EndBlock(a, b) PROVE TypeOK'
  <2>1. PICK k \in -1 .. NBlocks :
           /\ Position(a, k)
           /\ currentBlock' = [currentBlock EXCEPT ![a] = k]
           /\ writeState("mergeBlocks", k) \/ UNCHANGED <<state, faults>>
    BY <1>10 DEF EndBlock
  <2>2. k \in Nat
    BY <2>1 DEF Position, Merging
  <2>3. QED
    <3>1. state' \in FileStates /\ faults' \in 0 .. MaxFaults
      BY <2>1, <2>2, WriteStateType
    <3>2. currentBlock' \in [Attempts -> Nat]
      BY <2>1, <2>2
    <3>3. phase' \in [Attempts -> [Blocks -> Phases]]
      BY <1>10 DEF EndBlock
    <3>4. UNCHANGED <<childBat, childBlocks, parentBat, parentBlock, footerOk, merged, path,
                      parentPath, pc, resuming, memBat>>
      BY <1>10 DEF EndBlock
    <3> QED BY <3>1, <3>2, <3>3, <3>4
<1>11. ASSUME NEW a \in Attempts, EndBlocks(a) PROVE TypeOK'
  <2>1. state' \in FileStates /\ faults' \in 0 .. MaxFaults
    BY <1>11, WriteStateType DEF EndBlocks
  <2> QED BY <1>11, <2>1 DEF EndBlocks
<1>12. ASSUME NEW a \in Attempts, FlushMetadata(a) PROVE TypeOK'
  BY <1>12 DEF FlushMetadata
<1>13. ASSUME NEW a \in Attempts, MergeMetadata(a) PROVE TypeOK'
  BY <1>13 DEF MergeMetadata
<1>14. ASSUME NEW a \in Attempts, BeginCleanup(a) PROVE TypeOK'
  <2>1. state' \in FileStates /\ faults' \in 0 .. MaxFaults
    BY <1>14, WriteStateType DEF BeginCleanup
  <2> QED BY <1>14, <2>1 DEF BeginCleanup
<1>15. ASSUME NEW a \in Attempts, NEW c \in Children, UnlinkData(a, c) \/ UnlinkPath(a, c)
       PROVE TypeOK'
  BY <1>15 DEF UnlinkData, UnlinkPath
<1>16. ASSUME NEW a \in Attempts,
              \/ EndUnlink(a) \/ UnlinkTarget(a) \/ CreateAlias(a)
              \/ UnlinkParentAlias(a) \/ RenameParent(a)
       PROVE TypeOK'
  <2>1. CASE EndUnlink(a)
    <3>1. faults' \in 0 .. MaxFaults
      BY <2>1 DEF EndUnlink
    <3>2. pc' = [pc EXCEPT ![a] = "rename"]
          /\ UNCHANGED <<remoteVars, resuming, currentBlock, phase, memBat>>
      BY <2>1 DEF EndUnlink
    <3> QED
      BY <3>1, <3>2
  <2>2. CASE UnlinkTarget(a)
    <3>1. /\ path' \in [Children -> Paths]
          /\ childBlocks' \in [Children -> SUBSET Blocks]
      BY <2>2 DEF UnlinkTarget, Tip
    <3>2. UNCHANGED <<childBat, parentBat, parentBlock, footerOk, merged, parentPath, state,
                      attemptVars, faults>>
      BY <2>2 DEF UnlinkTarget
    <3> QED BY <3>1, <3>2
  <2>3. CASE CreateAlias(a)
    BY <2>3 DEF CreateAlias, Tip
  <2>4. CASE UnlinkParentAlias(a)
    BY <2>4 DEF UnlinkParentAlias
  <2>5. CASE RenameParent(a)
    BY <2>5 DEF RenameParent, Tip
  <2> QED BY <1>16, <2>1, <2>2, <2>3, <2>4, <2>5
<1>17. ASSUME NEW a \in Attempts, DropState(a) PROVE TypeOK'
  <2>1. state' \in FileStates /\ faults' \in 0 .. MaxFaults
    BY <1>17 DEF DropState, NoState
  <2> QED BY <1>17, <2>1 DEF DropState
<1>18. ASSUME NEW a \in Attempts, Fail(a) PROVE TypeOK'
  BY <1>18 DEF Fail
<1>19. ASSUME NEW a \in Attempts, NEW b \in Blocks, FailBlock(a, b) PROVE TypeOK'
  <2>1. pc' \in [Attempts -> Pcs] /\ phase' \in [Attempts -> [Blocks -> Phases]]
    BY <1>19 DEF FailBlock, Abandon
  <2>2. faults' \in 0 .. MaxFaults
    BY <1>19 DEF FailBlock
  <2> QED BY <1>19, <2>1, <2>2 DEF FailBlock, Abandon
<1>20. ASSUME Crash PROVE TypeOK'
  BY <1>20 DEF Crash
<1>21. ASSUME UNCHANGED vars PROVE TypeOK'
  BY <1>21 DEF vars
<1> QED
  BY <1>1, <1>2, <1>3, <1>4, <1>5, <1>6, <1>7, <1>8, <1>9, <1>10, <1>11, <1>12, <1>13,
     <1>14, <1>15, <1>16, <1>17, <1>18, <1>19, <1>20, <1>21
  DEF Next, MergeStep, CleanupStep, BlockStep

(* A chain that was never merged has the types.                            *)
LEMMA InitType == Init => TypeOK
<1> SUFFICES ASSUME Init PROVE TypeOK
  OBVIOUS
<1>1. /\ footerOk \in BOOLEAN /\ merged \in BOOLEAN /\ parentPath \in BOOLEAN
      /\ resuming \in [Attempts -> BOOLEAN]
  BY Zenon DEF Init
<1>2. parentBlock \in [Blocks -> Contents]
  BY DEF Init, Contents
<1>3. /\ path \in [Children -> Paths]
      /\ pc \in [Attempts -> Pcs]
      /\ phase \in [Attempts -> [Blocks -> Phases]]
      /\ memBat \in [Attempts -> SUBSET Blocks]
  BY DEF Init, Paths, Pcs, Phases
<1>4. state \in FileStates /\ faults \in 0 .. MaxFaults /\ currentBlock \in [Attempts -> Nat]
  BY ConstantsAssumption DEF Init, NoState, StateFile, FileStates
<1> QED
  BY <1>1, <1>2, <1>3, <1>4 DEF Init, TypeOK

(* The state of a merge keeps its types whatever fails.                    *)
THEOREM TypeCorrect == Spec => []TypeOK
  BY InitType, TypeStep, PTL DEF Spec

-----------------------------------------------------------------------------
(***************************************************************************)
(* The inductive invariant.  Each action is shown to preserve it, from     *)
(* three shapes of step: a block reaches the parent (BlockMoved), attempts *)
(* stop (Stopped), the cleanup goes on (CleanedUp); the steps that make    *)
(* the list of blocks, record a position or write metadata are shown one   *)
(* by one.                                                                 *)
(***************************************************************************)

(* An active attempt is the only one.                                      *)
LEMMA Solo ==
  ASSUME AttemptsInOrder, NEW a \in Attempts, pc[a] \notin {"idle", "failed", "dead"}
  PROVE  \A x \in Attempts : x # a => pc[x] \in {"idle", "failed", "dead"}
  BY ConstantsAssumption DEF AttemptsInOrder, Attempts

(* A block has one youngest child.                                         *)
LEMMA YoungestUnique ==
  ASSUME NEW b, NEW c \in Children, NEW d \in Children, Youngest(c, b), Youngest(d, b)
  PROVE  c = d
  BY ConstantsAssumption DEF Youngest, Children

(* A block a child is the youngest to have is a block of the chain.        *)
LEMMA HasYoungest ==
  ASSUME NEW b \in Blocks, NEW c \in Children, Youngest(c, b)
  PROVE  hasBlock(b)
  BY DEF Youngest, hasBlock

(* Nothing is known of the children but their allocation tables.           *)
LEMMA ChainFrame ==
  ASSUME UNCHANGED childBat
  PROVE  \A b \in Blocks :
         /\ hasBlock(b)' <=> hasBlock(b)
         /\ \A c \in Children : Youngest(c, b)' <=> Youngest(c, b)
         /\ parentBlock'[b] = parentBlock[b] => (Held(b)' <=> Held(b))
  BY DEF Held, Youngest, hasBlock

(* A block reaches the parent, as its youngest child wrote it.             *)
LEMMA BlockMoved ==
  ASSUME IndInv, TypeOK', NEW a \in Attempts, NEW b \in Blocks, NEW c \in Children,
         UNCHANGED <<childBat, parentBat, merged, path, state, pc, resuming, currentBlock>>,
         phase[a][b] \in {"merging", "copying"},
         phase' = [phase EXCEPT ![a][b] = "moved"],
         memBat' = [memBat EXCEPT ![a] = @ \cup {b}],
         Youngest(c, b),
         parentBlock' = [parentBlock EXCEPT ![b] = c]
  PROVE  /\ AttemptsInOrder' /\ BlocksInOrder' /\ MergedIsHeld' /\ MergedIsListed'
         /\ InPlaceBeforeCleanup' /\ ResumePointSound' /\ RemovedOnlyWhenMerged' /\ RestoreSound'
<1> USE DEF IndInv, TypeOK
<1>f. /\ \A x \in Blocks : hasBlock(x)' <=> hasBlock(x)
      /\ \A x \in Blocks, d \in Children : Youngest(d, x)' <=> Youngest(d, x)
      /\ \A x \in Blocks \ {b} : parentBlock'[x] = parentBlock[x] /\ (Held(x)' <=> Held(x))
      /\ parentBlock'[b] = c
  BY ChainFrame
<1>b. Held(b)' /\ hasBlock(b)
  BY <1>f, YoungestUnique, HasYoungest DEF Held
<1>e. /\ phase'[a][b] = "moved"
      /\ \A x \in Blocks \ {b} : phase'[a][x] = phase[a][x]
      /\ memBat'[a] = memBat[a] \cup {b}
      /\ \A x \in Attempts \ {a} : phase'[x] = phase[x] /\ memBat'[x] = memBat[x]
  OBVIOUS
<1>0. AttemptsInOrder' /\ InPlaceBeforeCleanup'
  BY DEF AttemptsInOrder, InPlaceBeforeCleanup, InPlace, BeforeCleanup
<1>1. BlocksInOrder'
  <2> SUFFICES ASSUME NEW x \in Attempts PROVE InOrder(x)'
    BY DEF BlocksInOrder
  <2>1. CASE x = a
    BY <2>1, <1>b, <1>e, <1>f DEF BlocksInOrder, InOrder
  <2>2. CASE x # a
    BY <2>2, <1>e, <1>f DEF BlocksInOrder, InOrder
  <2> QED BY <2>1, <2>2
<1>2. MergedIsHeld'
  <2> SUFFICES ASSUME NEW x \in Attempts, NEW y \in Blocks, BelievesHeld(x, y)', y # b PROVE Held(y)
    BY <1>f, <1>b DEF MergedIsHeld
  <2>1. BelievesHeld(x, y)
    BY <1>e DEF BelievesHeld, InFlight, AfterMerge
  <2> QED BY <2>1 DEF MergedIsHeld
<1>3. MergedIsListed'
  <2> SUFFICES ASSUME NEW x \in Attempts, NEW y \in Blocks PROVE ListsMerged(x, y)'
    BY DEF MergedIsListed
  <2> USE DEF MergedIsListed, ListsMerged, AfterFlush
  <2>1. CASE x = a /\ y = b
    BY <2>1, <1>b, <1>e, <1>f
  <2>2. CASE x = a /\ y # b
    BY <2>2, <1>e, <1>f
  <2>3. CASE x # a
    BY <2>3, <1>e, <1>f
  <2> QED BY <2>1, <2>2, <2>3
<1>4. ResumePointSound' /\ RemovedOnlyWhenMerged' /\ RestoreSound'
  BY <1>f, <1>b DEF ResumePointSound, RemovedOnlyWhenMerged, RestoreSound, Readable, FullyMerged
<1> QED BY <1>0, <1>1, <1>2, <1>3, <1>4

(* Attempts are abandoned or die: nothing changes on the remote.           *)
LEMMA Stopped ==
  ASSUME IndInv, TypeOK', UNCHANGED <<remoteVars, resuming, currentBlock, memBat>>,
         \A x \in Attempts :
            /\ pc'[x] \in {pc[x], "failed", "dead"}
            /\ pc[x] = "idle" => pc'[x] = "idle"
            /\ pc[x] \in {"failed", "dead"} => pc'[x] \in {"failed", "dead"}
            /\ \A b \in Blocks : phase'[x][b] = phase[x][b] \/ (InFlight(x, b) /\ phase'[x][b] = "failed")
  PROVE  IndInv'
<1> USE ConstantsAssumption DEF IndInv, TypeOK
<1>f. \A x \in Blocks : (hasBlock(x)' <=> hasBlock(x)) /\ (Held(x)' <=> Held(x))
  BY ChainFrame DEF remoteVars
<1>0. AttemptsInOrder'
  BY DEF AttemptsInOrder
<1>1. BlocksInOrder'
  <2> SUFFICES ASSUME NEW x \in Attempts PROVE InOrder(x)'
    BY DEF BlocksInOrder
  <2>0. InOrder(x)
    BY DEF BlocksInOrder
  <2>1. \A y \in Blocks :
           \/ phase'[x][y] = phase[x][y]
           \/ /\ phase[x][y] \in {"merging", "copying", "moved"}
              /\ phase'[x][y] = "failed"
    BY Zenon DEF InFlight
  <2>2. ASSUME pc'[x] \in {"idle", "start"}, NEW y \in Blocks PROVE phase'[x][y] = "skip"
    <3>1. phase[x][y] = "skip"
      BY <2>0, <2>2 DEF InOrder
    <3> QED BY <2>1, <3>1
  <2>3. ASSUME NEW y \in Blocks, NEW z \in Blocks,
               phase'[x][y] = "todo", phase'[x][z] \notin {"todo", "skip"}
        PROVE  z < y
    <3>1. phase[x][y] = "todo" /\ phase[x][z] \notin {"todo", "skip"}
      BY <2>1, <2>3
    <3> QED BY <2>0, <3>1 DEF InOrder
  <2>4. \A y \in Blocks : phase'[x][y] # "skip" => hasBlock(y)'
    BY <2>0, <2>1, <1>f DEF InOrder
  <2> QED BY <2>2, <2>3, <2>4 DEF InOrder
<1>2. MergedIsHeld'
  <2> SUFFICES ASSUME NEW x \in Attempts, NEW y \in Blocks, BelievesHeld(x, y)' PROVE Held(y)
    BY <1>f DEF MergedIsHeld
  <2>1. BelievesHeld(x, y)
    BY DEF BelievesHeld, InFlight, AfterMerge
  <2> QED BY <2>1 DEF MergedIsHeld
<1>3. MergedIsListed'
  <2> SUFFICES ASSUME NEW x \in Attempts, NEW y \in Blocks PROVE ListsMerged(x, y)'
    BY DEF MergedIsListed
  <2> QED BY <1>f DEF MergedIsListed, ListsMerged, AfterFlush, InFlight, remoteVars
<1>4. InPlaceBeforeCleanup'
  BY DEF InPlaceBeforeCleanup, InPlace, BeforeCleanup, remoteVars
<1>5. FilesRewrittenAbove'
  <2> SUFFICES ASSUME ~UseDirectory, NEW x \in Attempts PROVE RewritesAbove(x)'
    BY DEF FilesRewrittenAbove, remoteVars
  <2>1. RewritesAbove(x) /\ state' = state /\ (Readable' <=> Readable)
    BY DEF FilesRewrittenAbove, Readable, remoteVars
  <2>2. \A y \in Blocks : phase'[x][y] \in {"todo", "merging", "copying"} => phase'[x][y] = phase[x][y]
    BY DEF InFlight
  <2> QED BY <2>1, <2>2 DEF RewritesAbove
<1>6. NoBlockLost' /\ ResumePointSound' /\ RemovedOnlyWhenMerged' /\ RestoreSound'
  BY <1>f DEF NoBlockLost, ResumePointSound, RemovedOnlyWhenMerged, RestoreSound, Readable,
     FullyMerged, Youngest, remoteVars
<1> QED BY <1>0, <1>1, <1>2, <1>3, <1>4, <1>5, <1>6

(* The cleanup goes on: everything has been merged.                        *)
LEMMA CleanedUp ==
  ASSUME IndInv, TypeOK', NEW a \in Attempts,
         UNCHANGED <<childBat, parentBat, parentBlock, merged, resuming, currentBlock, phase, memBat>>,
         pc[a] \in {"cleanup", "unlink", "rename", "drop"},
         pc' = [pc EXCEPT ![a] = pc'[a]],
         pc'[a] \in {"unlink", "rename", "drop", "done"},
         \A c \in Children : path'[c] = "own" => path[c] = "own" /\ childBlocks'[c] = childBlocks[c]
  PROVE  IndInv'
<1> USE ConstantsAssumption DEF IndInv, TypeOK
<1>f. \A x \in Blocks : (hasBlock(x)' <=> hasBlock(x)) /\ (Held(x)' <=> Held(x))
  BY ChainFrame
<1>e. \A x \in Attempts \ {a} : pc'[x] = pc[x] /\ pc[x] \in {"idle", "failed", "dead"}
  BY Solo
<1>m. FullyMerged' /\ merged'
  BY <1>f DEF FullyMerged, MergedIsHeld, BelievesHeld, AfterMerge, MergedIsListed, ListsMerged, AfterFlush,
     InPlaceBeforeCleanup, InPlace
<1>0. AttemptsInOrder'
  BY <1>e DEF AttemptsInOrder, Attempts
<1>1. BlocksInOrder'
  <2> SUFFICES ASSUME NEW x \in Attempts PROVE InOrder(x)'
    BY DEF BlocksInOrder
  <2>1. InOrder(x) /\ phase'[x] = phase[x]
    BY DEF BlocksInOrder
  <2>2. CASE x = a
    BY <2>1, <2>2, <1>f DEF InOrder
  <2>3. CASE x # a
    BY <2>1, <2>3, <1>e, <1>f DEF InOrder
  <2> QED BY <2>2, <2>3
<1>2. MergedIsHeld' /\ MergedIsListed'
  <2>1. ASSUME NEW x \in Attempts, NEW y \in Blocks PROVE ListsMerged(x, y)'
    BY <1>e, <1>f, <1>m DEF MergedIsListed, ListsMerged, AfterFlush, FullyMerged
  <2> QED BY <1>m, <2>1 DEF MergedIsHeld, MergedIsListed, FullyMerged
<1>3. InPlaceBeforeCleanup'
  BY <1>e, <1>m DEF InPlaceBeforeCleanup, InPlace, BeforeCleanup
<1>4. FilesRewrittenAbove'
  <2>1. ASSUME NEW x \in Attempts PROVE RewritesAbove(x)'
    BY <1>e DEF RewritesAbove
  <2> QED BY <2>1 DEF FilesRewrittenAbove
<1>5. NoBlockLost' /\ ResumePointSound' /\ RemovedOnlyWhenMerged'
  BY <1>m DEF NoBlockLost, ResumePointSound, RemovedOnlyWhenMerged, FullyMerged, Held
<1>6. RestoreSound'
  BY <1>f, <1>m DEF RestoreSound
<1> QED BY <1>0, <1>1, <1>2, <1>3, <1>4, <1>5, <1>6

(* A new attempt believes the state file, and is right to.                 *)
LEMMA StartInv ==
  ASSUME IndInv, TypeOK', NEW a \in Attempts, Start(a)
  PROVE  IndInv'
<1> USE ConstantsAssumption DEF IndInv, TypeOK
<1>f. /\ UNCHANGED <<childBat, childBlocks, parentBat, parentBlock, merged, path, state, phase>>
      /\ \A b \in Blocks : (hasBlock(b)' <=> hasBlock(b)) /\ (Held(b)' <=> Held(b))
      /\ Readable' <=> Readable
  BY ChainFrame DEF Start, remoteVars, Readable
<1>e. /\ \A c \in Children : path[c] = "own"
      /\ pc[a] = "idle" /\ pc'[a] \in {"start", "cleanup"}
      /\ memBat'[a] = parentBat
      /\ Readable => resuming'[a] /\ currentBlock'[a] = state.currentBlock
      /\ ~Readable => ~resuming'[a] 
      /\ pc'[a] = "cleanup" <=> Readable /\ state.step = "cleanup"
      /\ \A x \in Attempts : x < a => pc[x] \in {"failed", "dead"}
      /\ \A x \in Attempts \ {a} :
            pc'[x] = pc[x] /\ resuming'[x] = resuming[x] /\ currentBlock'[x] = currentBlock[x] /\ memBat'[x] = memBat[x]
  BY ReadableBoolean DEF Start, Openable
<1>c. pc'[a] = "cleanup" => FullyMerged /\ merged
  BY <1>e DEF RemovedOnlyWhenMerged
<1>g. Readable => \A b \in Blocks : b < state.currentBlock => Held(b)
  BY DEF ResumePointSound
<1>0. AttemptsInOrder'
  BY <1>e DEF AttemptsInOrder, Attempts
<1>1. BlocksInOrder'
  <2> SUFFICES ASSUME NEW x \in Attempts PROVE InOrder(x)'
    BY DEF BlocksInOrder
  <2>1. CASE x = a
    BY <2>1, <1>e, <1>f DEF BlocksInOrder, InOrder
  <2>2. CASE x # a
    BY <2>2, <1>e, <1>f DEF BlocksInOrder, InOrder
  <2> QED BY <2>1, <2>2
<1>2. MergedIsHeld'
  <2> SUFFICES ASSUME NEW x \in Attempts, NEW b \in Blocks, BelievesHeld(x, b)' PROVE Held(b)
    BY <1>f DEF MergedIsHeld
  <2>1. CASE x = a
    BY <2>1, <1>c, <1>e, <1>f, <1>g DEF AfterMerge, FullyMerged, InFlight, BlocksInOrder, InOrder, BelievesHeld
  <2>2. CASE x # a
    BY <2>2, <1>e, <1>f DEF AfterMerge, MergedIsHeld, InFlight, BelievesHeld
  <2> QED BY <2>1, <2>2
<1>3. MergedIsListed'
  <2> SUFFICES ASSUME NEW x \in Attempts, NEW b \in Blocks PROVE ListsMerged(x, b)'
    BY DEF MergedIsListed
  <2>1. CASE x = a
    BY <2>1, <1>c, <1>e, <1>f DEF ListsMerged, AfterFlush, FullyMerged
  <2>2. CASE x # a
    BY <2>2, <1>e, <1>f DEF MergedIsListed, ListsMerged, AfterFlush
  <2> QED BY <2>1, <2>2
<1>4. InPlaceBeforeCleanup'
  <2> SUFFICES ASSUME NEW x \in Attempts PROVE InPlace(x)'
    BY DEF InPlaceBeforeCleanup
  <2>1. CASE x = a
    BY <2>1, <1>c, <1>e, <1>f DEF InPlace, BeforeCleanup, Readable
  <2>2. CASE x # a
    BY <2>2, <1>e, <1>f DEF InPlaceBeforeCleanup, InPlace, BeforeCleanup
  <2> QED BY <2>1, <2>2
<1>5. FilesRewrittenAbove'
  <2> SUFFICES ASSUME ~UseDirectory, NEW x \in Attempts PROVE RewritesAbove(x)'
    BY <1>f DEF FilesRewrittenAbove
  <2>1. CASE x = a
    BY <2>1, <1>e, <1>f DEF RewritesAbove, FileStates
  <2>2. CASE x # a
    BY <2>2, <1>e, <1>f DEF FilesRewrittenAbove, RewritesAbove
  <2> QED BY <2>1, <2>2
<1>6. NoBlockLost' /\ ResumePointSound' /\ RemovedOnlyWhenMerged' /\ RestoreSound'
  BY <1>f DEF NoBlockLost, ResumePointSound, RemovedOnlyWhenMerged, RestoreSound, FullyMerged, Youngest
<1> QED BY <1>0, <1>1, <1>2, <1>3, <1>4, <1>5, <1>6

(* A resumed merge skips the blocks below the recorded position.           *)
LEMMA ResumeBlocksInv ==
  ASSUME IndInv, TypeOK', NEW a \in Attempts, ResumeBlocks(a)
  PROVE  IndInv'
<1> USE ConstantsAssumption DEF IndInv, TypeOK
<1>f. /\ UNCHANGED <<remoteVars, resuming, currentBlock>>
      /\ \A b \in Blocks : (hasBlock(b)' <=> hasBlock(b)) /\ (Held(b)' <=> Held(b))
  BY ChainFrame DEF ResumeBlocks, remoteVars
<1>e. /\ pc[a] = "start" /\ resuming[a] /\ pc'[a] = "merge"
      /\ \A b \in Blocks : phase[a][b] = "skip" /\ phase'[a][b] \in {"skip", "todo"}
      /\ \A b \in Blocks : phase'[a][b] = "todo" => b >= currentBlock[a] /\ hasBlock(b)
      /\ \A b \in Blocks : phase'[a][b] = "skip" => ~hasBlock(b) \/ b < currentBlock[a]
      /\ \A b \in Blocks : b < currentBlock[a] /\ hasBlock(b) => b \in memBat'[a]
      /\ \A b \in Blocks : ~hasBlock(b) => (b \in memBat'[a] <=> b \in memBat[a])
      /\ \A x \in Attempts : x # a => pc'[x] = pc[x] /\ phase'[x] = phase[x] /\ memBat'[x] = memBat[x]
  BY DEF ResumeBlocks, ToMerge, Blocks, BlocksInOrder, InOrder
<1>n. \A b \in Blocks : ~hasBlock(b) => Held(b)
  BY HasYoungest DEF Held
<1>0. AttemptsInOrder'
  BY <1>e DEF AttemptsInOrder, Attempts
<1>1. BlocksInOrder'
  <2> SUFFICES ASSUME NEW x \in Attempts PROVE InOrder(x)'
    BY DEF BlocksInOrder
  <2>1. CASE x = a
    BY <2>1, <1>e, <1>f DEF BlocksInOrder, InOrder
  <2>2. CASE x # a
    BY <2>2, <1>e, <1>f DEF BlocksInOrder, InOrder
  <2> QED BY <2>1, <2>2
<1>2. MergedIsHeld'
  <2> SUFFICES ASSUME NEW x \in Attempts, NEW b \in Blocks, BelievesHeld(x, b)' PROVE Held(b)
    BY <1>f DEF MergedIsHeld
  <2>1. CASE x = a
    BY <2>1, <1>e, <1>f, <1>n DEF BelievesHeld, MergedIsHeld, InFlight, AfterMerge
  <2>2. CASE x # a
    BY <2>2, <1>e, <1>f DEF BelievesHeld, MergedIsHeld, InFlight, AfterMerge
  <2> QED BY <2>1, <2>2
<1>3. MergedIsListed' /\ InPlaceBeforeCleanup'
  <2>1. ASSUME NEW x \in Attempts, NEW b \in Blocks PROVE ListsMerged(x, b)'
    BY <1>e, <1>f DEF MergedIsListed, ListsMerged, AfterFlush, remoteVars
  <2>2. InPlaceBeforeCleanup'
    BY <1>e, <1>f DEF InPlaceBeforeCleanup, InPlace, BeforeCleanup, remoteVars
  <2> QED BY <2>1, <2>2 DEF MergedIsListed
<1>4. FilesRewrittenAbove'
  <2>1. ASSUME ~UseDirectory, NEW x \in Attempts PROVE RewritesAbove(x)'
    BY <2>1, <1>e, <1>f DEF FilesRewrittenAbove, RewritesAbove, Readable, FileStates, remoteVars, Blocks
  <2> QED BY <2>1, <1>f DEF FilesRewrittenAbove, remoteVars
<1>5. NoBlockLost' /\ ResumePointSound' /\ RemovedOnlyWhenMerged' /\ RestoreSound'
  BY <1>f DEF NoBlockLost, ResumePointSound, RemovedOnlyWhenMerged, RestoreSound, Readable, FullyMerged, Youngest, remoteVars
<1> QED BY <1>0, <1>1, <1>2, <1>3, <1>4, <1>5

(* A fresh merge skips the blocks no child has.                            *)
LEMMA FreshBlocksInv ==
  ASSUME IndInv, TypeOK', NEW a \in Attempts, FreshBlocks(a)
  PROVE  IndInv'
<1> USE ConstantsAssumption DEF IndInv, TypeOK
<1>f. /\ UNCHANGED <<childBat, childBlocks, parentBat, parentBlock, footerOk, merged, path, parentPath, resuming, memBat>>
      /\ \A b \in Blocks : (hasBlock(b)' <=> hasBlock(b)) /\ (Held(b)' <=> Held(b))
  BY ChainFrame DEF FreshBlocks
<1>k. PICK k \in 0 .. NBlocks :
          /\ IsFirstBlock(k)
          /\ currentBlock' = [currentBlock EXCEPT ![a] = k]
          /\ phase' = [phase EXCEPT ![a] = ToMerge(k)]
          /\ writeState("mergeBlocks", k)
  BY DEF FreshBlocks
<1>n. \A b \in Blocks : ~hasBlock(b) => Held(b)
  BY HasYoungest DEF Held
<1>z. \A b \in Blocks : phase[a][b] = "skip" /\ (b < k => ~hasBlock(b))
  BY <1>k DEF FreshBlocks, BlocksInOrder, InOrder, IsFirstBlock, Blocks
<1>e. /\ pc[a] = "start" /\ ~resuming[a] /\ pc'[a] = "merge"
      /\ \A b \in Blocks :
            \/ phase'[a][b] = "skip" /\ ~hasBlock(b)
            \/ phase'[a][b] = "todo" /\ b >= k /\ hasBlock(b)
      /\ \A x \in Attempts : x # a =>
            pc'[x] = pc[x] /\ phase'[x] = phase[x] /\ currentBlock'[x] = currentBlock[x]
  BY <1>k, <1>z DEF FreshBlocks, ToMerge, Blocks
<1>s. \A x \in Attempts : x # a => pc[x] \in {"idle", "failed", "dead"}
  BY <1>e, Solo
<1>w. \/ state' = StateFile("mergeBlocks", k)
      \/ state' = state
      \/ state' = CorruptState
  BY <1>k DEF writeState
<1>r. ~UseDirectory => ~Readable
  BY <1>e DEF FilesRewrittenAbove, RewritesAbove
<1>0. AttemptsInOrder'
  BY <1>e DEF AttemptsInOrder, Attempts
<1>1. BlocksInOrder'
  <2> SUFFICES ASSUME NEW x \in Attempts PROVE InOrder(x)'
    BY DEF BlocksInOrder
  <2>1. CASE x = a
    BY <2>1, <1>e, <1>f DEF BlocksInOrder, InOrder
  <2>2. CASE x # a
    BY <2>2, <1>e, <1>f DEF BlocksInOrder, InOrder
  <2> QED BY <2>1, <2>2
<1>2. MergedIsHeld'
  <2> SUFFICES ASSUME NEW x \in Attempts, NEW b \in Blocks, BelievesHeld(x, b)' PROVE Held(b)
    BY <1>f DEF MergedIsHeld
  <2>1. CASE x = a
    BY <2>1, <1>e, <1>f, <1>n DEF BelievesHeld, InFlight, AfterMerge
  <2>2. CASE x # a
    BY <2>2, <1>e, <1>f DEF BelievesHeld, MergedIsHeld, InFlight, AfterMerge
  <2> QED BY <2>1, <2>2
<1>3. MergedIsListed'
  BY <1>e, <1>f DEF MergedIsListed, ListsMerged, AfterFlush
<1>4. InPlaceBeforeCleanup' /\ RemovedOnlyWhenMerged'
  BY <1>e, <1>f, <1>w DEF InPlaceBeforeCleanup, InPlace, BeforeCleanup, RemovedOnlyWhenMerged, StateFile, CorruptState, FullyMerged, Readable
<1>5. FilesRewrittenAbove'
  <2> SUFFICES ASSUME ~UseDirectory, NEW x \in Attempts PROVE RewritesAbove(x)'
    BY <1>f DEF FilesRewrittenAbove
  <2>1. Readable' => state'.currentBlock = k
    BY <1>r, <1>w DEF Readable, StateFile, CorruptState
  <2>2. CASE x = a
    BY <2>1, <2>2, <1>e DEF RewritesAbove
  <2>3. CASE x # a
    BY <2>3, <1>e, <1>s DEF RewritesAbove
  <2> QED BY <2>2, <2>3
<1>6. ResumePointSound'
  BY <1>z, <1>f, <1>w, <1>n DEF ResumePointSound, Readable, StateFile, CorruptState
<1>7. NoBlockLost' /\ RestoreSound'
  BY <1>f DEF NoBlockLost, RestoreSound, FullyMerged, Youngest
<1> QED BY <1>0, <1>1, <1>2, <1>3, <1>4, <1>5, <1>6, <1>7

(* A block is taken from the list: the lowest one.                         *)
LEMMA BeginBlockInv ==
  ASSUME IndInv, TypeOK', NEW a \in Attempts, NEW b \in Blocks, BeginBlock(a, b)
  PROVE  IndInv'
<1> USE ConstantsAssumption DEF IndInv, TypeOK
<1>f. /\ UNCHANGED <<remoteVars, pc, resuming, currentBlock, memBat>>
      /\ \A x \in Blocks : (hasBlock(x)' <=> hasBlock(x)) /\ (Held(x)' <=> Held(x))
  BY ChainFrame DEF BeginBlock, remoteVars
<1>e. /\ pc[a] = "merge" /\ phase[a][b] = "todo" /\ phase'[a][b] = "merging"
      /\ \A x \in Blocks : phase[a][x] = "todo" => b <= x
      /\ \A x \in Blocks \ {b} : phase'[a][x] = phase[a][x]
      /\ \A x \in Attempts \ {a} : phase'[x] = phase[x]
  BY DEF BeginBlock
<1>0. AttemptsInOrder' /\ InPlaceBeforeCleanup'
  BY <1>f DEF AttemptsInOrder, InPlaceBeforeCleanup, InPlace, BeforeCleanup, remoteVars
<1>1. BlocksInOrder'
  <2> SUFFICES ASSUME NEW x \in Attempts PROVE InOrder(x)'
    BY DEF BlocksInOrder
  <2>1. CASE x = a
    BY <2>1, <1>e, <1>f DEF BlocksInOrder, InOrder, Blocks
  <2>2. CASE x # a
    BY <2>2, <1>e, <1>f DEF BlocksInOrder, InOrder
  <2> QED BY <2>1, <2>2
<1>2. MergedIsHeld'
  <2> SUFFICES ASSUME NEW x \in Attempts, NEW y \in Blocks, BelievesHeld(x, y)' PROVE BelievesHeld(x, y)
    BY <1>f DEF MergedIsHeld
  <2>1. CASE x = a
    BY <2>1, <1>e, <1>f DEF BelievesHeld, AfterMerge
  <2>2. CASE x # a
    BY <2>2, <1>e, <1>f DEF BelievesHeld, AfterMerge, InFlight
  <2> QED BY <2>1, <2>2
<1>3. MergedIsListed'
  <2> SUFFICES ASSUME NEW x \in Attempts, NEW y \in Blocks PROVE ListsMerged(x, y)'
    BY DEF MergedIsListed
  <2> QED BY <1>e, <1>f DEF MergedIsListed, ListsMerged, AfterFlush, remoteVars
<1>4. FilesRewrittenAbove'
  <2> SUFFICES ASSUME ~UseDirectory, NEW x \in Attempts PROVE RewritesAbove(x)'
    BY <1>f DEF FilesRewrittenAbove, remoteVars
  <2>1. RewritesAbove(x) /\ state' = state /\ (Readable' <=> Readable)
    BY <1>f DEF FilesRewrittenAbove, Readable, remoteVars
  <2>2. CASE x = a
    BY <2>1, <2>2, <1>e, <1>f DEF RewritesAbove
  <2>3. CASE x # a
    BY <2>1, <2>3, <1>e, <1>f DEF RewritesAbove
  <2> QED BY <2>2, <2>3
<1>5. NoBlockLost' /\ ResumePointSound' /\ RemovedOnlyWhenMerged' /\ RestoreSound'
  BY <1>f DEF NoBlockLost, ResumePointSound, RemovedOnlyWhenMerged, RestoreSound, Readable,
     FullyMerged, Youngest, remoteVars
<1> QED BY <1>0, <1>1, <1>2, <1>3, <1>4, <1>5

(* VHD directories: the file of the block is renamed, or was before.       *)
LEMMA MoveBlockInv ==
  ASSUME IndInv, TypeOK', NEW a \in Attempts, NEW b \in Blocks, NEW c \in Children, MoveBlock(a, b, c) \/ AlreadyMovedBlock(a, b, c)
  PROVE  IndInv'
<1> USE ConstantsAssumption DEF IndInv, TypeOK
<1>y. UseDirectory /\ Youngest(c, b)
  BY DEF MoveBlock, AlreadyMovedBlock, getBlockPath, Youngest
<1>p. parentBlock' = [parentBlock EXCEPT ![b] = c]
  <2>1. CASE MoveBlock(a, b, c)
    BY <2>1 DEF MoveBlock
  <2>2. CASE AlreadyMovedBlock(a, b, c)
    <3>1. parentBlock' = parentBlock /\ b \notin childBlocks[c]
      BY <2>2 DEF AlreadyMovedBlock, remoteVars
    <3>2. parentBlock[b] = c
      BY <1>y, <3>1 DEF NoBlockLost
    <3> QED BY <3>1, <3>2
  <2> QED BY <2>1, <2>2
<1>m. /\ UNCHANGED <<childBat, parentBat, merged, path, state, pc, resuming, currentBlock>>
      /\ phase[a][b] \in {"merging", "copying"}
      /\ phase' = [phase EXCEPT ![a][b] = "moved"]
      /\ memBat' = [memBat EXCEPT ![a] = @ \cup {b}]
  BY DEF MoveBlock, AlreadyMovedBlock, remoteVars
<1>1. AttemptsInOrder' /\ BlocksInOrder' /\ MergedIsHeld' /\ MergedIsListed'
         /\ InPlaceBeforeCleanup' /\ ResumePointSound' /\ RemovedOnlyWhenMerged' /\ RestoreSound'
  BY <1>y, <1>p, <1>m, BlockMoved
<1>2. NoBlockLost'
  BY <1>y, <1>p, YoungestUnique DEF NoBlockLost, MoveBlock, AlreadyMovedBlock, Youngest, remoteVars
<1>3. FilesRewrittenAbove'
  BY <1>y DEF FilesRewrittenAbove
<1> QED BY <1>1, <1>2, <1>3

(* VHD files: a block at or above the recorded position is overwritten.    *)
LEMMA CopyBlockInv ==
  ASSUME IndInv, TypeOK', NEW a \in Attempts, NEW b \in Blocks, CopyBlock(a, b)
  PROVE  IndInv'
<1> USE ConstantsAssumption DEF IndInv, TypeOK
<1>f. /\ UNCHANGED <<childBat, childBlocks, merged, path, parentPath, state, pc, resuming, currentBlock>>
      /\ \A x \in Blocks : hasBlock(x)' <=> hasBlock(x)
      /\ \A x \in Blocks, d \in Children : Youngest(d, x)' <=> Youngest(d, x)
      /\ \A x \in Blocks \ {b} : parentBlock'[x] = parentBlock[x] /\ (Held(x)' <=> Held(x))
  BY ChainFrame DEF CopyBlock
<1>e. /\ ~UseDirectory /\ pc[a] = "merge" /\ phase[a][b] = "merging" /\ phase'[a][b] = "copying"
      /\ parentBat' = parentBat \cup {b}
      /\ memBat'[a] = memBat[a] \cup {b}
      /\ \A x \in Blocks \ {b} : phase'[a][x] = phase[a][x]
      /\ \A x \in Attempts \ {a} : phase'[x] = phase[x] /\ memBat'[x] = memBat[x]
  BY DEF CopyBlock
<1>s. \A x \in Attempts \ {a} : pc[x] \in {"idle", "failed", "dead"}
  BY <1>e, Solo
<1>b. hasBlock(b)
  BY <1>e DEF BlocksInOrder, InOrder
<1>i. /\ \A d \in Children : path[d] = "own" /\ childBlocks[d] = childBat[d]
      /\ state.step # "cleanup"
      /\ Readable => state.currentBlock <= b
  BY <1>e DEF InPlaceBeforeCleanup, InPlace, BeforeCleanup, FilesRewrittenAbove, RewritesAbove
<1>0. AttemptsInOrder' /\ InPlaceBeforeCleanup'
  BY <1>f DEF AttemptsInOrder, InPlaceBeforeCleanup, InPlace, BeforeCleanup
<1>1. BlocksInOrder'
  <2> SUFFICES ASSUME NEW x \in Attempts PROVE InOrder(x)'
    BY DEF BlocksInOrder
  <2>0. InOrder(x) /\ pc' = pc
    BY <1>f DEF BlocksInOrder
  <2>1. CASE x = a
    <3>1. \A y \in Blocks : phase'[a][y] # "skip" => hasBlock(y)'
      BY <2>0, <2>1, <1>e, <1>f, <1>b DEF InOrder
    <3>2. ASSUME NEW y \in Blocks, NEW z \in Blocks,
                 phase'[a][y] = "todo", phase'[a][z] \notin {"todo", "skip"}
          PROVE  z < y
      BY <3>2, <2>0, <2>1, <1>e DEF InOrder
    <3> QED BY <3>1, <3>2, <2>0, <2>1, <1>e DEF InOrder
  <2>2. CASE x # a
    BY <2>0, <2>2, <1>e, <1>f DEF InOrder
  <2> QED BY <2>1, <2>2
<1>2. MergedIsHeld'
  <2> SUFFICES ASSUME NEW x \in Attempts, NEW y \in Blocks, BelievesHeld(x, y)' PROVE y # b /\ Held(y)
    BY <1>f DEF MergedIsHeld
  <2>1. x = a
    BY <1>e, <1>f, <1>s DEF BelievesHeld, AfterMerge
  <2>2. y # b /\ BelievesHeld(a, y)
    BY <2>1, <1>e, <1>f DEF BelievesHeld, AfterMerge
  <2> QED BY <2>2 DEF MergedIsHeld
<1>3. MergedIsListed'
  <2> SUFFICES ASSUME NEW x \in Attempts, NEW y \in Blocks PROVE ListsMerged(x, y)'
    BY DEF MergedIsListed
  <2> USE DEF MergedIsListed, ListsMerged, AfterFlush
  <2>1. CASE x = a
    BY <2>1, <1>e, <1>f, <1>b
  <2>2. CASE x # a
    BY <2>2, <1>e, <1>f, <1>s
  <2> QED BY <2>1, <2>2
<1>4. FilesRewrittenAbove'
  <2>1. ASSUME NEW x \in Attempts PROVE RewritesAbove(x)'
    <3>1. CASE x = a
      <4>1. RewritesAbove(a)
        BY <1>e DEF FilesRewrittenAbove
      <4>2. /\ UNCHANGED <<state, pc>>
            /\ \A y \in Blocks : phase'[a][y] \in {"todo", "merging", "copying"}
                                 => phase[a][y] \in {"todo", "merging", "copying"}
        BY <1>e, <1>f
      <4> QED BY <3>1, <4>1, <4>2, <1>e DEF RewritesAbove, Readable
    <3>2. CASE x # a
      BY <3>2, <1>e, <1>f, <1>s DEF RewritesAbove
    <3> QED BY <3>1, <3>2
  <2> QED BY <2>1, <1>f DEF FilesRewrittenAbove
<1>5. ResumePointSound'
  BY <1>f, <1>i DEF ResumePointSound, Readable, Blocks, FileStates
<1>6. NoBlockLost' /\ RemovedOnlyWhenMerged'
  BY <1>f, <1>i DEF NoBlockLost, RemovedOnlyWhenMerged, Youngest
<1>7. RestoreSound'
  BY <1>f, <1>i, <1>b, <1>e DEF RestoreSound, Tip, Children
<1> QED BY <1>0, <1>1, <1>2, <1>3, <1>4, <1>5, <1>6, <1>7

(* VHD files: the block is complete.                                       *)
LEMMA CopiedBlockInv ==
  ASSUME IndInv, TypeOK', NEW a \in Attempts, NEW b \in Blocks, NEW c \in Children, CopiedBlock(a, b, c)
  PROVE  IndInv'
<1> USE ConstantsAssumption DEF IndInv, TypeOK
<1>y. Youngest(c, b)
  BY DEF CopiedBlock, getBlockPath, Youngest
<1>m. memBat' = [memBat EXCEPT ![a] = @ \cup {b}]
  <2>1. hasBlock(b)
    BY <1>y, HasYoungest
  <2>2. b \in memBat[a]
    BY <2>1 DEF CopiedBlock, MergedIsListed, ListsMerged
  <2> QED BY <2>2 DEF CopiedBlock
<1>1. AttemptsInOrder' /\ BlocksInOrder' /\ MergedIsHeld' /\ MergedIsListed'
         /\ InPlaceBeforeCleanup' /\ ResumePointSound' /\ RemovedOnlyWhenMerged' /\ RestoreSound'
  BY <1>y, <1>m, BlockMoved DEF CopiedBlock
<1>2. NoBlockLost'
  BY <1>y, YoungestUnique DEF NoBlockLost, CopiedBlock, Youngest
<1>3. FilesRewrittenAbove'
  <2> SUFFICES ASSUME ~UseDirectory, NEW x \in Attempts PROVE RewritesAbove(x)'
    BY DEF FilesRewrittenAbove, CopiedBlock
  <2>1. RewritesAbove(x) /\ state' = state /\ (Readable' <=> Readable)
    BY DEF FilesRewrittenAbove, Readable, CopiedBlock
  <2> QED BY <2>1 DEF RewritesAbove, CopiedBlock
<1> QED BY <1>1, <1>2, <1>3

(* A position is recorded: everything below it is in the parent, since the *)
(* blocks under way, the failed ones and those not begun are all above.    *)
LEMMA EndBlockInv ==
  ASSUME IndInv, TypeOK', NEW a \in Attempts, NEW b \in Blocks, EndBlock(a, b)
  PROVE  IndInv'
<1> USE ConstantsAssumption DEF IndInv, TypeOK
<1>f. /\ UNCHANGED <<childBat, childBlocks, parentBat, parentBlock, merged, path, parentPath, pc, resuming, memBat>>
      /\ \A x \in Blocks : (hasBlock(x)' <=> hasBlock(x)) /\ (Held(x)' <=> Held(x))
  BY ChainFrame DEF EndBlock
<1>e. /\ phase[a][b] = "moved" /\ phase'[a][b] = "merged"
      /\ pc[a] = "merge" \/ (UseDirectory /\ pc[a] = "failed")
      /\ \A x \in Blocks \ {b} : phase'[a][x] = phase[a][x]
      /\ \A x \in Attempts \ {a} : phase'[x] = phase[x] /\ currentBlock'[x] = currentBlock[x]
  BY DEF EndBlock, Moving
<1>k. PICK k \in -1 .. NBlocks :
          /\ Position(a, k)
          /\ currentBlock' = [currentBlock EXCEPT ![a] = k]
          /\ writeState("mergeBlocks", k) \/ UNCHANGED <<state, faults>>
  BY DEF EndBlock
<1>m. PICK m \in Merging(a) : (\A x \in Merging(a) : m <= x) /\ k = IF m = 0 THEN 0 ELSE m - 1
  BY <1>k DEF Position
<1>w. state' \in {state, CorruptState, StateFile("mergeBlocks", k)}
  BY <1>k DEF writeState
<1>o. \A x \in Blocks : phase[a][x] \in {"todo", "merging", "copying"} => k <= x
  <2>1. m \in Blocks /\ phase[a][m] \notin {"todo", "skip"}
    BY DEF Merging
  <2>2. \A x \in Blocks : phase[a][x] = "todo" => m < x
    BY <2>1 DEF BlocksInOrder, InOrder
  <2>3. \A x \in Blocks : phase[a][x] \in {"merging", "copying"} => m <= x
    BY <1>m DEF Merging
  <2> QED BY <1>m, <2>1, <2>2, <2>3 DEF Blocks
<1>h. \A x \in Blocks : x < k => Held(x)
  <2> SUFFICES ASSUME NEW x \in Blocks, x < k PROVE BelievesHeld(a, x)
    BY DEF MergedIsHeld
  <2>1. x < m /\ x \notin Merging(a)
    BY <1>m DEF Blocks, Merging
  <2>2. phase[a][x] \in {"skip", "merged"}
    BY <2>1, <1>o DEF Merging, Phases, Blocks
  <2> QED BY <2>2, <1>e DEF BelievesHeld, InFlight
<1>0. AttemptsInOrder' /\ InPlaceBeforeCleanup'
  BY <1>f, <1>w DEF AttemptsInOrder, InPlaceBeforeCleanup, InPlace, BeforeCleanup, StateFile, CorruptState
<1>1. BlocksInOrder'
  <2> SUFFICES ASSUME NEW x \in Attempts PROVE InOrder(x)'
    BY DEF BlocksInOrder
  <2>1. CASE x = a
    BY <2>1, <1>e, <1>f DEF BlocksInOrder, InOrder
  <2>2. CASE x # a
    BY <2>2, <1>e, <1>f DEF BlocksInOrder, InOrder
  <2> QED BY <2>1, <2>2
<1>2. MergedIsHeld'
  <2> SUFFICES ASSUME NEW x \in Attempts, NEW y \in Blocks, BelievesHeld(x, y)' PROVE BelievesHeld(x, y)
    BY <1>f DEF MergedIsHeld
  <2>1. CASE x = a
    BY <2>1, <1>e, <1>f DEF BelievesHeld, AfterMerge, InFlight
  <2>2. CASE x # a
    BY <2>2, <1>e, <1>f DEF BelievesHeld, AfterMerge, InFlight
  <2> QED BY <2>1, <2>2
<1>3. MergedIsListed'
  <2> SUFFICES ASSUME NEW x \in Attempts, NEW y \in Blocks PROVE ListsMerged(x, y)'
    BY DEF MergedIsListed
  <2> QED BY <1>e, <1>f DEF MergedIsListed, ListsMerged, AfterFlush
<1>4. FilesRewrittenAbove'
  <2> SUFFICES ASSUME ~UseDirectory, NEW x \in Attempts PROVE RewritesAbove(x)'
    BY <1>f DEF FilesRewrittenAbove
  <2>1. CASE x = a
    <3>1. \A y \in Blocks : phase'[a][y] \in {"todo", "merging", "copying"}
             => phase[a][y] \in {"todo", "merging", "copying"} /\ k <= y
      BY <1>e, <1>o
    <3>2. Readable' => state'.currentBlock = k \/ (Readable /\ state' = state)
      BY <1>w DEF Readable, StateFile, CorruptState
    <3>3. pc'[a] = "merge" /\ RewritesAbove(a)
      BY <1>e, <1>f DEF FilesRewrittenAbove
    <3> QED BY <2>1, <3>1, <3>2, <3>3, <1>f DEF RewritesAbove
  <2>2. CASE x # a
    <3>1. pc'[x] \in {"idle", "failed", "dead"}
      BY <2>2, <1>e, <1>f, Solo
    <3> QED BY <3>1 DEF RewritesAbove
  <2> QED BY <2>1, <2>2
<1>5. ResumePointSound'
  BY <1>f, <1>h, <1>w DEF ResumePointSound, Readable, StateFile, CorruptState
<1>6. NoBlockLost' /\ RemovedOnlyWhenMerged' /\ RestoreSound'
  BY <1>f, <1>w DEF NoBlockLost, RemovedOnlyWhenMerged, RestoreSound, Readable, FullyMerged, Youngest,
     StateFile, CorruptState
<1> QED BY <1>0, <1>1, <1>2, <1>3, <1>4, <1>5, <1>6

(* Every block is in the parent.                                           *)
LEMMA EndBlocksInv ==
  ASSUME IndInv, TypeOK', NEW a \in Attempts, EndBlocks(a)
  PROVE  IndInv'
<1> USE ConstantsAssumption DEF IndInv, TypeOK
<1>f. /\ UNCHANGED <<childBat, childBlocks, parentBat, parentBlock, merged, path, parentPath, resuming, currentBlock, phase, memBat>>
      /\ \A x \in Blocks : (hasBlock(x)' <=> hasBlock(x)) /\ (Held(x)' <=> Held(x))
  BY ChainFrame DEF EndBlocks
<1>e. /\ pc[a] = "merge" /\ pc'[a] = "flush"
      /\ \A x \in Blocks : phase[a][x] \in {"skip", "merged"}
      /\ \A x \in Attempts \ {a} : pc'[x] = pc[x]
      /\ state'.step # "cleanup"
  BY DEF EndBlocks, writeState, StateFile, CorruptState, InPlaceBeforeCleanup, InPlace, BeforeCleanup
<1>s. \A x \in Attempts \ {a} : pc[x] \in {"idle", "failed", "dead"}
  BY <1>e, Solo
<1>h. \A x \in Blocks : Held(x)
  BY <1>e DEF MergedIsHeld, BelievesHeld
<1>0. AttemptsInOrder'
  BY <1>e DEF AttemptsInOrder, Attempts
<1>1. BlocksInOrder'
  <2> SUFFICES ASSUME NEW x \in Attempts PROVE InOrder(x)'
    BY DEF BlocksInOrder
  <2> QED BY <1>e, <1>f DEF BlocksInOrder, InOrder
<1>2. MergedIsHeld' /\ ResumePointSound'
  BY <1>h, <1>f DEF MergedIsHeld, ResumePointSound
<1>3. MergedIsListed'
  <2> SUFFICES ASSUME NEW x \in Attempts, NEW y \in Blocks PROVE ListsMerged(x, y)'
    BY DEF MergedIsListed
  <2> QED BY <1>e, <1>f, <1>s DEF MergedIsListed, ListsMerged, AfterFlush
<1>4. InPlaceBeforeCleanup'
  BY <1>e, <1>f, <1>s DEF InPlaceBeforeCleanup, InPlace, BeforeCleanup
<1>5. FilesRewrittenAbove'
  <2>1. ASSUME NEW x \in Attempts PROVE RewritesAbove(x)'
    BY <1>e, <1>s DEF RewritesAbove
  <2> QED BY <2>1, <1>f DEF FilesRewrittenAbove
<1>6. NoBlockLost' /\ RemovedOnlyWhenMerged' /\ RestoreSound'
  BY <1>e, <1>f DEF NoBlockLost, RemovedOnlyWhenMerged, RestoreSound, FullyMerged, Youngest
<1> QED BY <1>0, <1>1, <1>2, <1>3, <1>4, <1>5, <1>6

(* The allocation table, then the footer of the parent.                    *)
LEMMA MetadataInv ==
  ASSUME IndInv, TypeOK', NEW a \in Attempts, FlushMetadata(a) \/ MergeMetadata(a)
  PROVE  IndInv'
<1> USE ConstantsAssumption DEF IndInv, TypeOK
<1>f. /\ UNCHANGED <<childBat, childBlocks, parentBlock, path, state, resuming, currentBlock, phase, memBat>>
      /\ \A x \in Blocks : (hasBlock(x)' <=> hasBlock(x)) /\ (Held(x)' <=> Held(x))
  BY ChainFrame DEF FlushMetadata, MergeMetadata
<1>e. /\ \/ pc[a] = "flush" /\ pc'[a] = "metadata" /\ parentBat' = memBat[a] /\ merged' = merged
         \/ pc[a] = "metadata" /\ pc'[a] = "cleanup" /\ parentBat' = parentBat /\ merged'
      /\ \A x \in Attempts \ {a} : pc'[x] = pc[x]
  BY DEF FlushMetadata, MergeMetadata
<1>s. \A x \in Attempts \ {a} : pc[x] \in {"idle", "failed", "dead"}
  BY <1>e, Solo
<1>h. \A x \in Blocks :
         /\ Held(x)
         /\ hasBlock(x) => x \in parentBat'
         /\ ~hasBlock(x) => (x \in parentBat' <=> x \in parentBat)
  BY <1>e DEF MergedIsHeld, BelievesHeld, AfterMerge, MergedIsListed, ListsMerged, AfterFlush
<1>i. (\A c \in Children : path[c] = "own") /\ state.step # "cleanup"
  BY <1>e DEF InPlaceBeforeCleanup, InPlace, BeforeCleanup
<1>0. AttemptsInOrder'
  BY <1>e DEF AttemptsInOrder, Attempts
<1>1. BlocksInOrder'
  <2> SUFFICES ASSUME NEW x \in Attempts PROVE InOrder(x)'
    BY DEF BlocksInOrder
  <2> QED BY <1>e, <1>f DEF BlocksInOrder, InOrder
<1>2. MergedIsHeld' /\ ResumePointSound'
  BY <1>h, <1>f DEF MergedIsHeld, ResumePointSound
<1>3. MergedIsListed'
  <2> SUFFICES ASSUME NEW x \in Attempts, NEW y \in Blocks PROVE ListsMerged(x, y)'
    BY DEF MergedIsListed
  <2> QED BY <1>e, <1>f, <1>s, <1>h DEF ListsMerged, AfterFlush
<1>4. InPlaceBeforeCleanup'
  BY <1>e, <1>f, <1>s, <1>i DEF InPlaceBeforeCleanup, InPlace, BeforeCleanup
<1>5. FilesRewrittenAbove'
  <2>1. ASSUME NEW x \in Attempts PROVE RewritesAbove(x)'
    BY <1>e, <1>s DEF RewritesAbove
  <2> QED BY <2>1, <1>f DEF FilesRewrittenAbove
<1>6. NoBlockLost' /\ RemovedOnlyWhenMerged'
  BY <1>f, <1>i DEF NoBlockLost, RemovedOnlyWhenMerged, Youngest
<1>7. RestoreSound'
  BY <1>h, <1>f, <1>i DEF RestoreSound, Tip, Children
<1> QED BY <1>0, <1>1, <1>2, <1>3, <1>4, <1>5, <1>6, <1>7

(* Every step of every attempt, and the death of the process, preserves    *)
(* the invariant: one step per action of Next.                             *)
LEMMA IndInvStep == IndInv /\ [Next]_vars => IndInv'
<1> SUFFICES ASSUME IndInv, [Next]_vars PROVE IndInv'
  OBVIOUS
<1>t. TypeOK /\ TypeOK'
  BY TypeStep DEF IndInv
<1>1. ASSUME NEW a \in Attempts, Start(a) \/ ResumeBlocks(a) \/ FreshBlocks(a) PROVE IndInv'
  BY <1>1, <1>t, StartInv, ResumeBlocksInv, FreshBlocksInv
<1>2. ASSUME NEW a \in Attempts, EndBlocks(a) \/ FlushMetadata(a) \/ MergeMetadata(a) PROVE IndInv'
  BY <1>2, <1>t, EndBlocksInv, MetadataInv
<1>3. ASSUME NEW a \in Attempts, NEW b \in Blocks, BeginBlock(a, b) \/ CopyBlock(a, b) \/ EndBlock(a, b)
      PROVE IndInv'
  BY <1>3, <1>t, BeginBlockInv, CopyBlockInv, EndBlockInv
<1>4. ASSUME NEW a \in Attempts, NEW b \in Blocks, NEW c \in Children,
             MoveBlock(a, b, c) \/ AlreadyMovedBlock(a, b, c) \/ CopiedBlock(a, b, c)
      PROVE IndInv'
  BY <1>4, <1>t, MoveBlockInv, CopiedBlockInv
<1>5. ASSUME NEW a \in Attempts, NEW b \in Blocks, NEW c \in Children,
             MissingBlock(a, b, c) \/ FailBlock(a, b)
      PROVE IndInv'
  <2>1. InFlight(a, b) /\ Abandon(a, b) /\ pc[a] \in {"merge", "failed"}
    BY <1>5 DEF MissingBlock, FailBlock, InFlight, Moving
  <2> QED
    BY <2>1, <1>t, Stopped DEF Abandon, TypeOK
<1>6. ASSUME NEW a \in Attempts, Fail(a) PROVE IndInv'
  BY <1>6, <1>t, Stopped DEF Fail, TypeOK
<1>7. ASSUME Crash PROVE IndInv'
  <2>1. \A x \in Attempts : pc'[x] = IF pc[x] \in {"idle", "done"} THEN pc[x] ELSE "dead"
    BY <1>7 DEF Crash
  <2> QED
    BY <1>7, <2>1, <1>t, Stopped DEF Crash
<1>8. ASSUME UNCHANGED vars PROVE IndInv'
  BY <1>8, <1>t, Stopped DEF vars, attemptVars
<1>9. ASSUME NEW a \in Attempts, NEW c \in Children, UnlinkData(a, c) \/ UnlinkPath(a, c) PROVE IndInv'
  <2>1. \A d \in Children : path'[d] = "own" => path[d] = "own" /\ childBlocks'[d] = childBlocks[d]
    BY <1>9, <1>t DEF UnlinkData, UnlinkPath, TypeOK
  <2> QED
    BY <1>9, <2>1, <1>t, CleanedUp DEF UnlinkData, UnlinkPath, attemptVars, TypeOK
<1>10. ASSUME NEW a \in Attempts, UnlinkTarget(a) \/ CreateAlias(a) \/ RenameParent(a) PROVE IndInv'
  <2>1. \A d \in Children : path'[d] = "own" => path[d] = "own" /\ childBlocks'[d] = childBlocks[d]
    BY <1>10, <1>t DEF UnlinkTarget, CreateAlias, RenameParent, TypeOK
  <2> QED
    BY <1>10, <2>1, <1>t, CleanedUp DEF UnlinkTarget, CreateAlias, RenameParent, attemptVars, TypeOK
<1>11. ASSUME NEW a \in Attempts,
              BeginCleanup(a) \/ EndUnlink(a) \/ UnlinkParentAlias(a) \/ DropState(a)
       PROVE IndInv'
  BY <1>11, <1>t, CleanedUp DEF BeginCleanup, EndUnlink, UnlinkParentAlias, DropState, TypeOK, remoteVars
<1>12. ASSUME NEW a \in Attempts, MergeStep(a) PROVE IndInv'
  BY <1>1, <1>2, <1>3, <1>4, <1>5, <1>12 DEF MergeStep, BlockStep
<1>13. ASSUME NEW a \in Attempts, CleanupStep(a) PROVE IndInv'
  BY <1>9, <1>10, <1>11, <1>13 DEF CleanupStep
<1>14. ASSUME NEW a \in Attempts, NEW b \in Blocks, FailBlock(a, b) PROVE IndInv'
  <2>1. Tip \in Children
    BY ConstantsAssumption DEF Tip, Children
  <2> QED
    BY <2>1, <1>5, <1>14
<1> QED
  BY <1>1, <1>6, <1>7, <1>8, <1>12, <1>13, <1>14 DEF Next

(* Whatever fails and whenever the process dies, the invariant holds.      *)
THEOREM Invariant == Spec => []IndInv
<1>1. Init => IndInv
  <2> SUFFICES ASSUME Init PROVE IndInv
    OBVIOUS
  <2>1. TypeOK
    BY InitType
  <2>2. /\ AttemptsInOrder /\ BlocksInOrder /\ MergedIsListed /\ InPlaceBeforeCleanup
    BY DEF Init, AttemptsInOrder, BlocksInOrder, InOrder, MergedIsListed, ListsMerged, AfterFlush,
       InPlaceBeforeCleanup, InPlace, BeforeCleanup
  <2>3. MergedIsHeld
    BY DEF Init, MergedIsHeld, BelievesHeld, AfterMerge, InFlight
  <2>4. ~Readable
    BY DEF Init, Readable, NoState, StateFile
  <2>5. FilesRewrittenAbove /\ ResumePointSound /\ RemovedOnlyWhenMerged
    BY <2>4 DEF Init, FilesRewrittenAbove, RewritesAbove, ResumePointSound, RemovedOnlyWhenMerged
  <2>6. NoBlockLost
    BY DEF Init, NoBlockLost, Youngest
  <2>7. RestoreSound
    BY ConstantsAssumption DEF Init, RestoreSound, Tip, Children, Base, None
  <2> QED
    BY <2>1, <2>2, <2>3, <2>5, <2>6, <2>7 DEF IndInv
<1> QED
  BY <1>1, IndInvStep, PTL DEF Spec

(* No block of the children is lost.                                       *)
THEOREM BlocksSafe == Spec => []NoBlockLost
<1>1. IndInv => NoBlockLost
  BY DEF IndInv
<1> QED
  BY <1>1, Invariant, PTL

(* Every position a state file holds may be trusted by a resumed merge.    *)
THEOREM ResumeSafe == Spec => []ResumePointSound
<1>1. IndInv => ResumePointSound
  BY DEF IndInv
<1> QED
  BY <1>1, Invariant, PTL

(* Children are only removed once the parent holds their blocks.           *)
THEOREM RemovalSafe == Spec => []RemovedOnlyWhenMerged
<1>1. IndInv => RemovedOnlyWhenMerged
  BY DEF IndInv
<1> QED
  BY <1>1, Invariant, PTL

(* The path of the backup never gives older data.                          *)
THEOREM RestoreSafe == Spec => []RestoreSound
<1>1. IndInv => RestoreSound
  BY DEF IndInv
<1> QED
  BY <1>1, Invariant, PTL
=============================================================================
