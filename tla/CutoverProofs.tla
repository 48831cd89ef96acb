--------------------------- MODULE CutoverProofs ---------------------------
(***************************************************************************)
(* Proofs about the cutover protocol, for any number of tasks, tiers,      *)
(* changes, movements and files.                                           *)
(***************************************************************************)
EXTENDS Cutover, TLAPS

USE DEF inodeVars, callVars, cutVars, taskVars, fdVars, nameVars, fileVars,
        opVars, moverVars, stageVars, restVars, otherVars, Recovering

\* Mounting yields a well-typed state.
LEMMA InitTypeOK == Init => TypeOK
<1> SUFFICES ASSUME Init PROVE TypeOK
  BY Zenon
<1> USE ConstantsAssumption DEF Init, Tiers, Files, Ops, NoFile, NoTier
<1>1. /\ 1 \in Files /\ 0 \in 0 .. MaxMoves /\ 0 \in Nat
      /\ current_tier \in Tiers
  OBVIOUS
<1>7. InodeType BY <1>1, Zenon DEF InodeType, MovementStates
<1>8. LockType BY Zenon DEF LockType, CutPcs
<1>2. TaskType BY DEF TaskType, TaskPcs
<1>3. FdType BY DEF FdType
<1>4. FileType /\ OpType BY DEF FileType, OpType
<1>5. MoverType BY DEF MoverType, MoverPcs
<1>6. StageType BY DEF StageType
<1> QED BY <1>2, <1>3, <1>4, <1>5, <1>6, <1>7, <1>8 DEF TypeOK

\* smoothfs_lower_file yields a backing file.
LEMMA LowerFileType ==
  ASSUME InodeType, FdType, NEW t \in Threads
  PROVE  LowerFile(t) \in Files
  BY Zenon DEF LowerFile, InodeType, FdType

\* smoothfs_reissue_lower keeps the descriptor well typed.
LEMMA ReissueType ==
  ASSUME InodeType, FdType, NEW t \in Threads, Reissue(t)
  PROVE  fdlow' \in [Threads -> Files] /\ fdgen' \in [Threads -> Nat]
<1>1. LowerFile(t) \in Files BY LowerFileType
<1> QED BY <1>1 DEF Reissue, InodeType, FdType

\* Returning to the caller keeps the task variables well typed.
LEMMA ReturnType ==
  ASSUME TaskType, NEW t \in Threads, Return(t), UNCHANGED need
  PROVE  TaskType'
  BY ConstantsAssumption DEF TaskType, Return, TaskPcs, NoFile, Ops

\* What a task in the middle of a change knows about its own variables.
LEMMA ActiveTask ==
  ASSUME TypeOK, OpInv, NEW t \in Threads, pc[t] \in InProgress
  PROVE  /\ opid[t] \in Ops
         /\ pc[t] \in {"crit", "applied"} => low[t] \in Files
         /\ nops \in Nat /\ nops <= MaxOps /\ opid[t] <= nops
  BY SMTT(60), ConstantsAssumption DEF TypeOK, TaskType, OpType, OpInv, Ops, NoFile

\* The steps of tasks keep the state well typed.
LEMMA TaskTypeOK ==
  ASSUME TypeOK, OpInv, NEW t \in Threads, TaskStart(t) \/ TaskStep(t)
  PROVE  TypeOK'
<1> USE ConstantsAssumption DEF TypeOK
<1>a. /\ pc[t] \in InProgress => opid[t] \in Ops
      /\ pc[t] \in {"crit", "applied"} => low[t] \in Files
  BY ActiveTask DEF InProgress
<1>b. LowerFile(t) \in Files BY Zenon, LowerFileType
<1>1. CASE StartWrite(t)
  BY <1>1 DEF StartWrite, StartOp, InodeType, LockType, TaskType, FdType,
              FileType, OpType, MoverType, StageType, TaskPcs, Ops
<1>2. CASE StartChange(t)
  <2>1. FdType' BY Zenon, <1>2, ReissueType DEF StartChange, FdType
  <2>2. TaskType'
    BY <1>2, <1>b DEF StartChange, StartOp, TaskType, TaskPcs, OpType
  <2> QED
    BY <1>2, <2>1, <2>2 DEF StartChange, StartOp, InodeType, LockType,
              FileType, OpType, MoverType, StageType
<1>3. CASE StartSetattr(t)
  BY <1>3 DEF StartSetattr, StartOp, InodeType, LockType, TaskType, FdType,
              FileType, OpType, MoverType, StageType, TaskPcs, Ops
<1>4. CASE ReadStart(t)
  <2>1. FdType' BY Zenon, <1>4, ReissueType DEF ReadStart, FdType
  <2>2. TaskType'
    BY Zenon, <1>4, <1>b DEF ReadStart, TaskType, TaskPcs, OpType
  <2> QED
    BY <1>4, <2>1, <2>2 DEF ReadStart, InodeType, LockType, FileType, OpType,
              MoverType, StageType
<1>5. CASE Close(t)
  BY <1>5 DEF Close, InodeType, LockType, TaskType, FdType, FileType, OpType,
              MoverType, StageType, TaskPcs
<1>6. CASE Mmap(t)
  <2>1. FdType' BY Zenon, <1>6, <1>b, ReissueType DEF Mmap, FdType
  <2> QED
    BY <1>6, <2>1 DEF Mmap, InodeType, LockType, TaskType, FileType, OpType,
              MoverType, StageType
<1>7. CASE MmapStore(t)
  <2>1. nops + 1 \in Ops /\ wmap[t] \in Files
    BY <1>7 DEF MmapStore, OpType, FdType, Ops, NoFile
  <2>2. FileType' BY <1>7, <2>1 DEF MmapStore, FileType
  <2>3. OpType' BY <1>7, <2>1 DEF MmapStore, OpType, Ops
  <2> QED
    BY <1>7, <2>2, <2>3 DEF MmapStore, InodeType, LockType, TaskType, FdType,
              MoverType, StageType
<1>8. CASE Munmap(t)
  BY <1>8 DEF Munmap, InodeType, LockType, TaskType, FdType, FileType, OpType,
              MoverType, StageType, NoFile
<1>9. CASE SrcuLock(t)
  BY <1>9 DEF SrcuLock, InodeType, LockType, TaskType, FdType, FileType,
              OpType, MoverType, StageType, TaskPcs
<1>10. CASE CheckState(t)
  <2>1. FdType'
    BY Zenon, <1>10, ReissueType DEF CheckState, FdType
  <2>2. TaskType'
    BY SMTT(60), <1>10, <1>b DEF CheckState, TaskType, TaskPcs
  <2> QED
    BY <1>10, <2>1, <2>2 DEF CheckState, InodeType, LockType, FileType,
              OpType, MoverType, StageType
<1>11. CASE Sleep(t)
  BY <1>11 DEF Sleep, InodeType, LockType, TaskType, FdType, FileType, OpType,
              MoverType, StageType
<1>12. CASE Unpark(t)
  BY <1>12 DEF Unpark, InodeType, LockType, TaskType, FdType, FileType,
              OpType, MoverType, StageType, TaskPcs
<1>13. CASE Interrupt(t)
  <2>1. TaskType' BY Zenon, <1>13, ReturnType DEF Interrupt
  <2> QED
    BY <1>13, <2>1 DEF Interrupt, DropInodeLock, InodeType, LockType, FdType,
              FileType, OpType, MoverType, StageType
<1>14. CASE ApplyChange(t)
  <2>1. FileType' BY Zenon, <1>14, <1>a DEF ApplyChange, FileType, InProgress
  <2> QED
    BY <1>14, <2>1 DEF ApplyChange, InodeType, LockType, TaskType, FdType,
              OpType, MoverType, StageType, TaskPcs
<1>15. CASE ChangeFails(t)
  <2>1. TaskType' BY Zenon, <1>15, ReturnType DEF ChangeFails
  <2> QED
    BY <1>15, <2>1 DEF ChangeFails, DropInodeLock, InodeType, LockType,
              FdType, FileType, OpType, MoverType, StageType
<1>16. CASE StagedTruncate(t)
  <2> DEFINE f == FileOn(FastestTier)
  <2>1. f \in Files /\ 1 .. nops \subseteq Ops /\ FastestTier \in Tiers
    BY <1>16 DEF StagedTruncate, OpType, Ops, FastestTier, Tiers
  <2>2. FileType'
    BY Zenon, <1>16, <2>1 DEF StagedTruncate, FileType
  <2>3. InodeType'
    BY SMTT(60), <1>16, <2>1 DEF StagedTruncate, InodeType, MovementStates
  <2> QED
    BY <1>16, <2>2, <2>3 DEF StagedTruncate, InodeType, LockType, TaskType,
              FdType, OpType, MoverType, StageType, TaskPcs
<1>24. CASE StagedTruncateFails(t)
  <2> DEFINE f == FileOn(FastestTier)
  <2>1. f \in Files /\ 1 .. nops \subseteq Ops /\ FastestTier \in Tiers
    BY <1>24 DEF StagedTruncateFails, OpType, Ops, FastestTier, Tiers
  <2>2. FileType'
    BY Zenon, <1>24, <2>1 DEF StagedTruncateFails, FileType
  <2>3. TaskType' BY Zenon, <1>24, ReturnType DEF StagedTruncateFails
  <2> QED
    BY <1>24, <2>2, <2>3 DEF StagedTruncateFails, DropInodeLock, InodeType,
              LockType, FdType, OpType, MoverType, StageType
<1>17. CASE WriteUnlock(t)
  BY <1>17 DEF WriteUnlock, InodeType, LockType, TaskType, FdType, FileType,
              OpType, MoverType, StageType, TaskPcs
<1>18. CASE WriteNote(t)
  <2>1. TaskType' BY Zenon, <1>18, ReturnType DEF WriteNote
  <2>2. OpType' BY Zenon, <1>18, <1>a DEF WriteNote, CountChange, OpType, InProgress
  <2> QED
    BY <1>18, <2>1, <2>2 DEF WriteNote, CountChange, InodeType, LockType,
              FdType, FileType, MoverType, StageType
<1>19. CASE NoteChange(t)
  <2>1. OpType' BY Zenon, <1>19, <1>a DEF NoteChange, CountChange, OpType, InProgress
  <2> QED
    BY <1>19, <2>1 DEF NoteChange, CountChange, InodeType, LockType, TaskType,
              FdType, FileType, MoverType, StageType, TaskPcs
<1>20. CASE EndChange(t)
  <2>1. TaskType' BY Zenon, <1>20, ReturnType DEF EndChange
  <2>2. OpType' BY Zenon, <1>20, <1>a DEF EndChange, OpType, InProgress
  <2> QED
    BY <1>20, <2>1, <2>2 DEF EndChange, DropInodeLock, InodeType, LockType,
              FdType, FileType, MoverType, StageType
<1>21. CASE ReadEnd(t)
  BY SMTT(60), <1>21 DEF ReadEnd, Return, InodeType, LockType, TaskType, FdType,
              FileType, OpType, MoverType, StageType, TaskPcs, NoFile
<1>22. CASE OpenLower(t)
  BY SMTT(60), <1>22 DEF OpenLower, InodeType, LockType, TaskType, FdType, FileType,
              OpType, MoverType, StageType, TaskPcs
<1>23. CASE OpenSampleGen(t)
  BY SMTT(60), <1>23 DEF OpenSampleGen, InodeType, LockType, TaskType, FdType, FileType,
              OpType, MoverType, StageType, TaskPcs
<1> QED
  BY ZenonT(60), <1>1, <1>2, <1>3, <1>4, <1>5, <1>6, <1>7, <1>8, <1>9, <1>10, <1>11,
     <1>12, <1>13, <1>14, <1>15, <1>16, <1>17, <1>18, <1>19, <1>20, <1>21,
     <1>22, <1>23, <1>24
  DEF TaskStart, TaskStep

\* The steps of a MOVE_CUTOVER call keep the state well typed.
LEMMA CutoverTypeOK ==
  ASSUME TypeOK, CallInv, CutoverStep \/ RevokeMappings
  PROVE  TypeOK'
<1> USE ConstantsAssumption
    DEF TypeOK, InodeType, LockType, TaskType, FdType, FileType, OpType,
        MoverType, StageType, MoverPcs, MovementStates, CutPcs,
        CutoverGivesUp, WakeAll
<1>1. CASE DrainDone BY <1>1 DEF DrainDone
<1>2. CASE DrainTimeout BY <1>2 DEF DrainTimeout
<1>3. CASE CutoverTimedOut BY <1>3 DEF CutoverTimedOut
<1>4. CASE CutoverRaced BY <1>4 DEF CutoverRaced
<1>5. CASE CutoverFails \/ CutoverStale BY <1>5 DEF CutoverFails, CutoverStale
<1>9. CASE CutoverCheck BY <1>9 DEF CutoverCheck
<1>10. CASE CutoverResolve BY <1>10 DEF CutoverResolve, NoFile
<1>6. CASE CutoverSwap BY <1>6 DEF CutoverSwap, CallInv
<1>7. CASE CutoverPublish BY <1>7 DEF CutoverPublish, PublishPlacement
<1>8. CASE RevokeMappings BY SMTT(60), <1>8 DEF RevokeMappings
<1> QED
  BY ZenonT(60), <1>1, <1>2, <1>3, <1>4, <1>5, <1>6, <1>7, <1>8, <1>9, <1>10
     DEF CutoverStep

\* The steps of tierd keep the state well typed.
LEMMA WorkerTypeOK ==
  ASSUME TypeOK, WorkerStep
  PROVE  TypeOK'
<1> USE ConstantsAssumption
    DEF TypeOK, InodeType, LockType, TaskType, FdType, FileType, OpType,
        MoverType, StageType, MoverPcs, Goto
<1>1. ASSUME NEW dest \in Tiers, InspectAndIntend(dest) PROVE TypeOK'
  BY <1>1 DEF InspectAndIntend
<1>2. CASE MovePlan BY Zenon, <1>2 DEF MovePlan, PlanAccept, MovementStates
<1>3. CASE MovePlanRefused BY <1>3 DEF MovePlanRefused
<1>4. CASE CopyStart
  <2>1. PICK f \in Files :
             /\ nfiles' = IF f > nfiles THEN f ELSE nfiles
             /\ backing' = [backing EXCEPT ![mv.dst] = f]
             /\ data' = [data EXCEPT ![f] = {}]
    BY Zenon, <1>4 DEF CopyStart
  <2>2. nfiles' \in Files BY <2>1
  <2>3. backing' \in [Tiers -> Files \union {NoFile}] BY Zenon, <2>1
  <2>4. data' \in [Files -> SUBSET Ops] BY Zenon, <2>1
  <2>5. mv' \in [pc: MoverPcs, src: Tiers, dst: Tiers, keep: Tiers,
                 txn: 0 .. MaxMoves, seq: Nat]
    BY Zenon, <1>4 DEF CopyStart
  <2> QED BY <1>4, <2>2, <2>3, <2>4, <2>5 DEF CopyStart
<1>5. CASE CopyDone BY <1>5 DEF CopyDone, NoFile
<1>6. CASE Verify BY <1>6 DEF Verify
<1>17. CASE InspectStable BY <1>17 DEF InspectStable
<1>7. CASE CopyFails BY <1>7 DEF CopyFails
<1>8. CASE MoveCutover BY <1>8 DEF MoveCutover, CutoverStart, Readers,
                                  MovementStates, CutPcs
<1>9. CASE MoveCutoverRefused BY <1>9 DEF MoveCutoverRefused
<1>10. CASE Abort BY <1>10 DEF Abort, NoFile
<1>11. CASE RemoveSource BY <1>11 DEF RemoveSource, NoFile
<1>12. CASE MoveComplete
  BY Zenon, <1>12 DEF MoveComplete, CompleteAccept, MovementStates
<1>13. CASE CleanupFails BY <1>13 DEF CleanupFails
<1>14. CASE RecoverInspect
  <2>1. PICK p \in Recovering :
             mv' = [mv EXCEPT !.pc = p, !.keep = current_tier]
    BY <1>14 DEF RecoverInspect
  <2>2. MoverType' BY ZenonT(60), <1>14, <2>1 DEF RecoverInspect
  <2> QED BY <1>14, <2>2 DEF RecoverInspect
<1>15. CASE RecoverSettle
  BY <1>15 DEF RecoverSettle, RemoveOther, CompleteAccept, RollbackAccept,
               MovementStates, NoFile
<1>16. CASE RecoverFails BY <1>16 DEF RecoverFails, RemoveOther, NoFile
<1> QED
  BY ZenonT(60), <1>1, <1>2, <1>3, <1>4, <1>5, <1>6, <1>7, <1>8, <1>9, <1>10, <1>11,
     <1>12, <1>13, <1>14, <1>15, <1>16, <1>17 DEF WorkerStep

\* Drains and lookups keep the state well typed.
LEMMA StageTypeOK ==
  ASSUME TypeOK, StageStep
  PROVE  TypeOK'
<1> USE ConstantsAssumption
    DEF TypeOK, InodeType, LockType, TaskType, FdType, FileType, OpType,
        MoverType, StageType
<1>1. CASE DrainPick BY <1>1 DEF DrainPick
<1>2. CASE DrainUnlink BY Zenon, <1>2 DEF DrainUnlink, NoFile
<1>3. CASE DrainClear BY SMTT(60), <1>3 DEF DrainClear
<1>4. CASE LookupRetracks BY <1>4 DEF LookupRetracks, MovementStates
<1> QED BY Zenon, <1>1, <1>2, <1>3, <1>4 DEF StageStep

\* Mounting establishes the numbering of changes.
LEMMA InitOpInv == Init => OpInv
  BY SMTT(60) DEF Init, OpInv, InProgress

\* The steps of tasks keep the numbering of changes.
LEMMA TaskOpInv ==
  ASSUME TypeOK, OpInv, NEW t \in Threads, TaskStart(t) \/ TaskStep(t)
  PROVE  OpInv'
<1> USE ConstantsAssumption DEF TypeOK, TaskType, OpType, OpInv, InProgress
<1>b. LowerFile(t) \in Files /\ lower \in Files /\ NoFile \notin Files
  BY LowerFileType DEF InodeType, Files, NoFile
<1>1. CASE StartWrite(t) BY <1>1 DEF StartWrite, StartOp
<1>2. CASE StartChange(t) BY <1>2, <1>b DEF StartChange, StartOp
<1>3. CASE StartSetattr(t) BY <1>3, <1>b DEF StartSetattr, StartOp
<1>4. CASE ReadStart(t) BY <1>4, <1>b DEF ReadStart
<1>5. CASE Close(t) BY <1>5 DEF Close
<1>6. CASE Mmap(t) BY Zenon, <1>6 DEF Mmap
<1>7. CASE MmapStore(t) BY <1>7 DEF MmapStore
<1>8. CASE Munmap(t) BY <1>8 DEF Munmap
<1>9. CASE SrcuLock(t) BY SMTT(60), <1>9 DEF SrcuLock
<1>10. CASE CheckState(t) BY SMTT(60), <1>10, <1>b DEF CheckState
<1>11. CASE Sleep(t) BY SMTT(60), <1>11 DEF Sleep
<1>12. CASE Unpark(t) BY SMTT(60), <1>12 DEF Unpark
<1>13. CASE Interrupt(t) BY SMTT(60), <1>13 DEF Interrupt, Return
<1>14. CASE ApplyChange(t) BY Zenon, <1>14 DEF ApplyChange
<1>15. CASE ChangeFails(t) BY SMTT(60), <1>15 DEF ChangeFails, Return
<1>16. CASE StagedTruncate(t) BY Zenon, <1>16 DEF StagedTruncate
<1>24. CASE StagedTruncateFails(t)
  BY SMTT(60), <1>24 DEF StagedTruncateFails, Return
<1>17. CASE WriteUnlock(t) BY SMTT(60), <1>17 DEF WriteUnlock
<1>18. CASE WriteNote(t) BY ZenonT(60), <1>18 DEF WriteNote, CountChange, Return
<1>19. CASE NoteChange(t) BY ZenonT(60), <1>19 DEF NoteChange, CountChange
<1>20. CASE EndChange(t) BY SMTT(60), <1>20 DEF EndChange, Return
<1>21. CASE ReadEnd(t) BY SMTT(60), <1>21 DEF ReadEnd, Return
<1>22. CASE OpenLower(t) BY Zenon, <1>22 DEF OpenLower
<1>23. CASE OpenSampleGen(t) BY SMTT(60), <1>23 DEF OpenSampleGen
<1> QED
  BY ZenonT(60), <1>1, <1>2, <1>3, <1>4, <1>5, <1>6, <1>7, <1>8, <1>9, <1>10, <1>11,
     <1>12, <1>13, <1>14, <1>15, <1>16, <1>17, <1>18, <1>19, <1>20, <1>21,
     <1>22, <1>23, <1>24
  DEF TaskStart, TaskStep

\* Only tasks touch what OpInv speaks of.
LEMMA OtherOpInv ==
  ASSUME OpInv, UNCHANGED <<pc, kind, opid, low, nops, noted>>
  PROVE  OpInv'
  BY Zenon DEF OpInv

\* No task touches what CallInv speaks of.
LEMMA TaskKeepsCall ==
  ASSUME NEW t \in Threads, TaskStart(t) \/ TaskStep(t)
  PROVE  UNCHANGED <<cut, dest_path, compared, mv>>
  BY ZenonT(60) DEF TaskStart, TaskStep, StartWrite, StartChange, StartSetattr,
         ReadStart, Close, Mmap, MmapStore, Munmap, SrcuLock, CheckState,
         Sleep, Unpark, Interrupt, ApplyChange, ChangeFails, StagedTruncate,
         StagedTruncateFails, WriteUnlock, WriteNote, NoteChange, EndChange,
         ReadEnd, OpenLower, OpenSampleGen

\* Neither do drains and lookups.
LEMMA StageKeepsCall ==
  ASSUME StageStep
  PROVE  UNCHANGED <<cut, dest_path, compared, mv>>
  BY Zenon DEF StageStep, DrainPick, DrainUnlink, DrainClear, LookupRetracks

\* tierd starts a call and issues no other command before it returns.
LEMMA WorkerCall ==
  ASSUME TypeOK, CallInv, WorkerStep
  PROVE  /\ CallInv'
         /\ UNCHANGED <<cut, waitfor, dest_path, compared>> \/ MoveCutover
<1> USE DEF TypeOK, MoverType, CallInv, Goto
<1>1. ASSUME NEW dest \in Tiers, InspectAndIntend(dest)
      PROVE  CallInv' /\ UNCHANGED <<cut, waitfor, dest_path, compared>>
  BY Zenon, <1>1 DEF InspectAndIntend
<1>2. CASE MovePlan \/ MovePlanRefused
  BY Zenon, <1>2 DEF MovePlan, MovePlanRefused
<1>3. CASE CopyStart \/ CopyDone \/ Verify \/ InspectStable \/ CopyFails
  BY Zenon, <1>3 DEF CopyStart, CopyDone, Verify, InspectStable, CopyFails
<1>4. CASE MoveCutover BY Zenon, <1>4 DEF MoveCutover, CutoverStart
<1>5. CASE MoveCutoverRefused \/ Abort \/ RemoveSource \/ MoveComplete
             \/ CleanupFails
  BY Zenon, <1>5 DEF MoveCutoverRefused, Abort, RemoveSource, MoveComplete,
              CleanupFails
<1>6. CASE RecoverInspect \/ RecoverSettle \/ RecoverFails
  BY Zenon, <1>6 DEF RecoverInspect, RecoverSettle, RecoverFails
<1> QED BY ZenonT(60), <1>1, <1>2, <1>3, <1>4, <1>5, <1>6 DEF WorkerStep

\* The steps of a call.
LEMMA CutoverCall ==
  ASSUME TypeOK, CallInv, CutoverStep \/ RevokeMappings
  PROVE  CallInv'
<1> USE DEF TypeOK, MoverType, LockType, CallInv, CutoverGivesUp
<1>1. CASE DrainDone \/ DrainTimeout \/ RevokeMappings
  BY Zenon, <1>1 DEF DrainDone, DrainTimeout, RevokeMappings
<1>2. CASE CutoverTimedOut \/ CutoverRaced \/ CutoverStale \/ CutoverFails
  BY Zenon, <1>2 DEF CutoverTimedOut, CutoverRaced, CutoverStale, CutoverFails
<1>3. CASE CutoverCheck \/ CutoverResolve \/ CutoverSwap
  BY Zenon, <1>3 DEF CutoverCheck, CutoverResolve, CutoverSwap
<1>4. CASE CutoverPublish BY Zenon, <1>4 DEF CutoverPublish
<1> QED BY Zenon, <1>1, <1>2, <1>3, <1>4 DEF CutoverStep

\* What holds under every configuration.
BaseInv == TypeOK /\ OpInv /\ CallInv

\* A freshly mounted pool has no change and no call in progress.
LEMMA InitBaseInv == Init => BaseInv
<1> SUFFICES ASSUME Init PROVE BaseInv
  BY Zenon
<1>1. CallInv BY DEF Init, CallInv
<1> QED BY <1>1, InitTypeOK, InitOpInv DEF BaseInv

\* Every step of the system preserves it.
LEMMA NextBaseInv == BaseInv /\ [Next]_vars => BaseInv'
<1> SUFFICES ASSUME BaseInv, [Next]_vars PROVE BaseInv'
  BY Zenon
<1> USE DEF BaseInv
<1>1. ASSUME NEW t \in Threads, TaskStart(t) \/ TaskStep(t)
      PROVE  BaseInv'
  <2>1. CallInv' BY Zenon, <1>1, TaskKeepsCall DEF CallInv
  <2> QED BY Zenon, <1>1, <2>1, TaskTypeOK, TaskOpInv
<1>2. CASE CutoverStep \/ RevokeMappings
  <2>1. UNCHANGED <<pc, kind, opid, low, nops, noted>>
    BY <1>2 DEF CutoverStep, RevokeMappings, DrainDone, DrainTimeout,
                CutoverTimedOut, CutoverRaced, CutoverCheck, CutoverStale,
                CutoverFails, CutoverResolve, CutoverSwap, CutoverPublish,
                CutoverGivesUp
  <2> QED BY Zenon, <1>2, <2>1, CutoverTypeOK, OtherOpInv, CutoverCall
<1>3. CASE WorkerStep
  <2>1. UNCHANGED <<pc, kind, opid, low, nops, noted>>
    BY ZenonT(60), <1>3 DEF WorkerStep, InspectAndIntend, MovePlan,
                MovePlanRefused, CopyStart, CopyDone, Verify, InspectStable,
                CopyFails, MoveCutover, MoveCutoverRefused, Abort,
                RemoveSource, MoveComplete, CleanupFails, RecoverInspect,
                RecoverSettle, RecoverFails
  <2> QED BY Zenon, <1>3, <2>1, WorkerTypeOK, OtherOpInv, WorkerCall
<1>4. CASE StageStep
  <2>1. UNCHANGED <<pc, kind, opid, low, nops, noted>>
    BY Zenon, <1>4 DEF StageStep, DrainPick, DrainUnlink, DrainClear,
                       LookupRetracks
  <2>2. CallInv' BY Zenon, <1>4, StageKeepsCall DEF CallInv
  <2> QED BY <1>4, <2>1, <2>2, StageTypeOK, OtherOpInv
<1>5. CASE UNCHANGED vars
  <2>1. TypeOK'
    BY <1>5 DEF vars, TypeOK, InodeType, LockType, TaskType, FdType, FileType,
                OpType, MoverType, StageType
  <2>2. CallInv' BY <1>5 DEF vars, CallInv
  <2> QED BY Zenon, <1>5, <2>1, <2>2, OtherOpInv DEF vars
<1> QED BY <1>1, <1>2, <1>3, <1>4, <1>5 DEF Next

\* The state of the object, its tasks and its mover stays well typed.
THEOREM TypeCorrect == Spec => []TypeOK
<1>1. BaseInv => TypeOK BY DEF BaseInv
<1> QED BY <1>1, InitBaseInv, NextBaseInv, PTL DEF Spec

-----------------------------------------------------------------------------
(* The barrier, and who may leave CUTOVER_IN_PROGRESS: for any number of   *)
(* tasks, with write staging too, as long as no lookup re-tracks the       *)
(* object, the movement state belongs to tierd's transaction, the call     *)
(* that parked the tasks is the one that wakes them, and no change passes  *)
(* the movement_state check before it does.                                *)

\* A freshly mounted, tracked object has no movement.
LEMMA InitOwnerInv == ASSUME "lookup" \notin Kinds
                      PROVE  Init => OwnerInv /\ BarrierInv
<1> SUFFICES ASSUME Init PROVE OwnerInv /\ BarrierInv
  OBVIOUS
<1>1. tracked BY Zenon DEF Init
<1>2. /\ movement_state = "placed" /\ cut = "idle" /\ asleep = {}
      /\ i_rwsem = "free"
      /\ \A t \in Threads : kind[t] = "none"
  BY DEF Init
<1> QED BY <1>1, <1>2 DEF OwnerInv, BarrierInv, Publishing

\* The variables OwnerInv speaks of.
ownerVars == <<tracked, movement_state, cut, mv, transaction_seq, asleep,
               i_rwsem, kind, pc>>

\* A step that leaves those variables alone leaves OwnerInv alone.
LEMMA OwnerUnchanged ==
  ASSUME OwnerInv, UNCHANGED ownerVars
  PROVE  OwnerInv'
  BY SMTT(60) DEF OwnerInv, Publishing, ownerVars

\* The steps of tasks: a task sleeps only while a cutover runs, and a setattr
\* reaches the lower operation only while none does.
LEMMA TaskOwnerInv ==
  ASSUME TypeOK, OwnerInv, NEW t \in Threads, TaskStart(t) \/ TaskStep(t)
  PROVE  OwnerInv'
<1> USE ConstantsAssumption DEF TypeOK, TaskType, LockType, OwnerInv, Publishing
<1>1. CASE StartWrite(t) BY Zenon, <1>1 DEF StartWrite, StartOp
<1>2. CASE StartChange(t) BY Zenon, <1>2 DEF StartChange, StartOp
<1>3. CASE StartSetattr(t) BY <1>3 DEF StartSetattr, StartOp
<1>4. CASE ReadStart(t) BY Zenon, <1>4 DEF ReadStart
<1>5. CASE Close(t) BY Zenon, <1>5 DEF Close
<1>6. CASE Mmap(t) \/ MmapStore(t) \/ Munmap(t)
  BY Zenon, <1>6, OwnerUnchanged DEF Mmap, MmapStore, Munmap, ownerVars
<1>9. CASE SrcuLock(t) BY Zenon, <1>9 DEF SrcuLock
<1>10. CASE CheckState(t) BY <1>10 DEF CheckState, Stalled
<1>11. CASE Sleep(t) BY Zenon, <1>11 DEF Sleep, Stalled
<1>12. CASE Unpark(t) BY <1>12 DEF Unpark
<1>13. CASE Interrupt(t) BY Zenon, <1>13 DEF Interrupt, Return, DropInodeLock
<1>14. CASE ApplyChange(t) BY Zenon, <1>14 DEF ApplyChange
<1>15. CASE ChangeFails(t) BY <1>15 DEF ChangeFails, Return, DropInodeLock
<1>16. CASE StagedTruncate(t) BY Zenon, <1>16 DEF StagedTruncate
<1>24. CASE StagedTruncateFails(t)
  BY <1>24 DEF StagedTruncateFails, Return, DropInodeLock
<1>17. CASE WriteUnlock(t) BY Zenon, <1>17 DEF WriteUnlock
<1>18. CASE WriteNote(t) BY Zenon, <1>18 DEF WriteNote, CountChange, Return
<1>19. CASE NoteChange(t) BY Zenon, <1>19 DEF NoteChange, CountChange
<1>20. CASE EndChange(t) BY Zenon, <1>20 DEF EndChange, Return, DropInodeLock
<1>21. CASE ReadEnd(t) BY <1>21 DEF ReadEnd, Return
<1>22. CASE OpenLower(t) BY Zenon, <1>22 DEF OpenLower
<1>23. CASE OpenSampleGen(t) BY <1>23 DEF OpenSampleGen
<1> QED
  BY ZenonT(60), <1>1, <1>2, <1>3, <1>4, <1>5, <1>6, <1>9, <1>10, <1>11,
     <1>12, <1>13, <1>14, <1>15, <1>16, <1>17, <1>18, <1>19, <1>20, <1>21,
     <1>22, <1>23, <1>24
  DEF TaskStart, TaskStep

\* A MOVE_CUTOVER call leaves the state it flipped together with the wake-up.
LEMMA CutoverOwnerInv ==
  ASSUME TypeOK, CallInv, OwnerInv, CutoverStep \/ RevokeMappings
  PROVE  OwnerInv'
<1> USE ConstantsAssumption DEF TypeOK, LockType, MoverType, CallInv,
            OwnerInv, CutoverGivesUp, WakeAll, Publishing
<1>1. CASE DrainDone BY Zenon, <1>1 DEF DrainDone
<1>2. CASE DrainTimeout BY Zenon, <1>2 DEF DrainTimeout
<1>3. CASE CutoverTimedOut BY Zenon, <1>3 DEF CutoverTimedOut
<1>4. CASE CutoverRaced BY Zenon, <1>4 DEF CutoverRaced
<1>5. CASE CutoverStale BY Zenon, <1>5 DEF CutoverStale
<1>6. CASE CutoverFails BY Zenon, <1>6 DEF CutoverFails
<1>7. CASE CutoverCheck BY <1>7 DEF CutoverCheck
<1>8. CASE CutoverResolve BY Zenon, <1>8 DEF CutoverResolve
<1>9. CASE CutoverSwap BY Zenon, <1>9 DEF CutoverSwap
<1>10. CASE CutoverPublish
  BY Zenon, <1>10 DEF CutoverPublish, PublishPlacement
<1>11. CASE RevokeMappings
  BY <1>11, OwnerUnchanged DEF RevokeMappings, ownerVars
<1> QED
  BY Zenon, <1>1, <1>2, <1>3, <1>4, <1>5, <1>6, <1>7, <1>8, <1>9, <1>10,
     <1>11 DEF CutoverStep

\* tierd's steps: a plan is accepted under the row's transaction, and the row
\* is settled only once the object is PLACED again.
LEMMA WorkerOwnerInv ==
  ASSUME TypeOK, CallInv, OwnerInv, WorkerStep
  PROVE  OwnerInv'
<1> USE ConstantsAssumption DEF TypeOK, LockType, MoverType, CallInv,
            OwnerInv, Goto, Publishing
<1>1. ASSUME NEW dest \in Tiers, InspectAndIntend(dest) PROVE OwnerInv'
  BY Zenon, <1>1 DEF InspectAndIntend
<1>2. CASE MovePlan BY Zenon, <1>2 DEF MovePlan, PlanAccept
<1>3. CASE MovePlanRefused BY Zenon, <1>3 DEF MovePlanRefused
<1>4. CASE CopyStart BY Zenon, <1>4 DEF CopyStart
<1>5. CASE CopyDone BY Zenon, <1>5 DEF CopyDone
<1>6. CASE Verify BY Zenon, <1>6 DEF Verify
<1>17. CASE InspectStable BY Zenon, <1>17 DEF InspectStable
<1>7. CASE CopyFails BY Zenon, <1>7 DEF CopyFails
<1>8. CASE MoveCutover BY Zenon, <1>8 DEF MoveCutover, CutoverStart
<1>9. CASE MoveCutoverRefused BY Zenon, <1>9 DEF MoveCutoverRefused
<1>10. CASE Abort BY Zenon, <1>10 DEF Abort
<1>11. CASE RemoveSource BY Zenon, <1>11 DEF RemoveSource
<1>12. CASE MoveComplete BY Zenon, <1>12 DEF MoveComplete, CompleteAccept
<1>13. CASE CleanupFails BY Zenon, <1>13 DEF CleanupFails
<1>14. CASE RecoverInspect BY Zenon, <1>14 DEF RecoverInspect
<1>15. CASE RecoverSettle
  BY Zenon, <1>15 DEF RecoverSettle, CompleteAccept, RollbackAccept
<1>16. CASE RecoverFails BY Zenon, <1>16 DEF RecoverFails
<1> QED
  BY ZenonT(60), <1>1, <1>2, <1>3, <1>4, <1>5, <1>6, <1>7, <1>8, <1>9,
     <1>10, <1>11, <1>12, <1>13, <1>14, <1>15, <1>16, <1>17 DEF WorkerStep

\* Drains leave the movement alone; a tracked object is not re-tracked.
LEMMA StageOwnerInv ==
  ASSUME OwnerInv, StageStep
  PROVE  OwnerInv' /\ UNCHANGED <<pc, cut, waitfor>>
<1>1. ~LookupRetracks BY DEF LookupRetracks, OwnerInv
<1> QED
  BY <1>1, OwnerUnchanged
     DEF StageStep, DrainPick, DrainUnlink, DrainClear, ownerVars

\* The steps of tasks keep the barrier.
LEMMA TaskBarrierInv ==
  ASSUME TypeOK, OwnerInv, BarrierInv, NEW t \in Threads,
         TaskStart(t) \/ TaskStep(t)
  PROVE  BarrierInv'
<1> USE DEF TypeOK, TaskType, LockType, BarrierInv, PastBarrier, Publishing
<1>1. CASE StartWrite(t) BY <1>1 DEF StartWrite, StartOp
<1>2. CASE StartChange(t) BY Zenon, <1>2 DEF StartChange, StartOp
<1>3. CASE StartSetattr(t) BY <1>3 DEF StartSetattr, StartOp
<1>4. CASE ReadStart(t) BY Zenon, <1>4 DEF ReadStart
<1>5. CASE Close(t) BY Zenon, <1>5 DEF Close
<1>6. CASE Mmap(t) BY Zenon, <1>6 DEF Mmap
<1>7. CASE MmapStore(t) BY Zenon, <1>7 DEF MmapStore
<1>8. CASE Munmap(t) BY Zenon, <1>8 DEF Munmap
<1>9. CASE SrcuLock(t) BY Zenon, <1>9 DEF SrcuLock
<1>10. CASE CheckState(t) BY Zenon, <1>10 DEF CheckState, Stalled, OwnerInv
<1>11. CASE Sleep(t) BY Zenon, <1>11 DEF Sleep
<1>12. CASE Unpark(t) BY Zenon, <1>12 DEF Unpark
<1>13. CASE Interrupt(t) BY Zenon, <1>13 DEF Interrupt, Return
<1>14. CASE ApplyChange(t) BY Zenon, <1>14 DEF ApplyChange
<1>15. CASE ChangeFails(t) BY Zenon, <1>15 DEF ChangeFails, Return
<1>16. CASE StagedTruncate(t) BY Zenon, <1>16 DEF StagedTruncate
<1>24. CASE StagedTruncateFails(t)
  BY Zenon, <1>24 DEF StagedTruncateFails, Return
<1>17. CASE WriteUnlock(t) BY Zenon, <1>17 DEF WriteUnlock
<1>18. CASE WriteNote(t) BY Zenon, <1>18 DEF WriteNote, CountChange, Return
<1>19. CASE NoteChange(t) BY Zenon, <1>19 DEF NoteChange, CountChange
<1>20. CASE EndChange(t) BY SMTT(60), <1>20 DEF EndChange, Return
<1>21. CASE ReadEnd(t) BY Zenon, <1>21 DEF ReadEnd, Return
<1>22. CASE OpenLower(t) BY Zenon, <1>22 DEF OpenLower
<1>23. CASE OpenSampleGen(t) BY SMTT(60), <1>23 DEF OpenSampleGen
<1> QED
  BY ZenonT(60), <1>1, <1>2, <1>3, <1>4, <1>5, <1>6, <1>7, <1>8, <1>9, <1>10, <1>11,
     <1>12, <1>13, <1>14, <1>15, <1>16, <1>17, <1>18, <1>19, <1>20, <1>21,
     <1>22, <1>23, <1>24
  DEF TaskStart, TaskStep

\* A MOVE_CUTOVER call keeps the barrier: it goes on only when the grace period
\* that covers whoever was inside an SRCU section is over.
LEMMA CutoverBarrierInv ==
  ASSUME TypeOK, BarrierInv, OwnerInv, CutoverStep \/ RevokeMappings
  PROVE  BarrierInv'
<1> USE DEF TypeOK, TaskType, LockType, BarrierInv, PastBarrier, Publishing,
            CutoverGivesUp
<1>1. CASE DrainDone BY Zenon, <1>1 DEF DrainDone
<1>2. CASE DrainTimeout BY Zenon, <1>2 DEF DrainTimeout
<1>3. CASE CutoverTimedOut BY Zenon, <1>3 DEF CutoverTimedOut
<1>4. CASE CutoverRaced BY Zenon, <1>4 DEF CutoverRaced
<1>5. CASE CutoverStale BY Zenon, <1>5 DEF CutoverStale
<1>6. CASE CutoverFails BY Zenon, <1>6 DEF CutoverFails
<1>7. CASE CutoverCheck BY Zenon, <1>7 DEF CutoverCheck
<1>8. CASE CutoverResolve BY Zenon, <1>8 DEF CutoverResolve
<1>9. CASE CutoverSwap BY Zenon, <1>9 DEF CutoverSwap
<1>10. CASE CutoverPublish BY Zenon, <1>10 DEF CutoverPublish
<1>11. CASE RevokeMappings BY SMTT(60), <1>11 DEF RevokeMappings
<1> QED
  BY Zenon, <1>1, <1>2, <1>3, <1>4, <1>5, <1>6, <1>7, <1>8, <1>9, <1>10,
     <1>11 DEF CutoverStep

\* The grace period MOVE_CUTOVER starts covers whoever is inside an SRCU
\* section.
LEMMA WorkerBarrierInv ==
  ASSUME TypeOK, CallInv, BarrierInv, WorkerStep
  PROVE  BarrierInv'
<1>1. UNCHANGED pc
  BY ZenonT(60) DEF WorkerStep, InspectAndIntend, MovePlan,
                MovePlanRefused, CopyStart, CopyDone, Verify, InspectStable,
                CopyFails, MoveCutover, MoveCutoverRefused, Abort,
                RemoveSource, MoveComplete, CleanupFails, RecoverInspect,
                RecoverSettle, RecoverFails
<1>2. CASE UNCHANGED <<cut, waitfor, dest_path, compared>>
  BY <1>1, <1>2 DEF BarrierInv, PastBarrier, Publishing
<1>3. CASE MoveCutover
  BY <1>1, <1>3 DEF MoveCutover, CutoverStart, Readers, InSrcu, BarrierInv,
                    PastBarrier, Publishing
<1> QED BY <1>2, <1>3, WorkerCall

OwnerIInv == BaseInv /\ OwnerInv /\ BarrierInv

\* Every step of the system preserves the invariant.
LEMMA NextOwnerIInv == OwnerIInv /\ [Next]_vars => OwnerIInv'
<1> SUFFICES ASSUME OwnerIInv, [Next]_vars PROVE OwnerIInv'
  OBVIOUS
<1> USE DEF OwnerIInv
<1>1. BaseInv' BY NextBaseInv
<1>2. CASE \E t \in Threads : TaskStart(t) \/ TaskStep(t)
  BY <1>1, <1>2, TaskOwnerInv, TaskBarrierInv DEF BaseInv
<1>3. CASE CutoverStep \/ RevokeMappings
  BY <1>1, <1>3, CutoverOwnerInv, CutoverBarrierInv DEF BaseInv
<1>4. CASE WorkerStep
  BY <1>1, <1>4, WorkerOwnerInv, WorkerBarrierInv DEF BaseInv
<1>5. CASE StageStep
  BY <1>1, <1>5, StageOwnerInv DEF BarrierInv, PastBarrier, Publishing
<1>6. CASE UNCHANGED vars
  BY <1>1, <1>6, OwnerUnchanged
     DEF vars, ownerVars, BarrierInv, PastBarrier, Publishing
<1> QED BY <1>2, <1>3, <1>4, <1>5, <1>6 DEF Next

\* A freshly mounted object satisfies it.
LEMMA InitOwnerIInv ==
  ASSUME "lookup" \notin Kinds PROVE Init => OwnerIInv
  BY InitBaseInv, InitOwnerInv DEF OwnerIInv

\* No covered change is past the movement_state check from the moment
\* movement_cutover holds inode_lock again until it has published the
\* destination, whatever it sleeps in meanwhile and whatever the number of
\* tasks, as long as no lookup re-tracks the object.
THEOREM BarrierHolds ==
  ASSUME "lookup" \notin Kinds PROVE Spec => []Barrier
<1>1. OwnerIInv => Barrier BY DEF OwnerIInv, BarrierInv, Barrier
<1> QED BY <1>1, InitOwnerIInv, NextOwnerIInv, PTL DEF Spec

\* Every state other than PLACED belongs to the transaction of tierd's row, so
\* the transaction_seq checks of MOVE_COMPLETE and MOVE_ROLLBACK let a worker
\* or a recovery settle the object, whatever failed before.
THEOREM OwnedTransactionHolds ==
  ASSUME "lookup" \notin Kinds PROVE Spec => []OwnedTransaction
<1>1. OwnerIInv => OwnedTransaction
  BY DEF OwnerIInv, OwnerInv, OwnedTransaction
<1> QED BY <1>1, InitOwnerIInv, NextOwnerIInv, PTL DEF Spec

\* No wake-up is missed: while a task sleeps on cutover_wq a cutover is
\* running, and every way out of it passes wake_up_all.
THEOREM SleepersHaveCutoverHolds ==
  ASSUME "lookup" \notin Kinds PROVE Spec => []SleepersHaveCutover
<1>1. OwnerIInv => SleepersHaveCutover
  BY DEF OwnerIInv, OwnerInv, SleepersHaveCutover
<1> QED BY <1>1, InitOwnerIInv, NextOwnerIInv, PTL DEF Spec
=============================================================================
