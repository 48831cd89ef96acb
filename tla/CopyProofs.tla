----------------------------- MODULE CopyProofs -----------------------------
(***************************************************************************)
(* Two more parts of the cutover protocol's invariant: which file a cutover *)
(* publishes, and which one a descriptor refers to.                        *)
(***************************************************************************)
EXTENDS CutoverProofs

USE DEF inodeVars, callVars, cutVars, taskVars, fdVars, nameVars, fileVars,
        opVars, moverVars, stageVars, restVars, otherVars, Recovering

(* Without write staging and re-tracking lookups, the file a cutover       *)
(* publishes is the copy of the file it replaces, and holds every change   *)
(* write_seq had counted when it was compared.                             *)

CopyIInv == OwnerIInv /\ PlaceInv /\ CopyInv

\* The variables PlaceInv speaks of.
placeVars == <<cut, dest_path, backing, current_tier, lower, nfiles, mv, db_tier,
               movement_state, intended_tier, drain_tier, drain>>

\* A step that leaves those variables alone leaves PlaceInv alone.
LEMMA PlaceUnchanged ==
  ASSUME PlaceInv, UNCHANGED placeVars
  PROVE  PlaceInv'
  BY SMTT(60) DEF PlaceInv, placeVars

\* No task step other than a staged truncate touches them.
LEMMA TaskKeepsPlace ==
  ASSUME NEW t \in Threads, ~WriteStaging, TaskStart(t) \/ TaskStep(t)
  PROVE  UNCHANGED placeVars
  BY Zenon DEF TaskStart, TaskStep, placeVars, StartWrite, StartChange,
         StartSetattr, ReadStart, Close, Mmap, MmapStore, Munmap, SrcuLock,
         CheckState, Sleep, Unpark, Interrupt, ApplyChange, ChangeFails,
         StagedTruncate, StagedTruncateFails, WriteUnlock, WriteNote, NoteChange, EndChange,
         ReadEnd, OpenLower, OpenSampleGen

\* A freshly mounted pool has no copy in progress.
LEMMA InitCopyIInv ==
  ASSUME "lookup" \notin Kinds PROVE Init => CopyIInv
<1> SUFFICES ASSUME Init PROVE CopyIInv
  OBVIOUS
<1>1. PlaceInv
  BY ConstantsAssumption DEF Init, PlaceInv, NoFile, Tiers, NoTier
<1>2. CopyInv BY SMTT(60) DEF Init, CopyInv
<1> QED BY <1>1, <1>2, InitOwnerIInv DEF CopyIInv

\* The steps of a MOVE_CUTOVER call keep tierd and kernel in agreement.
LEMMA CutoverPlaceInv ==
  ASSUME TypeOK, CallInv, OwnerInv, PlaceInv, CutoverStep \/ RevokeMappings
  PROVE  PlaceInv'
<1> USE DEF TypeOK, InodeType, FileType, MoverType, CallInv, OwnerInv,
            PlaceInv, PreCutover, CutoverGivesUp
<1>1. CASE DrainDone BY Zenon, <1>1 DEF DrainDone
<1>2. CASE DrainTimeout BY Zenon, <1>2 DEF DrainTimeout
<1>3. CASE CutoverTimedOut BY <1>3 DEF CutoverTimedOut
<1>4. CASE CutoverRaced BY <1>4 DEF CutoverRaced
<1>5. CASE CutoverStale BY <1>5 DEF CutoverStale
<1>6. CASE CutoverFails BY <1>6 DEF CutoverFails
<1>7. CASE CutoverCheck BY <1>7 DEF CutoverCheck
<1>8. CASE CutoverResolve BY <1>8 DEF CutoverResolve
<1>9. CASE CutoverSwap BY <1>9 DEF CutoverSwap
<1>10. CASE CutoverPublish BY <1>10 DEF CutoverPublish, PublishPlacement
<1>11. CASE RevokeMappings BY <1>11 DEF RevokeMappings
<1> QED
  BY Zenon, <1>1, <1>2, <1>3, <1>4, <1>5, <1>6, <1>7, <1>8, <1>9, <1>10,
     <1>11 DEF CutoverStep

\* Unlinking a tier's name leaves the other tiers alone.
LEMMA UnlinkOne ==
  ASSUME TypeOK, PlaceInv, NEW r \in Tiers,
         backing' = [backing EXCEPT ![r] = NoFile], UNCHANGED nfiles
  PROVE  /\ \A s \in Tiers : backing'[s] = IF s = r THEN NoFile ELSE backing[s]
         /\ \A q, s \in Tiers : q # s /\ backing'[q] = backing'[s]
                                  => backing'[q] = NoFile
         /\ \A s \in Tiers : backing'[s] <= nfiles'
<1>1. \A s \in Tiers : backing'[s] = IF s = r THEN NoFile ELSE backing[s]
  BY DEF TypeOK, FileType
<1>2. NoFile <= nfiles BY SMTT(60) DEF TypeOK, FileType, Files, NoFile
<1> QED BY <1>1, <1>2 DEF PlaceInv

\* tierd removes only the copy that is not authoritative, and copies to a
\* file of its own.
LEMMA WorkerPlaceInv ==
  ASSUME TypeOK, CallInv, PlaceInv, WorkerStep
  PROVE  PlaceInv'
<1> USE DEF TypeOK, InodeType, FileType, MoverType, CallInv, PlaceInv,
            Goto, NoFile
<1>1. ASSUME NEW dest \in Tiers, InspectAndIntend(dest) PROVE PlaceInv'
  BY Zenon, <1>1 DEF InspectAndIntend
<1>2. CASE MovePlan BY Zenon, <1>2 DEF MovePlan, PlanAccept, PreCutover
<1>3. CASE MovePlanRefused BY Zenon, <1>3 DEF MovePlanRefused
<1>4. CASE CopyStart BY SMTT(60), <1>4 DEF CopyStart, Files
<1>5. CASE CopyDone BY Zenon, <1>5 DEF CopyDone
<1>6. CASE Verify BY <1>6 DEF Verify
<1>17. CASE InspectStable BY <1>17 DEF InspectStable
<1>7. CASE CopyFails BY Zenon, <1>7 DEF CopyFails
<1>8. CASE MoveCutover BY <1>8 DEF MoveCutover, CutoverStart, PreCutover
<1>9. CASE MoveCutoverRefused BY Zenon, <1>9 DEF MoveCutoverRefused
<1>10. CASE Abort
  <2>1. /\ \A s \in Tiers : s # mv.dst => backing'[s] = backing[s]
        /\ \A q, s \in Tiers : q # s /\ backing'[q] = backing'[s]
                                 => backing'[q] = NoFile
        /\ \A s \in Tiers : backing'[s] <= nfiles'
    BY Zenon, <1>10, UnlinkOne DEF Abort
  <2>2. /\ mv'.pc = "failed" /\ mv'.src = mv.src /\ mv'.dst = mv.dst
        /\ cut = "idle"
    BY Zenon, <1>10 DEF Abort
  <2> QED BY Zenon, <1>10, <2>1, <2>2 DEF Abort
<1>11. CASE RemoveSource
  <2>1. /\ \A s \in Tiers : s # mv.src => backing'[s] = backing[s]
        /\ \A q, s \in Tiers : q # s /\ backing'[q] = backing'[s]
                                 => backing'[q] = NoFile
        /\ \A s \in Tiers : backing'[s] <= nfiles'
    BY Zenon, <1>11, UnlinkOne DEF RemoveSource
  <2>2. /\ mv'.pc = "cleaned" /\ mv'.src = mv.src /\ mv'.dst = mv.dst
        /\ cut = "idle"
    BY Zenon, <1>11 DEF RemoveSource
  <2> QED BY <1>11, <2>1, <2>2 DEF RemoveSource
<1>12. CASE MoveComplete BY <1>12 DEF MoveComplete, CompleteAccept
<1>13. CASE CleanupFails BY Zenon, <1>13 DEF CleanupFails
<1>14. CASE RecoverInspect
  <2>1. PICK p \in Recovering :
             mv' = [mv EXCEPT !.pc = p, !.keep = current_tier]
    BY Zenon, <1>14 DEF RecoverInspect
  <2>2. /\ mv'.pc \in Recovering /\ mv'.src = mv.src /\ mv'.dst = mv.dst
        /\ mv'.keep = current_tier /\ cut = "idle"
        /\ current_tier \in {mv.src, mv.dst}
    BY Zenon, <1>14, <2>1 DEF RecoverInspect
  <2> HIDE DEF Recovering
  <2>3. mv'.pc \notin MoverPcs \ Recovering BY <2>2
  <2> QED BY <1>14, <2>2 DEF RecoverInspect, Recovering
<1>r. ASSUME mv.pc \in Recovering, RemoveOther, UNCHANGED nfiles
      PROVE  /\ backing'[current_tier] = backing[current_tier]
             /\ \A q, s \in Tiers : q # s /\ backing'[q] = backing'[s]
                                      => backing'[q] = NoFile
             /\ \A s \in Tiers : backing'[s] <= nfiles'
  <2> DEFINE other == IF mv.keep = mv.dst THEN mv.src ELSE mv.dst
  <2>1. other \in Tiers /\ other # current_tier BY Zenon, <1>r
  <2>2. backing' = [backing EXCEPT ![other] = NoFile]
    BY Zenon, <1>r DEF RemoveOther
  <2> HIDE DEF other
  <2> QED BY ZenonT(60), <1>r, <2>1, <2>2, UnlinkOne
<1>15. CASE RecoverSettle
  <2>1. /\ mv'.pc = "idle" /\ mv'.src = mv.src /\ mv'.dst = mv.dst
        /\ cut = "idle" /\ UNCHANGED <<current_tier, lower, nfiles>>
    BY Zenon, <1>15 DEF RecoverSettle, CompleteAccept, RollbackAccept
  <2> QED BY Zenon, <1>15, <1>r, <2>1 DEF RecoverSettle
<1>16. CASE RecoverFails
  <2>1. /\ mv'.pc = "failed" /\ mv'.src = mv.src /\ mv'.dst = mv.dst
        /\ cut = "idle"
    BY SMTT(60), <1>16 DEF RecoverFails
  <2> QED BY Zenon, <1>16, <1>r, <2>1 DEF RecoverFails
<1> QED
  BY ZenonT(60), <1>1, <1>2, <1>3, <1>4, <1>5, <1>6, <1>7, <1>8, <1>9, <1>10, <1>11,
     <1>12, <1>13, <1>14, <1>15, <1>16, <1>17 DEF WorkerStep

\* Without write staging there is nothing to drain.
LEMMA StageKeepsPlace ==
  ASSUME TypeOK, OwnerInv, PlaceInv
  PROVE  ~StageStep
<1>1. ~LookupRetracks BY DEF LookupRetracks, OwnerInv
<1> QED BY <1>1 DEF StageStep, DrainPick, DrainUnlink, DrainClear, PlaceInv

\* Adding a change that write_seq has not counted keeps CopyInv.
LEMMA UncountedChange ==
  ASSUME TypeOK, CallInv, PlaceInv, CopyInv, NEW f \in Files, NEW n \in Ops,
         n \notin noted, data' = [data EXCEPT ![f] = @ \union {n}],
         UNCHANGED <<mv, write_seq, cut, lower, noted, compared, backing>>
  PROVE  CopyInv'
<1>1. \A g \in Files : data'[g] = IF g = f THEN data[g] \union {n}
                                         ELSE data[g]
  BY Zenon DEF TypeOK, FileType
<1>2. lower \in Files BY Zenon DEF TypeOK, InodeType
<1>3. mv.pc \in {"copied", "stable", "verified", "cutting"}
        => backing[mv.dst] \in Files
  BY DEF TypeOK, MoverType, FileType, PlaceInv
<1>4. cut # "idle" => mv.pc = "cutting" BY DEF CallInv
<1>5. n \notin compared BY DEF CopyInv
<1> QED BY <1>1, <1>2, <1>3, <1>4, <1>5 DEF CopyInv, Publishing

\* Counting a change makes write_seq pass the value the worker remembers.
LEMMA CountedChange ==
  ASSUME TypeOK, CopyInv, write_seq' = write_seq + 1, noted \subseteq noted',
         UNCHANGED <<mv, cut, lower, data, backing, compared>>
  PROVE  CopyInv'
  BY DEF TypeOK, MoverType, InodeType, CopyInv

\* The variables CopyInv speaks of.
copyVars == <<mv, write_seq, cut, lower, noted, compared, backing, data>>

\* A step that leaves the variables of CopyInv alone preserves it.
LEMMA CopyUnchanged ==
  ASSUME CopyInv, UNCHANGED copyVars
  PROVE  CopyInv'
  BY Zenon DEF CopyInv, Publishing, copyVars

\* A change reaches the source before it is counted, and counting it moves
\* write_seq away from the value the worker holds.
LEMMA TaskCopyInv ==
  ASSUME BaseInv, PlaceInv, CopyInv, ~WriteStaging,
         NEW t \in Threads, TaskStart(t) \/ TaskStep(t)
  PROVE  CopyInv'
<1> USE DEF BaseInv
<1>1. CASE ApplyChange(t)
  <2>1. pc[t] = "crit" /\ pc[t] \in InProgress
    BY Zenon, <1>1 DEF ApplyChange, InProgress
  <2>2. opid[t] \in Ops /\ low[t] \in Files BY Zenon, <2>1, ActiveTask
  <2>3. opid[t] \notin noted BY <2>1 DEF OpInv
  <2> QED BY Zenon, <1>1, <2>2, <2>3, UncountedChange DEF ApplyChange
<1>2. CASE MmapStore(t)
  <2>1. nops + 1 \in Ops /\ wmap[t] \in Files /\ nops + 1 \notin noted
    BY <1>2, ConstantsAssumption
       DEF MmapStore, TypeOK, OpType, FdType, Ops, NoFile, OpInv
  <2> QED BY Zenon, <1>2, <2>1, UncountedChange DEF MmapStore
<1>3. CASE WriteNote(t) \/ NoteChange(t)
  BY <1>3, CountedChange DEF WriteNote, NoteChange, CountChange
<1>4. CASE \/ TaskStart(t) /\ ~MmapStore(t)
           \/ /\ TaskStep(t)
              /\ ~ApplyChange(t) /\ ~WriteNote(t) /\ ~NoteChange(t)
  <2>1. UNCHANGED copyVars
    BY ZenonT(60), <1>4
       DEF TaskStart, TaskStep, copyVars, StartWrite, StartChange, StartOp,
           StartSetattr, ReadStart, Close, Mmap, Munmap, SrcuLock, CheckState,
           Sleep, Unpark, Interrupt, ChangeFails, StagedTruncate,
           StagedTruncateFails, WriteUnlock,
           EndChange, ReadEnd, OpenLower, OpenSampleGen
  <2> QED BY Zenon, <2>1, CopyUnchanged
<1> QED BY SMTT(60), <1>1, <1>2, <1>3, <1>4 DEF TaskStart, TaskStep

\* The steps of a call keep the copy: the comparison of write_seq turns what
\* was counted so far into `compared'.
LEMMA CutoverCopyInv ==
  ASSUME TypeOK, CallInv, PlaceInv, CopyInv, CutoverStep \/ RevokeMappings
  PROVE  CopyInv'
<1> USE DEF TypeOK, MoverType, InodeType, CopyInv, Publishing, CutoverGivesUp
<1>1. CASE DrainDone \/ DrainTimeout \/ RevokeMappings
  BY Zenon, <1>1 DEF DrainDone, DrainTimeout, RevokeMappings
<1>2. CASE CutoverTimedOut \/ CutoverRaced \/ CutoverStale \/ CutoverFails
  BY Zenon, <1>2 DEF CutoverTimedOut, CutoverRaced, CutoverStale, CutoverFails
<1>3. CASE CutoverCheck
  BY <1>3 DEF CutoverCheck, SeqStable, CallInv
<1>4. CASE CutoverResolve BY Zenon, <1>4 DEF CutoverResolve
<1>5. CASE CutoverSwap BY Zenon, <1>5 DEF CutoverSwap
<1>6. CASE CutoverPublish BY Zenon, <1>6 DEF CutoverPublish
<1> QED BY Zenon, <1>1, <1>2, <1>3, <1>4, <1>5, <1>6 DEF CutoverStep

\* Of tierd's steps only CopyDone establishes the copy anew; the others keep
\* it, or leave the states in which it matters.
LEMMA WorkerCopyInv ==
  ASSUME TypeOK, CallInv, PlaceInv, CopyInv, WorkerStep
  PROVE  CopyInv'
<1> USE DEF TypeOK, MoverType, InodeType, CopyInv, CallInv, Publishing, Goto
<1>1. ASSUME NEW dest \in Tiers, InspectAndIntend(dest) PROVE CopyInv'
  BY <1>1 DEF InspectAndIntend
<1>2. CASE CopyDone
  <2>1. /\ backing[mv.src] = lower /\ backing[mv.dst] \in Files
        /\ backing[mv.dst] # lower
    BY <1>2 DEF CopyDone, PlaceInv, FileType
  <2>2. data'[lower] = data[lower] /\ data'[backing[mv.dst]] = data[lower]
    BY Zenon, <1>2, <2>1 DEF CopyDone, FileType
  <2> QED BY Zenon, <1>2, <2>2 DEF CopyDone
<1>3. CASE Verify \/ InspectStable
  BY Zenon, <1>3 DEF Verify, InspectStable
<1>4. CASE MoveCutover BY Zenon, <1>4 DEF MoveCutover, CutoverStart
<1>5. CASE MovePlan \/ MovePlanRefused \/ CopyStart \/ CopyFails
             \/ MoveCutoverRefused \/ Abort \/ RemoveSource
             \/ MoveComplete \/ CleanupFails \/ RecoverInspect
             \/ RecoverSettle \/ RecoverFails
  <2>1. /\ mv'.seq = mv.seq
        /\ UNCHANGED <<write_seq, cut, noted, compared>>
        /\ mv.pc # "cutting"
        /\ mv'.pc \notin {"copied", "stable", "verified", "cutting"}
    BY ZenonT(60), <1>5 DEF MovePlan, MovePlanRefused, CopyStart, CopyFails,
            MoveCutoverRefused, Abort, RemoveSource, MoveComplete,
            CleanupFails, RecoverInspect, RecoverSettle, RecoverFails
  <2> QED BY SMTT(60), <2>1
<1> QED BY Zenon, <1>1, <1>2, <1>3, <1>4, <1>5 DEF WorkerStep

\* Every step of the system preserves the invariant of the copy.
LEMMA NextCopyIInv ==
  ASSUME ~WriteStaging PROVE CopyIInv /\ [Next]_vars => CopyIInv'
<1> SUFFICES ASSUME CopyIInv, [Next]_vars PROVE CopyIInv'
  OBVIOUS
<1> USE DEF CopyIInv
<1>1. OwnerIInv' BY NextOwnerIInv
<1>2. ASSUME NEW t \in Threads, TaskStart(t) \/ TaskStep(t)
      PROVE  PlaceInv' /\ CopyInv'
  BY <1>2, TaskKeepsPlace, PlaceUnchanged, TaskCopyInv DEF OwnerIInv
<1>3. CASE CutoverStep \/ RevokeMappings
  BY Zenon, <1>1, <1>3, CutoverPlaceInv, CutoverCopyInv
     DEF OwnerIInv, BaseInv
<1>4. CASE WorkerStep
  BY Zenon, <1>1, <1>4, WorkerPlaceInv, WorkerCopyInv DEF OwnerIInv, BaseInv
<1>5. ~StageStep BY Zenon, StageKeepsPlace DEF OwnerIInv, BaseInv
<1>6. CASE UNCHANGED vars
  BY <1>1, <1>6, PlaceUnchanged, CopyUnchanged DEF vars, placeVars, copyVars
<1> QED BY <1>1, <1>2, <1>3, <1>4, <1>5, <1>6 DEF Next

\* Without write staging and re-tracking lookups the object's name on its
\* current tier always names the file lower_path refers to, through every
\* failure, abort and recovery of the worker.
THEOREM AuthoritativeNamedHolds ==
  ASSUME ~WriteStaging, "lookup" \notin Kinds
  PROVE  Spec => []AuthoritativeNamed
<1>1. CopyIInv => AuthoritativeNamed
  BY DEF CopyIInv, PlaceInv, AuthoritativeNamed
<1> QED BY <1>1, InitCopyIInv, NextCopyIInv, PTL DEF Spec

\* Only CutoverSwap goes from the resolved destination to publication.
LEMMA SwapStep ==
  ASSUME CopyIInv, ~WriteStaging, Next, cut = "resolved", cut' = "publish"
  PROVE  CutoverSwap
<1>1. \A t \in Threads : TaskStart(t) \/ TaskStep(t) => UNCHANGED cut
  BY Zenon, TaskKeepsCall
<1>2. RevokeMappings => UNCHANGED cut BY DEF RevokeMappings
<1>3. StageStep => UNCHANGED cut BY StageKeepsCall
<1>4. WorkerStep => UNCHANGED cut
  BY WorkerCall DEF CopyIInv, OwnerIInv, BaseInv, CallInv, MoveCutover
<1>5. CutoverStep => CutoverSwap
  BY DEF CutoverStep, DrainDone, DrainTimeout, CutoverTimedOut, CutoverRaced,
         CutoverCheck, CutoverStale, CutoverFails, CutoverResolve,
         CutoverPublish, CutoverGivesUp
<1> QED BY <1>1, <1>2, <1>3, <1>4, <1>5 DEF Next

\* Without write staging and re-tracking lookups a switch publishes every
\* change write_seq had counted when it was compared.
THEOREM SwitchPublishesNotedHolds ==
  ASSUME ~WriteStaging, "lookup" \notin Kinds
  PROVE  Spec => SwitchPublishesNoted
<1>1. ASSUME CopyIInv, [Next]_vars
      PROVE  [cut = "resolved" /\ cut' = "publish"
                => data[lower] \intersect compared \subseteq data[lower']]_vars
  <2> SUFFICES ASSUME Next, cut = "resolved", cut' = "publish"
               PROVE  data[lower] \intersect compared \subseteq data[lower']
    BY <1>1
  <2>1. lower' = dest_path BY Zenon, <1>1, SwapStep DEF CutoverSwap
  <2>2. dest_path = backing[mv.dst] BY <1>1 DEF CopyIInv, PlaceInv
  <2> QED BY <1>1, <2>1, <2>2 DEF CopyIInv, CopyInv
<1> QED
  BY <1>1, InitCopyIInv, NextCopyIInv, PTL DEF Spec, SwitchPublishesNoted

-----------------------------------------------------------------------------
(* Which file a descriptor refers to.                                      *)

\* A freshly mounted object's descriptors are current.
LEMMA InitFdInv == Init => FdInv
  BY DEF Init, FdInv

\* The variables FdInv speaks of.
descVars == <<pc, fdgen, fdlow, cutover_gen, cut, lower>>

\* The steps of tasks: a reissue stores the generation it compared and the
\* path it opened, and a rehome moves path and generation together.
LEMMA TaskFdInv ==
  ASSUME "open" \notin Kinds, TypeOK, FdInv, NEW t \in Threads,
         TaskStart(t) \/ TaskStep(t)
  PROVE  FdInv'
<1> USE DEF TypeOK, InodeType, TaskType, FdType, FdInv
<1>1. CASE StartWrite(t) BY Zenon, <1>1 DEF StartWrite, StartOp
<1>2. CASE StartChange(t)
  BY <1>2 DEF StartChange, StartOp, Reissue, LowerFile
<1>3. CASE StartSetattr(t) BY Zenon, <1>3 DEF StartSetattr, StartOp
<1>4. CASE ReadStart(t) BY <1>4 DEF ReadStart, Reissue, LowerFile
<1>5. CASE Close(t) BY Zenon, <1>5 DEF Close
<1>6. CASE Mmap(t) BY <1>6 DEF Mmap, Reissue, LowerFile
<1>7. CASE MmapStore(t) BY Zenon, <1>7 DEF MmapStore
<1>8. CASE Munmap(t) BY <1>8 DEF Munmap
<1>9. CASE SrcuLock(t) BY Zenon, <1>9 DEF SrcuLock
<1>10. CASE CheckState(t) BY <1>10 DEF CheckState, Reissue, LowerFile
<1>11. CASE Sleep(t) BY Zenon, <1>11 DEF Sleep
<1>12. CASE Unpark(t) BY Zenon, <1>12 DEF Unpark
<1>13. CASE Interrupt(t) BY Zenon, <1>13 DEF Interrupt, Return
<1>14. CASE ApplyChange(t) BY Zenon, <1>14 DEF ApplyChange
<1>15. CASE ChangeFails(t) BY Zenon, <1>15 DEF ChangeFails, Return
<1>16. CASE StagedTruncate(t) BY <1>16 DEF StagedTruncate
<1>24. CASE StagedTruncateFails(t)
  BY Zenon, <1>24 DEF StagedTruncateFails, Return
<1>17. CASE WriteUnlock(t) BY Zenon, <1>17 DEF WriteUnlock
<1>18. CASE WriteNote(t) BY Zenon, <1>18 DEF WriteNote, Return
<1>19. CASE NoteChange(t) BY Zenon, <1>19 DEF NoteChange
<1>20. CASE EndChange(t) BY Zenon, <1>20 DEF EndChange, Return
<1>21. CASE ReadEnd(t) BY Zenon, <1>21 DEF ReadEnd, Return
<1>22. CASE OpenLower(t) BY Zenon, <1>22 DEF OpenLower
<1>23. CASE OpenSampleGen(t) BY <1>23 DEF OpenSampleGen
<1> QED
  BY ZenonT(60), <1>1, <1>2, <1>3, <1>4, <1>5, <1>6, <1>7, <1>8, <1>9,
     <1>10, <1>11, <1>12, <1>13, <1>14, <1>15, <1>16, <1>17, <1>18, <1>19,
     <1>20, <1>21, <1>22, <1>23, <1>24
  DEF TaskStart, TaskStep

\* Only the switch moves lower_path, and the new generation follows it.
LEMMA OtherFdInv ==
  ASSUME TypeOK, CallInv, FdInv,
         CutoverStep \/ RevokeMappings \/ WorkerStep \/ StageStep
  PROVE  FdInv'
<1> USE DEF TypeOK, InodeType, FdType, FdInv
<1>1. CASE CutoverSwap BY Zenon, <1>1 DEF CutoverSwap
<1>2. CASE CutoverPublish BY <1>2 DEF CutoverPublish, PublishPlacement
<1>3. CASE DrainDone \/ DrainTimeout \/ CutoverTimedOut \/ CutoverRaced
             \/ CutoverCheck \/ CutoverStale \/ CutoverFails
             \/ CutoverResolve
  <2>1. UNCHANGED <<pc, fdgen, fdlow, cutover_gen, lower>> /\ cut # "publish"
    BY <1>3 DEF DrainDone, DrainTimeout, CutoverTimedOut, CutoverRaced,
                CutoverCheck, CutoverStale, CutoverFails, CutoverResolve,
                CutoverGivesUp
  <2> QED BY Zenon, <2>1
<1>4. CASE RevokeMappings \/ StageStep
  <2>1. UNCHANGED descVars
    BY ZenonT(30), <1>4 DEF RevokeMappings, StageStep, DrainPick, DrainUnlink,
              DrainClear, LookupRetracks, descVars
  <2> QED BY <2>1 DEF descVars
<1>5. CASE WorkerStep
  <2>1. UNCHANGED <<pc, fdgen, fdlow, cutover_gen, lower>>
    BY ZenonT(60), <1>5 DEF WorkerStep, InspectAndIntend, MovePlan,
              MovePlanRefused, CopyStart, CopyDone, Verify, InspectStable,
              CopyFails, MoveCutover, MoveCutoverRefused, Abort, RemoveSource,
              MoveComplete, CleanupFails, RecoverInspect, RecoverSettle,
              RecoverFails, PlanAccept, CutoverStart, CompleteAccept,
              RollbackAccept
  <2>2. UNCHANGED cut \/ MoveCutover BY Zenon, <1>5, WorkerCall
  <2>3. MoveCutover => cut # "publish" BY DEF MoveCutover, CallInv
  <2> QED BY <2>1, <2>2, <2>3
<1> QED BY Zenon, <1>1, <1>2, <1>3, <1>4, <1>5 DEF CutoverStep

FdIInv == BaseInv /\ FdInv

\* Every step of the system keeps the descriptors in step with the switch.
LEMMA NextFdIInv ==
  ASSUME "open" \notin Kinds PROVE FdIInv /\ [Next]_vars => FdIInv'
<1> SUFFICES ASSUME FdIInv, [Next]_vars PROVE FdIInv'
  OBVIOUS
<1> USE DEF FdIInv
<1>1. BaseInv' BY Zenon, NextBaseInv
<1>2. CASE \E t \in Threads : TaskStart(t) \/ TaskStep(t)
  BY <1>1, <1>2, TaskFdInv DEF BaseInv
<1>3. CASE CutoverStep \/ RevokeMappings \/ WorkerStep \/ StageStep
  BY Zenon, <1>1, <1>3, OtherFdInv DEF BaseInv
<1>4. CASE UNCHANGED vars BY <1>1, <1>4 DEF vars, FdInv
<1> QED BY <1>2, <1>3, <1>4 DEF Next

\* The whole invariant of the cutover protocol, under every configuration:
\* types, numbering and calls always; the barrier and the ownership of the
\* movement state without re-tracking lookups; the copy without those and
\* without write staging; the descriptors without opens.
THEOREM CutoverInvHolds == Spec => []CutoverInv
<1>1. Init => CutoverInv
  BY InitBaseInv, InitOwnerInv, InitCopyIInv, InitFdInv
     DEF CutoverInv, BaseInv, CopyIInv
<1>2. CutoverInv /\ [Next]_vars => CutoverInv'
  <2> SUFFICES ASSUME CutoverInv, [Next]_vars PROVE CutoverInv'
    OBVIOUS
  <2>1. BaseInv' BY NextBaseInv DEF CutoverInv, BaseInv
  <2>2. ASSUME "lookup" \notin Kinds PROVE BarrierInv' /\ OwnerInv'
    BY <2>2, NextOwnerIInv DEF CutoverInv, BaseInv, OwnerIInv
  <2>3. ASSUME "lookup" \notin Kinds, ~WriteStaging PROVE PlaceInv' /\ CopyInv'
    BY <2>3, NextCopyIInv DEF CutoverInv, BaseInv, OwnerIInv, CopyIInv
  <2>4. ASSUME "open" \notin Kinds PROVE FdInv'
    BY <2>4, NextFdIInv DEF CutoverInv, BaseInv, FdIInv
  <2> QED BY <2>1, <2>2, <2>3, <2>4 DEF CutoverInv, BaseInv
<1> QED BY <1>1, <1>2, PTL DEF Spec

\* A descriptor with the current generation refers to the authoritative file,
\* through any number of movements and rehomes: smoothfs_reissue_lower is
\* never skipped when it is needed.  An open that samples cutover_gen after a
\* switch it did not see is the excluded case.
THEOREM FdFollowsCutoverHolds ==
  ASSUME "open" \notin Kinds PROVE Spec => []FdFollowsCutover
<1>1. FdIInv => FdFollowsCutover BY DEF FdIInv, FdInv, FdFollowsCutover
<1>2. Init => FdIInv BY InitBaseInv, InitFdInv DEF FdIInv
<1> QED BY <1>1, <1>2, NextFdIInv, PTL DEF Spec
=============================================================================
