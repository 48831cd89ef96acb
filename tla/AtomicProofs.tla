---------------------------- MODULE AtomicProofs ----------------------------
(***************************************************************************)
(* Users see one atomic copy: for any number of tasks, tiers, changes and  *)
(* movements, an object that is changed by setattr and read or reopened    *)
(* implements AtomicObject, and a read through a descriptor that is never  *)
(* reopened sees every change that had returned before it began.           *)
(***************************************************************************)
EXTENDS CopyProofs

USE DEF inodeVars, callVars, cutVars, taskVars, fdVars, nameVars, fileVars,
        opVars, moverVars, stageVars, restVars, otherVars, Recovering

\* The configurations the result is about: the operations that hold the inode
\* lock or change nothing, without write staging.
Locked == Kinds \subseteq {"setattr", "read", "open"} /\ ~WriteStaging

\* The parts of CutoverInv that hold there.
Protocol == /\ TypeOK /\ OpInv /\ CallInv /\ BarrierInv /\ OwnerInv
            /\ PlaceInv /\ CopyInv

\* What the object holds is what was counted and what running setattrs have
\* applied; a finished copy has nothing the object has not.
AtomicInv ==
  /\ \A t \in Threads : wmap[t] = NoFile
  /\ \A t \in Threads : kind[t] \in {"none", "setattr"} /\ pc[t] # "unlocked"
  /\ \A t \in Threads : kind[t] = "setattr"
        => low[t] = lower /\ pc[t] \in InProgress
  /\ \A t \in Threads : pc[t] \in {"applied", "noted"} => opid[t] \in data[lower]
  /\ returned \subseteq data[lower]
  /\ \A n \in data[lower] :
        n \in noted \/ \E t \in Threads : pc[t] = "applied" /\ opid[t] = n
  /\ mv.pc \in {"copied", "stable", "verified", "cutting"} /\ cut # "publish"
        => data[backing[mv.dst]] \subseteq data[lower]
  /\ cut \in {"checked", "resolved"} => data[lower] \subseteq compared

\* A step of AtomicObject, or one it does not see.
RegisterStep == Register!Next \/ UNCHANGED <<data[lower], returned>>

\* A fresh object is empty.
LEMMA InitAtomicInv == Init => AtomicInv /\ Register!Init
<1> SUFFICES ASSUME Init PROVE AtomicInv /\ Register!Init
  BY Zenon
<1>1. lower \in Files /\ data[lower] = {} /\ returned = {}
  BY ConstantsAssumption DEF Init, Files
<1>2. /\ \A t \in Threads : /\ wmap[t] = NoFile /\ kind[t] = "none"
                             /\ pc[t] = "idle"
      /\ mv.pc = "idle"
  BY DEF Init
<1> QED BY <1>1, <1>2 DEF AtomicInv, Register!Init

\* The variables AtomicInv speaks of.
atomicVars == <<wmap, kind, low, lower, pc, opid, data, returned, noted, mv,
                cut, compared, backing>>

\* A step that leaves those variables alone leaves AtomicInv alone.
LEMMA AtomicUnchanged ==
  ASSUME AtomicInv, UNCHANGED atomicVars
  PROVE  AtomicInv' /\ RegisterStep
  BY Zenon DEF AtomicInv, atomicVars, RegisterStep

\* An operation in progress is a setattr, which holds the inode lock.
LEMMA OnlySetattr ==
  ASSUME Protocol, AtomicInv, NEW t \in Threads, pc[t] \in InProgress
  PROVE  kind[t] = "setattr" /\ i_rwsem = t
  BY Zenon DEF Protocol, AtomicInv, OpInv, OwnerInv

\* A step that touches no data and no placement, and moves no task into or out
\* of the states where its change is applied and not counted.
LEMMA QuietTask ==
  ASSUME Protocol, AtomicInv, NEW t \in Threads,
         UNCHANGED <<lower, data, noted, mv, cut, compared, backing, returned, wmap>>,
         NEW p \in TaskPcs \ {"applied", "noted", "unlocked"}, pc[t] # "applied",
         pc' = [pc EXCEPT ![t] = p],
         \A u \in Threads \ {t} : /\ kind'[u] = kind[u] /\ low'[u] = low[u]
                                  /\ opid'[u] = opid[u],
         kind'[t] \in {"none", "setattr"},
         kind'[t] = "setattr" => low'[t] = lower /\ pc'[t] \in InProgress
  PROVE  AtomicInv' /\ RegisterStep
<1>1. \A u \in Threads : pc'[u] = IF u = t THEN p ELSE pc[u]
  BY DEF Protocol, TypeOK, TaskType
<1>2. \A u \in Threads : pc'[u] \in {"applied", "noted"}
        => pc[u] = pc'[u] /\ opid'[u] = opid[u]
  BY <1>1
<1>3. \A u \in Threads : pc[u] = "applied" => pc'[u] = "applied" /\ opid'[u] = opid[u]
  BY <1>1
<1>4. RegisterStep BY DEF RegisterStep
<1>5. \A u \in Threads :
        /\ kind'[u] \in {"none", "setattr"} /\ pc'[u] # "unlocked"
        /\ kind'[u] = "setattr" => low'[u] = lower /\ pc'[u] \in InProgress
  <2> TAKE u \in Threads
  <2>1. CASE u = t BY Zenon, <1>1, <2>1
  <2>2. CASE u # t BY <1>1, <2>2 DEF AtomicInv
  <2> QED BY <2>1, <2>2
<1> QED BY <1>2, <1>3, <1>4, <1>5 DEF AtomicInv

\* The number of an operation in progress.
LEMMA OpidType ==
  ASSUME Protocol, NEW t \in Threads, pc[t] \in InProgress
  PROVE  opid[t] \in Ops
<1>1. opid[t] \in 1 .. nops /\ opid[t] \in 0 .. MaxOps /\ nops \in 0 .. MaxOps
  BY DEF Protocol, OpInv, TypeOK, TaskType, OpType
<1> QED BY <1>1, ConstantsAssumption DEF Ops

\* The tasks: ApplyChange is the abstract Apply, EndChange the abstract Ack.
LEMMA TaskAtomicInv ==
  ASSUME Locked, Protocol, AtomicInv, NEW t \in Threads,
         TaskStart(t) \/ TaskStep(t)
  PROVE  AtomicInv' /\ RegisterStep
<1> USE DEF TaskPcs, InProgress
<1>t. TypeOK /\ InodeType /\ TaskType /\ OpType /\ FileType
  BY Zenon DEF Protocol, TypeOK
<1>1. CASE StartWrite(t) \/ StartChange(t) \/ Mmap(t) \/ MmapStore(t) \/ Munmap(t)
           \/ StagedTruncate(t) \/ StagedTruncateFails(t)
  BY <1>1 DEF StartWrite, StartChange, StartOp, Mmap, MmapStore, Munmap,
     StagedTruncate, StagedTruncateFails, Locked, AtomicInv
<1>2. CASE StartSetattr(t)
  BY <1>t, <1>2, QuietTask, Zenon DEF StartSetattr, StartOp, TaskType
<1>3. CASE ReadStart(t) \/ ReadEnd(t) \/ Close(t) \/ OpenLower(t)
           \/ OpenSampleGen(t)
  <2>1. /\ UNCHANGED <<lower, data, noted, mv, cut, compared, backing, returned, wmap>>
        /\ pc[t] # "applied"
    BY Zenon, <1>3 DEF ReadStart, ReadEnd, Close, OpenLower, OpenSampleGen
  <2>2. PICK p \in TaskPcs \ {"applied", "noted", "unlocked"} : pc' = [pc EXCEPT ![t] = p]
    BY Zenon, <1>3 DEF ReadStart, ReadEnd, Close, OpenLower, OpenSampleGen, Return
  <2>3. \A u \in Threads \ {t} : /\ kind'[u] = kind[u] /\ low'[u] = low[u]
                                 /\ opid'[u] = opid[u]
    BY Zenon, <1>t, <1>3 DEF ReadStart, ReadEnd, Close, OpenLower, OpenSampleGen,
       Return, TaskType
  <2>4. /\ kind'[t] \in {"none", "setattr"}
        /\ kind'[t] = "setattr" => low'[t] = lower /\ pc'[t] \in InProgress
    <3>1. CASE ReadEnd(t) BY Zenon, <1>t, <3>1 DEF ReadEnd, Return, TaskType
    <3>2. CASE ReadStart(t) \/ Close(t) \/ OpenLower(t) \/ OpenSampleGen(t)
      <4>1. kind' = kind /\ pc[t] \in {"idle", "closed", "opening"}
        BY Zenon, <3>2 DEF ReadStart, Close, OpenLower, OpenSampleGen
      <4>2. pc[t] \notin InProgress BY <4>1
      <4> QED BY Zenon, <4>1, <4>2 DEF AtomicInv
    <3> QED BY Zenon, <1>3, <3>1, <3>2
  <2> QED BY <2>1, <2>2, <2>3, <2>4, QuietTask, Zenon
<1>4. CASE SrcuLock(t) \/ CheckState(t) \/ Unpark(t) \/ Interrupt(t)
           \/ ChangeFails(t)
  <2>0. kind[t] = "setattr"
    BY Zenon, <1>4, OnlySetattr DEF SrcuLock, CheckState, Unpark, Interrupt,
       ChangeFails, InProgress
  <2>1. /\ UNCHANGED <<lower, data, noted, mv, cut, compared, backing, returned, wmap>>
        /\ pc[t] # "applied"
    BY Zenon, <1>4 DEF SrcuLock, CheckState, Unpark, Interrupt, ChangeFails
  <2>2. PICK p \in TaskPcs \ {"applied", "noted", "unlocked"} : pc' = [pc EXCEPT ![t] = p]
    BY Zenon, <1>4 DEF SrcuLock, CheckState, Unpark, Interrupt, ChangeFails, Return
  <2>3. \A u \in Threads \ {t} : /\ kind'[u] = kind[u] /\ low'[u] = low[u]
                                 /\ opid'[u] = opid[u]
    BY Zenon, <1>t, <1>4, <2>0 DEF SrcuLock, CheckState, Unpark, Interrupt,
       ChangeFails, Return, TaskType
  <2>4. /\ kind'[t] \in {"none", "setattr"}
        /\ kind'[t] = "setattr" => low'[t] = lower /\ pc'[t] \in InProgress
    <3>1. low[t] = lower BY Zenon, <2>0 DEF AtomicInv
    <3>2. CASE SrcuLock(t) \/ CheckState(t) \/ Unpark(t)
      BY Zenon, <1>t, <2>0, <3>1, <3>2 DEF SrcuLock, CheckState, Unpark, TaskType
    <3>3. CASE Interrupt(t) \/ ChangeFails(t)
      BY Zenon, <1>t, <3>3 DEF Interrupt, ChangeFails, Return, TaskType
    <3> QED BY Zenon, <1>4, <3>2, <3>3
  <2> QED BY <2>1, <2>2, <2>3, <2>4, QuietTask, Zenon
<1>5. CASE Sleep(t) BY Zenon, <1>5, AtomicUnchanged DEF Sleep, atomicVars
<1>6. CASE ApplyChange(t)
  <2>1. /\ low[t] = lower /\ opid[t] \in Ops
        /\ kind[t] = "setattr" /\ i_rwsem = t
    BY Zenon, <1>6, OnlySetattr, OpidType DEF ApplyChange, AtomicInv
  <2>2. /\ data' = [data EXCEPT ![lower] = data[lower] \union {opid[t]}]
        /\ pc' = [pc EXCEPT ![t] = "applied"]
        /\ UNCHANGED <<lower, returned, noted, mv, cut, compared, backing, wmap,
                       kind, low, opid>>
    BY Zenon, <1>6, <2>1 DEF ApplyChange
  <2>3. data'[lower'] = data[lower] \union {opid[t]}
    BY Zenon, <1>t, <2>2 DEF InodeType, FileType
  <2>4. RegisterStep
    BY Zenon, <2>1, <2>2, <2>3 DEF RegisterStep, Register!Next, Register!Apply
  <2>5. \A u \in Threads : pc'[u] = IF u = t THEN "applied" ELSE pc[u]
    BY Zenon, <1>t, <2>2 DEF TaskType
  <2>6. mv.pc \in {"copied", "stable", "verified", "cutting"} /\ cut # "publish"
          => data'[backing[mv.dst]] \subseteq data'[lower]
    BY <1>t, <2>2, <2>3 DEF AtomicInv, FileType, InodeType
  <2>7. \A n \in data'[lower'] :
          n \in noted' \/ \E u \in Threads : pc'[u] = "applied" /\ opid'[u] = n
    BY <2>2, <2>3, <2>5 DEF AtomicInv
  <2>8. \A u \in Threads : pc'[u] \in {"applied", "noted"} => opid'[u] \in data'[lower']
    BY Zenon, <2>2, <2>3, <2>5 DEF AtomicInv
  <2>9. cut \notin {"checked", "resolved"}
    BY Zenon, <2>1, ConstantsAssumption DEF Protocol, OwnerInv, Publishing
  <2> QED BY <2>2, <2>3, <2>4, <2>6, <2>7, <2>8, <2>9 DEF AtomicInv
<1>7. CASE WriteUnlock(t) \/ WriteNote(t)
  BY Zenon, <1>7 DEF WriteUnlock, WriteNote, AtomicInv
<1>8. CASE NoteChange(t)
  <2>1. /\ pc' = [pc EXCEPT ![t] = "noted"]
        /\ noted' = noted \union {opid[t]}
        /\ UNCHANGED <<lower, data, returned, mv, cut, compared, backing, wmap,
                       kind, low, opid>>
    BY <1>8, Zenon DEF NoteChange, CountChange
  <2>2. \A u \in Threads : pc'[u] = IF u = t THEN "noted" ELSE pc[u]
    BY Zenon, <1>t, <2>1 DEF TaskType
  <2>3. opid[t] \in data[lower] BY <1>8 DEF NoteChange, AtomicInv
  <2>4. RegisterStep BY Zenon, <2>1 DEF RegisterStep
  <2>5. \A n \in data[lower] :
          n \in noted' \/ \E u \in Threads : pc'[u] = "applied" /\ opid[u] = n
    BY <2>1, <2>2 DEF AtomicInv
  <2> QED BY <2>1, <2>2, <2>3, <2>4, <2>5 DEF AtomicInv
<1>9. CASE EndChange(t)
  <2>1. /\ pc[t] = "noted"
        /\ pc' = [pc EXCEPT ![t] = "idle"]
        /\ kind' = [kind EXCEPT ![t] = "none"]
        /\ opid' = [opid EXCEPT ![t] = 0]
        /\ low' = [low EXCEPT ![t] = NoFile]
        /\ returned' = returned \union {opid[t]}
        /\ UNCHANGED <<lower, data, noted, mv, cut, compared, backing, wmap>>
    BY Zenon, <1>9 DEF EndChange, Return
  <2>2. opid[t] \in data[lower] /\ opid[t] \in Ops
    BY Zenon, <2>1, OpidType DEF AtomicInv
  <2>3. RegisterStep
    BY Zenon, <2>1, <2>2 DEF RegisterStep, Register!Next, Register!Ack
  <2>4. \A u \in Threads :
          /\ pc'[u] = IF u = t THEN "idle" ELSE pc[u]
          /\ kind'[u] = IF u = t THEN "none" ELSE kind[u]
          /\ low'[u] = IF u = t THEN NoFile ELSE low[u]
          /\ u # t => opid'[u] = opid[u]
    BY Zenon, <1>t, <2>1 DEF TaskType
  <2>5. \A n \in data[lower] :
          n \in noted \/ \E u \in Threads : pc'[u] = "applied" /\ opid'[u] = n
    BY <2>1, <2>4 DEF AtomicInv
  <2> QED BY <2>1, <2>2, <2>3, <2>4, <2>5 DEF AtomicInv
<1> QED BY <1>1, <1>2, <1>3, <1>4, <1>5, <1>6, <1>7, <1>8, <1>9
        DEF TaskStart, TaskStep

\* The kernel's cutover.  The swap replaces the object's file by one with the
\* same contents: SeqStable and CopyInv bound what the copy misses, the drained
\* readers leave no change uncounted, and from the comparison to the swap the
\* inode lock keeps every setattr out.
LEMMA CutoverAtomicInv ==
  ASSUME Protocol, AtomicInv, CutoverStep \/ RevokeMappings
  PROVE  AtomicInv' /\ RegisterStep
<1>t. TypeOK /\ InodeType /\ FileType /\ MoverType BY DEF Protocol, TypeOK
<1>b. cut # "idle" => mv.pc = "cutting" BY Zenon DEF Protocol, CallInv
<1>1. CASE DrainDone \/ DrainTimeout
  BY <1>1 DEF DrainDone, DrainTimeout, AtomicInv, RegisterStep
<1>2. CASE CutoverTimedOut \/ CutoverRaced \/ CutoverStale \/ CutoverFails
  <2>1. /\ UNCHANGED <<wmap, kind, low, lower, pc, opid, data, returned, noted,
                       backing>>
        /\ mv' = [mv EXCEPT !.pc = "refused"] /\ cut' = "idle"
    BY Zenon, <1>2 DEF CutoverTimedOut, CutoverRaced, CutoverStale, CutoverFails,
       CutoverGivesUp
  <2>2. mv'.pc = "refused" BY Zenon, <1>t, <2>1 DEF MoverType
  <2> QED BY <2>1, <2>2 DEF AtomicInv, RegisterStep
<1>3. CASE CutoverCheck
  <2>1. /\ UNCHANGED <<wmap, kind, low, lower, pc, opid, data, returned, noted, mv,
                       backing>>
        /\ cut = "drained" /\ cut' = "checked" /\ compared' = noted
    BY Zenon, <1>3 DEF CutoverCheck
  <2>2. \A t \in Threads : ~PastBarrier(t)
    BY <2>1 DEF Protocol, BarrierInv
  <2>3. data[lower] \subseteq noted
    BY Zenon, <2>2 DEF AtomicInv, PastBarrier
  <2> QED BY <2>1, <2>3 DEF AtomicInv, RegisterStep
<1>6. CASE CutoverResolve
  <2>1. /\ UNCHANGED <<wmap, kind, low, lower, pc, opid, data, returned, noted, mv,
                       compared, backing>>
        /\ cut = "checked" /\ cut' = "resolved"
    BY Zenon, <1>6 DEF CutoverResolve
  <2> QED BY <2>1 DEF AtomicInv, RegisterStep
<1>7. CASE CutoverSwap
  <2>1. /\ UNCHANGED <<wmap, kind, low, pc, opid, data, returned, noted, mv,
                       backing>>
        /\ cut' = "publish" /\ lower' = dest_path /\ cut = "resolved"
    BY Zenon, <1>7 DEF CutoverSwap
  <2>2. mv.pc = "cutting" BY Zenon, <1>b, <2>1
  <2>3. lower' = backing[mv.dst]
    BY <2>1, <2>2 DEF Protocol, PlaceInv
  <2>4. \A t \in Threads : ~PastBarrier(t)
    BY Zenon, <2>1 DEF Protocol, BarrierInv, Publishing
  <2>5. data[lower] \subseteq compared
    BY Zenon, <2>1 DEF AtomicInv
  <2>6. data[lower] \subseteq data[lower']
    BY <2>1, <2>3, <2>5 DEF Protocol, CopyInv
  <2>7. data[lower'] = data[lower]
    BY <2>1, <2>2, <2>3, <2>6, Zenon DEF AtomicInv
  <2>8. \A t \in Threads : kind[t] # "setattr"
    BY Zenon, <2>1, ConstantsAssumption DEF Protocol, OwnerInv, Publishing
  <2> QED BY <2>1, <2>4, <2>7, <2>8 DEF AtomicInv, RegisterStep, PastBarrier
<1>4. CASE CutoverPublish
  <2>1. /\ UNCHANGED <<wmap, kind, low, lower, pc, opid, data, returned, noted,
                       backing>>
        /\ mv' = [mv EXCEPT !.pc = "switched"] /\ cut' = "idle"
    BY <1>4 DEF CutoverPublish
  <2>2. mv'.pc = "switched" BY Zenon, <1>t, <2>1 DEF MoverType
  <2> QED BY Zenon, <2>1, <2>2 DEF AtomicInv, RegisterStep
<1>5. CASE RevokeMappings
  BY <1>5, AtomicUnchanged DEF RevokeMappings, atomicVars
<1> QED BY <1>1, <1>2, <1>3, <1>4, <1>5, <1>6, <1>7 DEF CutoverStep

\* While tierd copies, its destination is not the object's file.
LEMMA CopyApart ==
  ASSUME Protocol, mv.pc \in {"planned", "copying"}
  PROVE  /\ backing[mv.dst] # lower /\ lower <= nfiles
         /\ backing[mv.src] = lower /\ cut = "idle"
<1>1. cut = "idle" BY Zenon DEF Protocol, CallInv
<1>2. /\ current_tier = mv.src /\ mv.src # mv.dst
      /\ mv.src \in Tiers /\ mv.dst \in Tiers
      /\ backing[mv.src] = lower /\ backing[mv.src] <= nfiles
  BY <1>1 DEF Protocol, PlaceInv, TypeOK, MoverType
<1>3. lower # NoFile BY DEF Protocol, TypeOK, InodeType, Files, NoFile
<1> QED BY <1>1, <1>2, <1>3 DEF Protocol, PlaceInv

\* tierd writes to its copy only, and every other step of it leaves the data.
LEMMA WorkerAtomicInv ==
  ASSUME Protocol, AtomicInv, WorkerStep
  PROVE  AtomicInv' /\ RegisterStep
<1>t. TypeOK /\ InodeType /\ FileType /\ MoverType BY Zenon DEF Protocol, TypeOK
<1> DEFINE same == UNCHANGED <<wmap, kind, low, lower, pc, opid, returned,
                               noted, cut, compared>>
<1>1. CASE CopyStart
  <2>1. PICK f \in Files :
          /\ f = IF backing[mv.dst] = NoFile THEN nfiles + 1 ELSE backing[mv.dst]
          /\ data' = [data EXCEPT ![f] = {}]
    BY <1>1, Zenon DEF CopyStart
  <2>2. mv.pc = "planned" /\ mv'.pc = "copying" /\ same
    BY Zenon, <1>t, <1>1 DEF CopyStart, Goto, MoverType
  <2>3. f # lower
    BY <1>t, <2>1, <2>2, CopyApart DEF FileType, InodeType, Files
  <2>4. data'[lower] = data[lower] BY Zenon, <1>t, <2>1, <2>3 DEF FileType, InodeType
  <2> QED BY <2>2, <2>4 DEF AtomicInv, RegisterStep
<1>2. CASE CopyDone
  <2>1. /\ mv.pc = "copying" /\ same /\ UNCHANGED backing
        /\ mv' = [mv EXCEPT !.pc = "copied"]
        /\ data' = [data EXCEPT ![backing[mv.dst]] = data[backing[mv.src]]]
    BY <1>2 DEF CopyDone, Goto
  <2>2. backing[mv.dst] # lower /\ backing[mv.src] = lower
    BY <2>1, CopyApart
  <2>3. data'[lower] = data[lower] BY Zenon, <1>t, <2>1, <2>2 DEF FileType, InodeType
  <2>4. data'[backing[mv.dst]] = data[lower]
    BY <1>t, <1>2, <2>1, <2>2 DEF FileType, CopyDone, MoverType
  <2>5. mv'.dst = mv.dst BY Zenon, <1>t, <2>1 DEF MoverType
  <2> QED BY <2>1, <2>3, <2>4, <2>5 DEF AtomicInv, RegisterStep
<1>3. CASE Verify \/ InspectStable \/ MoveCutover
  <2>1. /\ UNCHANGED <<wmap, kind, low, lower, pc, opid, returned, noted, data,
                       backing>>
        /\ mv.pc \in {"copied", "stable", "verified"} /\ mv'.dst = mv.dst
        /\ cut' \in {cut, "drain", "sync"}
    BY Zenon, <1>t, <1>3 DEF Verify, InspectStable, MoveCutover, CutoverStart,
       Goto, MoverType
  <2>2. cut = "idle" BY Zenon, <2>1 DEF Protocol, CallInv
  <2> QED BY <2>1, <2>2 DEF AtomicInv, RegisterStep
<1>4. ASSUME UNCHANGED data, same,
             mv'.pc \notin {"copied", "stable", "verified", "cutting"}
      PROVE  AtomicInv' /\ RegisterStep
  BY Zenon, <1>4 DEF AtomicInv, RegisterStep
<1>5. ASSUME NEW dest \in Tiers, InspectAndIntend(dest)
      PROVE  AtomicInv' /\ RegisterStep
  BY Zenon, <1>4, <1>5 DEF InspectAndIntend
<1>6. CASE MovePlan BY Zenon, <1>t, <1>4, <1>6 DEF MovePlan, PlanAccept, Goto, MoverType
<1>7. CASE MovePlanRefused \/ CopyFails \/ MoveCutoverRefused \/ CleanupFails
           \/ Abort \/ RemoveSource \/ RecoverFails
  BY Zenon, <1>t, <1>4, <1>7 DEF MovePlanRefused, CopyFails, MoveCutoverRefused,
     CleanupFails, Abort, RemoveSource, RecoverFails, Goto, MoverType
<1>8. CASE MoveComplete
  BY <1>t, <1>4, <1>8 DEF MoveComplete, CompleteAccept, Goto, MoverType
<1>9. CASE RecoverInspect
  BY <1>t, <1>4, <1>9, Zenon DEF RecoverInspect, MoverType
<1>10. CASE RecoverSettle
  BY <1>t, <1>4, <1>10 DEF RecoverSettle, CompleteAccept, RollbackAccept, Goto,
     MoverType
<1> QED BY <1>1, <1>2, <1>3, <1>5, <1>6, <1>7, <1>8, <1>9, <1>10 DEF WorkerStep

\* Nothing is left to drain, and a lookup leaves the data alone.
LEMMA StageAtomicInv ==
  ASSUME Protocol, AtomicInv, StageStep
  PROVE  AtomicInv' /\ RegisterStep
<1>1. ~DrainPick /\ ~DrainUnlink /\ ~DrainClear
  BY DEF Protocol, PlaceInv, DrainPick, DrainUnlink, DrainClear
<1>2. LookupRetracks BY <1>1 DEF StageStep
<1> QED BY Zenon, <1>2, AtomicUnchanged DEF LookupRetracks, atomicVars

\* Every step keeps AtomicInv and is one of AtomicObject's or invisible to it.
LEMMA NextAtomicInv ==
  ASSUME Locked, Protocol, AtomicInv, [Next]_vars
  PROVE  AtomicInv' /\ RegisterStep
<1>1. CASE \E t \in Threads : TaskStart(t) \/ TaskStep(t)
  BY Zenon, <1>1, TaskAtomicInv
<1>2. CASE UNCHANGED vars BY <1>2, AtomicUnchanged DEF vars, atomicVars
<1> QED BY <1>1, <1>2, CutoverAtomicInv, WorkerAtomicInv, StageAtomicInv DEF Next

\* The object implements AtomicObject: a movement never changes what users'
\* changes made of it (smoothfs_movement_cutover against smoothfs_setattr).
THEOREM AtomicObjectHolds ==
  ASSUME Locked PROVE Spec => ImplementsAtomicObject
<1>1. CutoverInv => Protocol BY DEF CutoverInv, Protocol, Locked
<1>2. Init => AtomicInv /\ Register!Init BY Zenon, InitAtomicInv
<1>3. Protocol /\ AtomicInv /\ [Next]_vars
        => AtomicInv' /\ [Register!Next]_<<data[lower], returned>>
  BY NextAtomicInv DEF RegisterStep
<1> QED BY <1>1, <1>2, <1>3, CutoverInvHolds, PTL
        DEF Spec, ImplementsAtomicObject, Register!Spec

-----------------------------------------------------------------------------
(* Reads through descriptors that are never reopened.                      *)

\* A file a task may still read from is never written by tierd: its copies are
\* new files, because every movement ends with the other names removed.
ReadInv ==
  /\ \A t \in Threads : fdlow[t] <= nfiles /\ low[t] <= nfiles
  /\ \A r \in Tiers \ {current_tier, mv.src, mv.dst} : backing[r] = NoFile
  /\ mv.pc \in {"idle", "intent", "planned", "cleaned"}
        => \A r \in Tiers \ {current_tier} : backing[r] = NoFile
  /\ mv.pc = "copying"
        => \A t \in Threads : backing[mv.dst] \notin {fdlow[t], low[t]}
  /\ \A t \in Threads : fdgen[t] = cutover_gen => returned \subseteq data[fdlow[t]]
  /\ ReadsSeeReturned

\* What the argument about reads rests on.
ReadContext == Protocol /\ FdInv /\ AtomicInv /\ AtomicInv'

\* Every task begins with an open descriptor on the object's only file.
LEMMA InitReadInv == Init => ReadInv
<1> SUFFICES ASSUME Init PROVE ReadInv
  OBVIOUS
<1>1. /\ \A t \in Threads : /\ fdlow[t] = 1 /\ low[t] = 0 /\ pc[t] = "idle"
      /\ nfiles = 1 /\ returned = {} /\ mv.pc = "idle"
      /\ \A r \in Tiers \ {current_tier} : backing[r] = NoFile
  BY DEF Init, NoFile
<1> QED BY <1>1 DEF ReadInv, ReadsSeeReturned

\* The tasks: data only grows, and a new read takes a file that holds whatever
\* had returned.
LEMMA TaskReadInv ==
  ASSUME Locked, "open" \notin Kinds, ReadContext, ReadInv,
         NEW t \in Threads, TaskStart(t) \/ TaskStep(t)
  PROVE  ReadInv'
<1>t. InodeType /\ TaskType /\ FdType /\ FileType
  BY Zenon DEF ReadContext, Protocol, TypeOK
<1>l. lower \in Files /\ lower <= nfiles /\ nfiles \in Nat
  <2>1. current_tier \in Tiers /\ mv.dst \in Tiers
    BY DEF ReadContext, Protocol, TypeOK, InodeType, MoverType
  <2> QED BY <1>t, <2>1 DEF ReadContext, Protocol, PlaceInv, InodeType, FileType, Files
<1>z. NoFile <= nfiles BY <1>l DEF NoFile
<1>i. \A u \in Threads : fdlow[u] <= nfiles /\ low[u] <= nfiles BY Zenon DEF ReadInv
<1>c. mv.pc = "copying" => backing[mv.dst] # lower
  BY Zenon, CopyApart DEF ReadContext
<1>m. ~StartWrite(t) /\ ~StartChange(t) /\ ~Mmap(t) /\ ~MmapStore(t)
      /\ ~Munmap(t) /\ ~StagedTruncate(t) /\ ~StagedTruncateFails(t)
      /\ ~WriteUnlock(t) /\ ~WriteNote(t)
      /\ ~Close(t) /\ ~OpenLower(t) /\ ~OpenSampleGen(t)
  BY DEF StartWrite, StartChange, StartOp, Mmap, MmapStore, Munmap,
     StagedTruncate, StagedTruncateFails, WriteUnlock, WriteNote, Close, OpenLower, OpenSampleGen,
     Locked, ReadContext, AtomicInv, FdInv
<1> DEFINE place == UNCHANGED <<current_tier, mv, backing, nfiles, cutover_gen>>
<1>1. CASE StartSetattr(t)
  <2>1. /\ place /\ UNCHANGED <<fdlow, fdgen, data, returned, need>>
        /\ pc' = [pc EXCEPT ![t] = "begin"] /\ low' = [low EXCEPT ![t] = lower]
    BY Zenon, <1>1 DEF StartSetattr, StartOp
  <2>2. \A u \in Threads : low'[u] = (IF u = t THEN lower ELSE low[u])
                           /\ pc'[u] = (IF u = t THEN "begin" ELSE pc[u])
    BY Zenon, <1>t, <2>1 DEF TaskType
  <2>3. \A u \in Threads : fdlow'[u] <= nfiles' /\ low'[u] <= nfiles'
    BY Zenon, <1>i, <1>l, <2>1, <2>2
  <2>4. mv'.pc = "copying"
          => \A u \in Threads : backing'[mv'.dst] \notin {fdlow'[u], low'[u]}
    BY <1>c, <2>1, <2>2 DEF ReadInv
  <2>5. ReadsSeeReturned'
    BY <2>1, <2>2 DEF ReadInv, ReadsSeeReturned
  <2> QED BY Zenon, <2>1, <2>3, <2>4, <2>5 DEF ReadInv
<1>2. CASE ReadStart(t)
  <2>1. /\ place /\ UNCHANGED <<data, returned>>
        /\ pc' = [pc EXCEPT ![t] = "reading"]
        /\ low' = [low EXCEPT ![t] = LowerFile(t)]
        /\ fdlow' = [fdlow EXCEPT ![t] = LowerFile(t)]
        /\ fdgen' = [fdgen EXCEPT ![t] = cutover_gen]
        /\ need' = [need EXCEPT ![t] = returned]
    BY Zenon, <1>2 DEF ReadStart, Reissue
  <2>2. \A u \in Threads :
          /\ low'[u] = IF u = t THEN LowerFile(t) ELSE low[u]
          /\ fdlow'[u] = IF u = t THEN LowerFile(t) ELSE fdlow[u]
          /\ pc'[u] = IF u = t THEN "reading" ELSE pc[u]
          /\ need'[u] = IF u = t THEN returned ELSE need[u]
          /\ u # t => fdgen'[u] = fdgen[u]
    BY Zenon, <1>t, <2>1 DEF TaskType, FdType
  <2>3. LowerFile(t) <= nfiles
    BY Zenon, <1>l DEF LowerFile, ReadInv
  <2>4. mv.pc = "copying" => backing[mv.dst] # LowerFile(t)
    BY Zenon, <1>c DEF LowerFile, ReadInv
  <2>5. returned \subseteq data[LowerFile(t)]
    BY Zenon DEF LowerFile, ReadInv, ReadContext, AtomicInv
  <2>6. \A u \in Threads : fdlow'[u] <= nfiles' /\ low'[u] <= nfiles'
    BY <1>i, <2>1, <2>2, <2>3
  <2>7. mv'.pc = "copying"
          => \A u \in Threads : backing'[mv'.dst] \notin {fdlow'[u], low'[u]}
    BY <2>1, <2>2, <2>4 DEF ReadInv
  <2>8. \A u \in Threads : fdgen'[u] = cutover_gen'
          => returned' \subseteq data'[fdlow'[u]]
    BY <2>1, <2>2, <2>5 DEF ReadInv
  <2>9. ReadsSeeReturned'
    BY <2>1, <2>2, <2>5 DEF ReadInv, ReadsSeeReturned
  <2> QED BY Zenon, <2>1, <2>6, <2>7, <2>8, <2>9 DEF ReadInv
<1>3. CASE ReadEnd(t) \/ Interrupt(t) \/ ChangeFails(t)
  <2>1. /\ place /\ UNCHANGED <<fdlow, fdgen, data, returned>>
        /\ pc' = [pc EXCEPT ![t] = "idle"] /\ low' = [low EXCEPT ![t] = NoFile]
        /\ \A u \in Threads \ {t} : need'[u] = need[u]
    BY Zenon, <1>t, <1>3 DEF ReadEnd, Interrupt, ChangeFails, Return, TaskType
  <2>2. \A u \in Threads : low'[u] = (IF u = t THEN NoFile ELSE low[u])
                           /\ pc'[u] = (IF u = t THEN "idle" ELSE pc[u])
    BY Zenon, <1>t, <2>1 DEF TaskType
  <2>3. mv.pc = "copying" => backing[mv.dst] # NoFile
    BY Zenon DEF ReadContext, Protocol, PlaceInv
  <2>4. \A u \in Threads : fdlow'[u] <= nfiles' /\ low'[u] <= nfiles'
    BY <1>i, <1>z, <2>1, <2>2
  <2>5. mv'.pc = "copying"
          => \A u \in Threads : backing'[mv'.dst] \notin {fdlow'[u], low'[u]}
    BY Zenon, <2>1, <2>2, <2>3 DEF ReadInv
  <2>6. ReadsSeeReturned'
    BY <2>1, <2>2 DEF ReadInv, ReadsSeeReturned
  <2> QED BY Zenon, <2>1, <2>4, <2>5, <2>6 DEF ReadInv
<1>4. CASE SrcuLock(t) \/ CheckState(t) \/ Sleep(t) \/ Unpark(t) \/ NoteChange(t)
  <2>1. pc[t] \in InProgress
    BY Zenon, <1>4 DEF SrcuLock, CheckState, Sleep, Unpark, NoteChange, InProgress
  <2>2. kind[t] = "setattr" BY Zenon, <2>1, OnlySetattr DEF ReadContext
  <2>3. place /\ UNCHANGED <<fdlow, fdgen, data, returned, need, low>>
    BY Zenon, <1>4, <2>2 DEF SrcuLock, CheckState, Sleep, Unpark, NoteChange
  <2>4. \A u \in Threads : pc'[u] = "reading" => pc[u] = "reading"
    BY <1>t, <1>4 DEF SrcuLock, CheckState, Sleep, Unpark, NoteChange, TaskType
  <2> QED BY Zenon, <2>3, <2>4 DEF ReadInv, ReadsSeeReturned
<1>5. CASE ApplyChange(t)
  <2>1. place /\ UNCHANGED <<fdlow, fdgen, returned, need, low>>
    BY Zenon, <1>5 DEF ApplyChange
  <2>2. \A f \in Files : data[f] \subseteq data'[f]
    BY Zenon, <1>t, <1>5 DEF ApplyChange, FileType
  <2>3. \A u \in Threads : pc'[u] = "reading" => pc[u] = "reading" /\ low[u] \in Files
    BY <1>t, <1>5 DEF ApplyChange, TaskType, ReadContext, Protocol, OpInv
  <2>4. \A u \in Threads : fdlow[u] \in Files BY Zenon, <1>t DEF FdType
  <2> QED BY Zenon, <2>1, <2>2, <2>3, <2>4 DEF ReadInv, ReadsSeeReturned
<1>6. CASE EndChange(t)
  <2>1. /\ place /\ UNCHANGED <<fdlow, fdgen, data, need>>
        /\ pc[t] = "noted" /\ pc' = [pc EXCEPT ![t] = "idle"]
        /\ low' = [low EXCEPT ![t] = NoFile] /\ UNCHANGED lower
    BY Zenon, <1>6 DEF EndChange, Return
  <2>2. \A u \in Threads : low'[u] = (IF u = t THEN NoFile ELSE low[u])
                           /\ pc'[u] = (IF u = t THEN "idle" ELSE pc[u])
    BY <1>t, <2>1 DEF TaskType
  <2>3. mv.pc = "copying" => backing[mv.dst] # NoFile
    BY DEF ReadContext, Protocol, PlaceInv
  <2>4. cut # "publish"
    BY <2>1 DEF ReadContext, Protocol, BarrierInv, PastBarrier, Publishing
  <2>5. \A u \in Threads : fdgen[u] = cutover_gen => returned' \subseteq data[fdlow[u]]
    BY <2>1, <2>4, Zenon DEF ReadContext, FdInv, AtomicInv
  <2>6. \A u \in Threads : fdlow'[u] <= nfiles' /\ low'[u] <= nfiles'
    BY Zenon, <1>i, <1>z, <2>1, <2>2
  <2>7. mv'.pc = "copying"
          => \A u \in Threads : backing'[mv'.dst] \notin {fdlow'[u], low'[u]}
    BY <2>1, <2>2, <2>3, Zenon DEF ReadInv
  <2>8. ReadsSeeReturned'
    BY <2>1, <2>2 DEF ReadInv, ReadsSeeReturned
  <2> QED BY Zenon, <2>1, <2>5, <2>6, <2>7, <2>8 DEF ReadInv
<1> QED BY <1>m, <1>1, <1>2, <1>3, <1>4, <1>5, <1>6 DEF TaskStart, TaskStep

\* A switch makes every generation old, so no descriptor is trusted after it.
LEMMA CutoverReadInv ==
  ASSUME ReadContext, ReadInv, CutoverStep \/ RevokeMappings
  PROVE  ReadInv'
<1>t. InodeType /\ FdType /\ MoverType BY Zenon DEF ReadContext, Protocol, TypeOK
<1>b. cut # "idle" => mv.pc = "cutting" BY Zenon DEF ReadContext, Protocol, CallInv
<1>1. CASE DrainDone \/ DrainTimeout \/ CutoverCheck \/ CutoverResolve
           \/ CutoverSwap \/ RevokeMappings
  BY Zenon, <1>1 DEF DrainDone, DrainTimeout, CutoverCheck, CutoverResolve,
     CutoverSwap, RevokeMappings, ReadInv, ReadsSeeReturned
<1>2. CASE CutoverTimedOut \/ CutoverRaced \/ CutoverStale \/ CutoverFails
  <2>1. /\ UNCHANGED <<fdlow, fdgen, low, nfiles, current_tier, backing, data,
                       cutover_gen, returned, need, pc>>
        /\ mv' = [mv EXCEPT !.pc = "refused"]
    BY Zenon, <1>2 DEF CutoverTimedOut, CutoverRaced, CutoverStale, CutoverFails,
       CutoverGivesUp
  <2>2. mv'.pc = "refused" /\ mv'.src = mv.src /\ mv'.dst = mv.dst
    BY Zenon, <1>t, <2>1 DEF MoverType
  <2> QED BY Zenon, <2>1, <2>2 DEF ReadInv, ReadsSeeReturned
<1>3. CASE CutoverPublish
  <2>1. /\ UNCHANGED <<fdlow, fdgen, low, nfiles, backing, data, returned, need,
                       pc>>
        /\ cutover_gen' = cutover_gen + 1
        /\ current_tier' = intended_tier
        /\ mv' = [mv EXCEPT !.pc = "switched"]
        /\ cut = "publish"
    BY Zenon, <1>3 DEF CutoverPublish, PublishPlacement
  <2>2. mv'.pc = "switched" /\ mv'.src = mv.src /\ mv'.dst = mv.dst
    BY Zenon, <1>t, <2>1 DEF MoverType
  <2>3. current_tier = mv.src /\ current_tier' = mv.dst
    BY Zenon, <1>b, <2>1 DEF ReadContext, Protocol, PlaceInv, OwnerInv
  <2>4. \A t \in Threads : fdgen[t] # cutover_gen'
    BY <1>t, <2>1 DEF ReadContext, FdInv, FdType, InodeType
  <2> QED BY Zenon, <2>1, <2>2, <2>3, <2>4 DEF ReadInv, ReadsSeeReturned
<1> QED BY <1>1, <1>2, <1>3 DEF CutoverStep

\* tierd's copy is a new file, and nothing but the copy is written.
LEMMA WorkerReadInv ==
  ASSUME ReadContext, ReadInv, WorkerStep
  PROVE  ReadInv'
<1>t. InodeType /\ FdType /\ TaskType /\ FileType /\ MoverType
  BY DEF ReadContext, Protocol, TypeOK
<1> DEFINE same == UNCHANGED <<fdlow, fdgen, low, current_tier, cutover_gen,
                               returned, need, pc>>
           paths(pcs) == mv'.pc \in pcs /\ mv'.src = mv.src /\ mv'.dst = mv.dst
           tail == {"copied", "stable", "verified", "cutting", "refused", "switched",
                    "failed", "recovering", "completing", "undoing"}
<1>r. \A t \in Threads : pc[t] = "reading" => low[t] \in Files
  BY <1>t DEF TaskType, ReadContext, Protocol, OpInv
<1>1. ASSUME NEW dest \in Tiers, InspectAndIntend(dest) PROVE ReadInv'
  <2>1. /\ same /\ UNCHANGED <<backing, data, nfiles>>
        /\ mv.pc = "idle" /\ mv'.pc = "intent"
    BY Zenon, <1>1 DEF InspectAndIntend
  <2> QED BY <2>1 DEF ReadInv, ReadsSeeReturned
<1>2. CASE MovePlan
  <2>1. /\ same /\ UNCHANGED <<backing, data, nfiles>>
        /\ mv.pc = "intent" /\ paths({"planned"})
    BY Zenon, <1>t, <1>2 DEF MovePlan, PlanAccept, Goto, MoverType
  <2> QED BY <2>1 DEF ReadInv, ReadsSeeReturned
<1>3. CASE CopyStart
  <2>1. mv.pc = "planned" /\ paths({"copying"}) /\ same /\ backing[mv.src] # NoFile
    BY Zenon, <1>t, <1>3 DEF CopyStart, Goto, MoverType
  <2>2. /\ mv.dst \in Tiers /\ mv.src \in Tiers /\ current_tier = mv.src
        /\ mv.src # mv.dst
    BY Zenon, <1>t, <2>1 DEF ReadContext, Protocol, PlaceInv, MoverType
  <2>3. backing[mv.dst] = NoFile BY Zenon, <2>1, <2>2 DEF ReadInv
  <2>4. /\ nfiles + 1 \in Files /\ nfiles' = nfiles + 1
        /\ backing' = [backing EXCEPT ![mv.dst] = nfiles + 1]
        /\ data' = [data EXCEPT ![nfiles + 1] = {}]
    BY <1>t, <1>3, <2>3 DEF CopyStart, FileType, Files
  <2>5. /\ backing'[mv.dst] = nfiles + 1
        /\ \A r \in Tiers \ {mv.dst} : backing'[r] = backing[r]
    BY Zenon, <1>t, <2>2, <2>4 DEF FileType
  <2>6. \A t \in Threads : fdlow[t] \in Files /\ low[t] \in Nat /\ nfiles \in Nat
    BY <1>t DEF FdType, TaskType, FileType, Files, NoFile
  <2>7. \A f \in Files : f <= nfiles => data'[f] = data[f]
    BY <1>t, <2>4 DEF FileType, Files
  <2>8. \A t \in Threads : /\ fdlow[t] <= nfiles /\ low[t] <= nfiles
                           /\ fdlow[t] <= nfiles' /\ low[t] <= nfiles'
                           /\ backing'[mv.dst] \notin {fdlow[t], low[t]}
    BY <2>4, <2>5, <2>6 DEF ReadInv, Files
  <2>9. ReadsSeeReturned'
    BY <1>r, <2>1, <2>7, <2>8 DEF ReadInv, ReadsSeeReturned
  <2>10. \A t \in Threads : fdgen[t] = cutover_gen
           => returned \subseteq data'[fdlow[t]]
    BY Zenon, <2>6, <2>7, <2>8 DEF ReadInv
  <2> QED BY Zenon, <2>1, <2>5, <2>8, <2>9, <2>10 DEF ReadInv
<1>4. CASE CopyDone
  <2>1. /\ mv.pc = "copying" /\ paths({"copied"}) /\ same
        /\ UNCHANGED <<backing, nfiles>>
        /\ data' = [data EXCEPT ![backing[mv.dst]] = data[backing[mv.src]]]
    BY Zenon, <1>t, <1>4 DEF CopyDone, Goto, MoverType
  <2>2. \A f \in Files : f # backing[mv.dst] => data'[f] = data[f]
    BY <1>t, <2>1 DEF FileType
  <2>3. \A t \in Threads : fdlow[t] \in Files BY Zenon, <1>t DEF FdType
  <2>4. ReadsSeeReturned'
    BY Zenon, <1>r, <2>1, <2>2 DEF ReadInv, ReadsSeeReturned
  <2>5. \A t \in Threads : fdgen[t] = cutover_gen
          => returned \subseteq data'[fdlow[t]]
    BY Zenon, <2>1, <2>2, <2>3 DEF ReadInv
  <2> QED BY Zenon, <2>1, <2>4, <2>5 DEF ReadInv
<1>5. ASSUME same, UNCHANGED <<backing, data, nfiles>>, paths(tail) PROVE ReadInv'
  BY <1>5 DEF ReadInv, ReadsSeeReturned
<1>6. CASE Verify \/ InspectStable \/ MoveCutover \/ MovePlanRefused \/ CopyFails
           \/ MoveCutoverRefused \/ CleanupFails \/ RecoverInspect
  BY <1>t, <1>5, <1>6, Zenon DEF Verify, InspectStable, MoveCutover, CutoverStart,
     MovePlanRefused, CopyFails, MoveCutoverRefused, CleanupFails,
     RecoverInspect, Goto, MoverType
<1>7. CASE MoveComplete
  <2>1. /\ same /\ UNCHANGED <<backing, data, nfiles>>
        /\ mv.pc = "cleaned" /\ paths({"idle"})
    BY Zenon, <1>t, <1>7 DEF MoveComplete, CompleteAccept, Goto, MoverType
  <2> QED BY Zenon, <2>1 DEF ReadInv, ReadsSeeReturned
<1>8. ASSUME same, UNCHANGED <<data, nfiles>>, NEW r \in Tiers,
             backing' = [backing EXCEPT ![r] = NoFile], paths(tail) PROVE ReadInv'
  <2>1. \A s \in Tiers : backing'[s] \in {backing[s], NoFile}
    BY <1>t, <1>8 DEF FileType
  <2> QED BY Zenon, <1>8, <2>1 DEF ReadInv, ReadsSeeReturned
<1>9. CASE Abort BY <1>t, <1>8, <1>9, Zenon DEF Abort, Goto, MoverType
<1>10. CASE RecoverFails
  BY <1>t, <1>8, <1>10, Zenon DEF RecoverFails, RemoveOther, Goto, MoverType
<1>11. CASE RemoveSource
  <2>1. /\ same /\ UNCHANGED <<data, nfiles>> /\ mv.pc = "switched"
        /\ backing' = [backing EXCEPT ![mv.src] = NoFile] /\ paths({"cleaned"})
    BY Zenon, <1>t, <1>11 DEF RemoveSource, Goto, MoverType
  <2>2. current_tier = mv.dst BY Zenon, <2>1 DEF ReadContext, Protocol, PlaceInv
  <2>3. \A s \in Tiers : backing'[s] = IF s = mv.src THEN NoFile ELSE backing[s]
    BY Zenon, <1>t, <2>1 DEF FileType
  <2> QED BY Zenon, <2>1, <2>2, <2>3 DEF ReadInv, ReadsSeeReturned
<1>12. CASE RecoverSettle
  <2>1. /\ same /\ UNCHANGED <<data, nfiles>> /\ mv.pc \in Recovering
        /\ RemoveOther /\ paths({"idle"})
    BY Zenon, <1>t, <1>12 DEF RecoverSettle, CompleteAccept, RollbackAccept, Goto,
       MoverType
  <2>2. mv.keep = current_tier /\ current_tier \in {mv.src, mv.dst}
    BY <2>1 DEF ReadContext, Protocol, PlaceInv
  <2>3. \A s \in Tiers : /\ s \in {mv.src, mv.dst} \ {current_tier}
                              => backing'[s] = NoFile
                         /\ backing'[s] \in {backing[s], NoFile}
    BY <1>t, <2>1, <2>2, Zenon DEF FileType, RemoveOther
  <2> QED BY Zenon, <2>1, <2>2, <2>3 DEF ReadInv, ReadsSeeReturned
<1> QED BY <1>1, <1>2, <1>3, <1>4, <1>6, <1>7, <1>9, <1>10, <1>11, <1>12
        DEF WorkerStep

\* Every step keeps ReadInv.
LEMMA NextReadInv ==
  ASSUME Locked, "open" \notin Kinds, ReadContext, ReadInv, [Next]_vars
  PROVE  ReadInv'
<1>1. CASE \E t \in Threads : TaskStart(t) \/ TaskStep(t)
  BY <1>1, TaskReadInv
<1>2. CASE StageStep
  <2>1. ~DrainPick /\ ~DrainUnlink /\ ~DrainClear /\ ~LookupRetracks
    BY Zenon DEF ReadContext, Protocol, PlaceInv, OwnerInv, DrainPick, DrainUnlink,
       DrainClear, LookupRetracks
  <2> QED BY Zenon, <1>2, <2>1 DEF StageStep
<1>3. CASE UNCHANGED vars BY <1>3 DEF vars, ReadInv, ReadsSeeReturned
<1> QED BY <1>1, <1>2, <1>3, CutoverReadInv, WorkerReadInv DEF Next

\* A read through a descriptor (smoothfs_read_iter, smoothfs_lower_file)
\* returns every change that had returned before the read began, also from a
\* file that a cutover replaces meanwhile.
THEOREM ReadsSeeReturnedHolds ==
  ASSUME Locked, "open" \notin Kinds PROVE Spec => []ReadsSeeReturned
<1>1. CutoverInv => Protocol /\ FdInv BY DEF CutoverInv, Protocol, Locked
<1>2. Init => AtomicInv /\ ReadInv BY Zenon, InitAtomicInv, InitReadInv
<1>3. Protocol /\ FdInv /\ (AtomicInv /\ ReadInv) /\ [Next]_vars
        => (AtomicInv /\ ReadInv)'
  BY Zenon, NextAtomicInv, NextReadInv DEF ReadContext
<1>4. ReadInv => ReadsSeeReturned BY DEF ReadInv
<1> QED BY <1>1, <1>2, <1>3, <1>4, CutoverInvHolds, PTL DEF Spec
=============================================================================
