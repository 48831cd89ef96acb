---------------------------- MODULE MoverProofs ----------------------------
(***************************************************************************)
(* tierd across restarts, for any number of tiers, workers, plans, writes  *)
(* and restarts.                                                           *)
(***************************************************************************)
EXTENDS KillProofs, WellFoundedInduction

\* The first tier of a set of tiers is one of them.
LEMMA FirstTierIn ==
  ASSUME NEW S \in SUBSET Tiers
  PROVE  /\ S = {} => FirstTier(S) = NoTier
         /\ S # {} => FirstTier(S) \in S
<1>1. CASE S = {} BY <1>1 DEF FirstTier
<1>2. CASE S # {}
  <2> DEFINE R == OpToRel(<, Nat)
  <2>1. \A x, y \in Nat : x < y => <<x, y>> \in R
    BY DEF OpToRel
  <2>2. IsWellFoundedOn(R, Nat) BY NatLessThanWellFounded, Zenon
  <2>3. S \subseteq Nat BY LogConstants DEF Tiers
  <2> HIDE DEF R
  <2>4. \E t \in S : \A u \in S : ~(<<u, t>> \in R)
    BY <1>2, <2>2, <2>3, WFMin, Zenon
  <2>5. \E t \in S : \A u \in S : t <= u
    <3>1. PICK t \in S : \A u \in S : ~(<<u, t>> \in R) BY <2>4
    <3>2. \A u \in S : ~(u < t) BY <2>1, <2>3, <3>1, Zenon
    <3> QED BY <2>3, <3>2
  <2> QED BY <1>2, <2>5 DEF FirstTier
<1> QED BY <1>1, <1>2

\* Replay leaves a record of the types the later steps of a mount read.
LEMMA ReplayType ==
  ASSUME NEW r \in Records \union {NoRecord}, NEW logged \in BOOLEAN,
         logged => r \in Records, NEW offered \in SUBSET Tiers
  PROVE  ReplayRecord(r, logged, offered) \in ReplayRecords
<1> DEFINE x == ReplayRecord(r, logged, offered)
<1>1. FirstTier(offered) \in Places
  BY FirstTierIn DEF Places
<1>2. FirstTier(offered \intersect {AuthoritativeTier(r)}) \in Places
  BY FirstTierIn DEF Places
<1>3. (logged => r.intended \in Tiers /\ r.state \in States)
  BY DEF Records
<1>4. "placed" \in States BY DEF States
<1> QED BY <1>1, <1>2, <1>3, <1>4, ZeroTier DEF ReplayRecord, ReplayRecords

\* Minting an OID leaves a copy a copy.
LEMMA MintType ==
  ASSUME NEW files \in [Tiers -> Copies]
  PROVE  /\ MintOids(files) \in [Tiers -> Copies]
         /\ \A t \in Tiers : MintOid(files, t) \in [Tiers -> Copies]
<1>1. \A f \in Copies : Minted(f) \in Copies
  BY DEF Minted, Copies
<1> QED BY <1>1 DEF MintOids, MintOid

\* A rebuilt index entry is a tier or nothing.
LEMMA RebuiltType ==
  ASSUME NEW r \in Records \union {NoRecord}
  PROVE  RebuiltEntry(r, r # NoRecord) \in Tiers \union {NoEntry, NoIndex}
<1>1. ReplayRecord(r, r # NoRecord, Found) \in ReplayRecords
  BY ReplayType, Zenon DEF Found
<1> QED BY <1>1 DEF RebuiltEntry, ReplayRecords, Places

\* What the log says last is a record, if it says anything.
LEMMA LastLoggedType ==
  ASSUME KernelType PROVE LastLogged \in Records \union {NoRecord}
  BY DEF KernelType, LastLogged

\* An inode as lookup and replay build it.
LEMMA InodeType ==
  ASSUME NEW s \in States, NEW t \in Tiers, NEW i \in Tiers
  PROVE  Inode(s, t, i, 0) \in Inodes
  BY LogConstants, MoverConstants DEF Inode, Inodes

\* The pool starts with one placed file.
LEMMA InitKernelType == Init => KernelType
<1> SUFFICES ASSUME Init PROVE KernelType BY Zenon
<1>1. PICK t \in Tiers :
         /\ ko = Inode("placed", t, t, 0)
         /\ name = [u \in Tiers |-> IF u = t THEN [kind |-> "whole",
                                        data |-> {}, oid |-> "own"]
                                    ELSE Absent]
         /\ row = [state |-> "placed", cur |-> t, intended |-> NoTier,
                   seq |-> 0]
         /\ pindex \in {t, NoIndex}
  BY Zenon DEF Init
<1>2. name \in [Tiers -> Copies] BY Zenon, <1>1 DEF Copies, Absent
<1>3. ko \in Inodes
  BY <1>1, InodeType DEF States
<1>4. rec \in ReplayRecords
  <2>1. Indexed \subseteq Tiers BY DEF Indexed
  <2>2. rec = ReplayRecord(NoRecord, FALSE, Indexed) BY Zenon DEF Init
  <2> QED BY <2>1, <2>2, ReplayType, Zenon
<1>5. /\ mounted = TRUE /\ disk = name /\ last = NoRecord /\ tail = <<>>
      /\ wrote = 0
  BY DEF Init
<1> QED BY <1>1, <1>2, <1>3, <1>4, <1>5, LogConstants DEF KernelType

\* tierd starts with an empty queue and a placed row.
LEMMA InitTierdType == Init => TierdType
  BY LogConstants, MoverConstants
  DEF Init, TierdType, WorkersType, Idle, NoRecovery, NoPlan, Places, WorkerPcs, States

\* A record queued for the log.
LEMMA RecordType ==
  ASSUME NEW s \in States, NEW t \in Tiers, NEW i \in Tiers
  PROVE  Record(s, t, i) \in Records
  BY Zenon DEF Record, Records

\* The log's writeback, the index worker, lookups and users' writes keep the
\* types of the kernel's state.
LEMMA KernelOwnType ==
  ASSUME KernelType,
         FlushRecord \/ PathIndexRebuild \/ InstantiateOne \/ PathLookup
         \/ UserWrite
  PROVE  KernelType'
<1>1. CASE FlushRecord
  <2>1. Head(tail) \in Records /\ Tail(tail) \in Seq(Records)
    BY <1>1 DEF FlushRecord, KernelType
  <2> QED BY Zenon, <1>1, <2>1 DEF FlushRecord, KernelType
<1>2. CASE PathIndexRebuild
  <2>1. pindex' \in Tiers \union {NoEntry, NoIndex}
    BY Zenon, <1>2, LastLoggedType, RebuiltType DEF PathIndexRebuild
  <2>2. name' \in [Tiers -> Copies] /\ disk' \in [Tiers -> Copies]
    BY Zenon, <1>2, MintType DEF PathIndexRebuild, KernelType
  <2> QED BY Zenon, <1>2, <2>1, <2>2 DEF PathIndexRebuild, KernelType
<1>3. CASE InstantiateOne
  <2> DEFINE t == ResolvedTier
             i == IF rec.normalized THEN t ELSE rec.intended
  <2>1. t \in Tiers /\ i \in Tiers /\ rec.state \in States
    BY <1>3 DEF InstantiateOne, Resolvable, ResolvedTier, KernelType,
       ReplayRecords, Places
  <2>2. name' \in [Tiers -> Copies] /\ disk' \in [Tiers -> Copies]
    BY <1>3, <2>1, MintType, Zenon DEF InstantiateOne, KernelType
  <2>3. ko' \in Inodes
    <3>1. ko' = [Inode(rec.state, t, i, 0) EXCEPT !.alien = name[t].oid # "own"]
      BY Zenon, <1>3 DEF InstantiateOne
    <3>2. Inode(rec.state, t, i, 0) \in Inodes
      BY Zenon, <2>1, InodeType
    <3> HIDE DEF t, i
    <3> QED BY <3>1, <3>2, Zenon DEF Inodes
  <2>4. tail' \in Seq(Records)
    <3>1. Record("placed", t, t) \in Records
      BY <2>1, RecordType, Zenon DEF States
    <3>2. tail' = tail \o IF rec.normalized THEN <<Record("placed", t, t)>>
                                            ELSE <<>>
      BY Zenon, <1>3 DEF InstantiateOne, PlacementRecords
    <3> HIDE DEF t, i
    <3> QED BY <3>1, <3>2 DEF KernelType
  <2> QED BY Zenon, <1>3, <2>2, <2>3, <2>4 DEF InstantiateOne, KernelType
<1>4. CASE PathLookup
  <2> DEFINE t == FirstTier({u \in Tiers : name[u].kind # "absent"})
  <2>1. t \in Tiers
    BY <1>4, FirstTierIn DEF PathLookup
  <2>2. name' \in [Tiers -> Copies] /\ disk' \in [Tiers -> Copies]
    BY <1>4, <2>1, MintType, Zenon DEF PathLookup, KernelType
  <2>3. \/ ko' = Inode("placed", t, t, 0)
           /\ tail' = tail \o IF t = 0 THEN <<>> ELSE <<Record("placed", t, t)>>
        \/ UNCHANGED <<ko, tail>>
    BY Zenon, <1>4 DEF PathLookup, PlacementRecords
  <2> HIDE DEF t
  <2>4. ko' \in Inodes
    <3>1. Inode("placed", t, t, 0) \in Inodes
      BY Zenon, <2>1, InodeType DEF States
    <3> QED BY <2>3, <3>1 DEF KernelType
  <2>5. tail' \in Seq(Records)
    <3>1. Record("placed", t, t) \in Records
      BY Zenon, <2>1, RecordType DEF States
    <3>2. tail \in Seq(Records) BY DEF KernelType
    <3>3. tail' \in {tail, tail \o <<>>, tail \o <<Record("placed", t, t)>>}
      BY Zenon, <2>3
    <3> QED BY <3>1, <3>2, <3>3
  <2> QED BY Zenon, <1>4, <2>2, <2>4, <2>5 DEF PathLookup, KernelType
<1>5. CASE UserWrite
  <2>1. wrote' \in 0 .. MaxWrites /\ wrote + 1 \in Writes
    BY <1>5, LogConstants DEF UserWrite, KernelType, Writes
  <2>2. name' \in [Tiers -> Copies]
    <3>1. /\ ko.tier \in Tiers /\ name \in [Tiers -> Copies]
          /\ \/ name' = name
             \/ name' = [name EXCEPT ![ko.tier].data = @ \union {wrote + 1}]
      BY <1>5, Zenon DEF UserWrite, KernelType, Inodes
    <3> QED BY <2>1, <3>1 DEF Copies
  <2>3. disk' \in [Tiers -> Copies]
    BY <1>5, <2>2 DEF UserWrite, KernelType, Inodes
  <2>4. ko' \in Inodes
    <3>1. ko' = [ko EXCEPT !.writes = @ + 1] BY Zenon, <1>5 DEF UserWrite
    <3> QED BY <3>1 DEF KernelType, Inodes
  <2> QED BY Zenon, <1>5, <2>1, <2>2, <2>3, <2>4 DEF UserWrite, KernelType
<1> QED BY Zenon, <1>1, <1>2, <1>3, <1>4, <1>5

\* The movement commands keep the types of the kernel's state.
LEMMA CommandType ==
  ASSUME KernelType,
         \/ \E d \in Tiers, s \in 1 .. MaxPlans : PlanAccept(d, s)
         \/ \E s \in 1 .. MaxPlans, q \in Nat : CutoverBegin(s, q)
         \/ CutoverSwitch
         \/ \E s \in {"copy_verified", "failed"} : CutoverUndo(s)
         \/ \E s \in 0 .. MaxPlans : CompleteAccept(s) \/ RollbackAccept(s)
  PROVE  KernelType'
<1>0. ko \in Inodes /\ tail \in Seq(Records) BY DEF KernelType
<1>1. \A s \in States, t \in Tiers, i \in Tiers :
         tail \o <<Record(s, t, i)>> \in Seq(Records)
  BY <1>0, RecordType
<1>2. ko.tier \in Tiers /\ ko.intended \in Tiers
  BY <1>0 DEF Inodes
<1>3. CASE \E d \in Tiers, s \in 1 .. MaxPlans : PlanAccept(d, s)
  <2>1. PICK d \in Tiers, s \in 1 .. MaxPlans : PlanAccept(d, s) BY <1>3
  <2>2. ko' = ko \/ ko' = [ko EXCEPT !.state = "plan_accepted", !.intended = d,
                                    !.seq = s]
    BY <2>1, Zenon DEF PlanAccept, Settle
  <2>3. ko' \in Inodes
    <3>1. "plan_accepted" \in States /\ s \in 0 .. MaxPlans
      BY DEF States, PreCutover
    <3> QED BY <1>0, <2>2, <3>1, Zenon DEF Inodes
  <2>4. tail' \in Seq(Records)
    BY <1>1, <1>2, <2>1, Zenon DEF PlanAccept, PlacementRecords, States,
       PreCutover
  <2> QED BY <2>1, <2>3, <2>4, Zenon DEF PlanAccept, KernelType
<1>4. CASE \E s \in 1 .. MaxPlans, q \in Nat : CutoverBegin(s, q)
  <2>1. PICK s \in 1 .. MaxPlans, q \in Nat : CutoverBegin(s, q)
    BY <1>4
  <2>2. ko' = [ko EXCEPT !.state = "cutover_in_progress", !.wseq = q]
    BY <2>1, Zenon DEF CutoverBegin
  <2>3. ko' \in Inodes BY <1>0, <2>2, Zenon DEF Inodes, States
  <2>4. tail' \in Seq(Records)
    BY <1>1, <1>2, <2>1, Zenon DEF CutoverBegin, PlacementRecords, States
  <2> QED BY <2>1, <2>3, <2>4, Zenon DEF CutoverBegin, KernelType
<1>5. CASE CutoverSwitch
  <2>1. ko' = [ko EXCEPT !.state = "switched", !.tier = ko.intended,
                         !.wseq = 0, !.linked = TRUE]
    BY <1>5 DEF CutoverSwitch
  <2>2. ko' \in Inodes
    <3>1. "switched" \in States /\ 0 \in 0 .. MaxWrites
      BY LogConstants DEF States
    <3> QED BY <1>0, <1>2, <2>1, <3>1, Zenon DEF Inodes
  <2>3. tail' \in Seq(Records)
    BY <1>1, <1>2, <1>5, Zenon DEF CutoverSwitch, PlacementRecords, States
  <2>4. name' \in [Tiers -> Copies]
    <3>1. name[ko.intended] \in Copies /\ name \in [Tiers -> Copies]
      BY Zenon, <1>2 DEF KernelType
    <3>2. [name[ko.intended] EXCEPT !.oid = "own"] \in Copies
      BY Zenon, <3>1 DEF Copies
    <3>3. name' = [name EXCEPT ![ko.intended] = [@ EXCEPT !.oid = "own"]]
      BY Zenon, <1>5 DEF CutoverSwitch
    <3> QED BY Zenon, <1>2, <3>1, <3>2, <3>3
  <2>5. disk' \in [Tiers -> Copies]
    BY Zenon, <1>2, <1>5, <2>4 DEF CutoverSwitch, KernelType
  <2> QED BY Zenon, <1>5, <2>2, <2>3, <2>4, <2>5 DEF CutoverSwitch, KernelType
<1>6. CASE \E s \in {"copy_verified", "failed"} : CutoverUndo(s)
  <2>1. PICK s \in {"copy_verified", "failed"} : CutoverUndo(s) BY Zenon, <1>6
  <2>2. ko' = [ko EXCEPT !.state = s, !.wseq = 0] /\ s \in States
    BY <2>1 DEF CutoverUndo, States, PreCutover
  <2>3. ko' \in Inodes
    <3>1. 0 \in 0 .. MaxWrites BY LogConstants
    <3> QED BY <1>0, <2>2, <3>1, Zenon DEF Inodes
  <2>4. tail' \in Seq(Records)
    BY Zenon, <1>1, <1>2, <2>1, <2>2 DEF CutoverUndo, PlacementRecords
  <2> QED BY Zenon, <2>1, <2>3, <2>4 DEF CutoverUndo, KernelType
<1>7. CASE \E s \in 0 .. MaxPlans : CompleteAccept(s) \/ RollbackAccept(s)
  <2>1. /\ \/ UNCHANGED <<ko, tail>>
           \/ /\ ko' = [ko EXCEPT !.state = "placed", !.intended = ko.tier]
              /\ tail' = tail \o <<Record("placed", ko.tier, ko.tier)>>
        /\ UNCHANGED <<mounted, name, disk, last, pindex, rec, wrote>>
    BY <1>7 DEF CompleteAccept, RollbackAccept, Acknowledge, PlacementRecords
  <2>2. ko' \in Inodes BY <1>0, <1>2, <2>1, Zenon DEF Inodes, States
  <2>3. tail' \in Seq(Records)
    <3>1. tail \o <<Record("placed", ko.tier, ko.tier)>> \in Seq(Records)
      BY <1>1, <1>2, Zenon DEF States
    <3> QED BY <1>0, <2>1, <3>1
  <2> QED BY Zenon, <2>1, <2>2, <2>3 DEF KernelType
<1> QED BY <1>3, <1>4, <1>5, <1>6, <1>7

\* An unmount, a crash and a mount keep the types of the kernel's state: replay
\* and lookup only take up tiers that exist.
LEMMA MountType ==
  ASSUME KernelType,
         Unmount \/ Crash \/ (\E scan \in BOOLEAN : Mount(scan))
  PROVE  KernelType'
<1>1. NoInode \in Inodes
  <2>1. Inode("placed", 0, 0, 0) \in Inodes
    BY InodeType, ZeroTier DEF States
  <2> QED BY <2>1, Zenon DEF NoInode, Inodes
<1>2. CASE Unmount
  <2>1. /\ mounted' = FALSE /\ ko' = NoInode /\ last' = LastLogged
        /\ tail' = <<>> /\ disk' = name
        /\ UNCHANGED <<name, pindex, rec, wrote>>
    BY <1>2 DEF Unmount
  <2>2. last' \in Records \union {NoRecord} /\ tail' \in Seq(Records)
    BY <2>1, LastLoggedType
  <2> QED BY <1>1, <2>1, <2>2, Zenon DEF KernelType
<1>3. CASE Crash
  <2>1. name' \in [Tiers -> Copies]
    <3>1. /\ name' \in [Tiers -> {name[t] : t \in Tiers} \union
                                 {disk[t] : t \in Tiers}]
          /\ \A t \in Tiers : name'[t] \in {name[t], disk[t]}
      BY Zenon, <1>3 DEF Crash
    <3> QED BY Zenon, <3>1 DEF KernelType
  <2>2. /\ mounted' = FALSE /\ ko' = NoInode /\ tail' = <<>> /\ disk' = name'
        /\ UNCHANGED <<last, pindex, rec, wrote>>
    BY Zenon, <1>3 DEF Crash
  <2>3. disk' \in [Tiers -> Copies] /\ tail' \in Seq(Records)
    BY <2>1, <2>2
  <2> QED BY <1>1, <2>1, <2>2, <2>3, Zenon DEF KernelType
<1>4. CASE \E scan \in BOOLEAN : Mount(scan)
  <2>1. PICK scan \in BOOLEAN : Mount(scan) BY <1>4
  <2>2. Found \in SUBSET Tiers /\ Indexed \in SUBSET Tiers
    BY DEF Found, Indexed
  <2>3. rec' \in ReplayRecords
    BY <2>1, <2>2, ReplayType, Zenon DEF Mount, KernelType
  <2>4. name' \in [Tiers -> Copies] /\ disk' \in [Tiers -> Copies]
    BY <2>1, MintType DEF Mount, KernelType
  <2>5. pindex' \in Tiers \union {NoEntry, NoIndex}
    BY Zenon, <2>1, RebuiltType DEF Mount, KernelType
  <2> QED BY <2>1, <2>3, <2>4, <2>5 DEF Mount, KernelType
<1> QED BY <1>2, <1>3, <1>4

\* A change of one tier's name keeps the types of the kernel's state.
LEMMA WriteNameType ==
  ASSUME KernelType, NEW t \in Tiers, NEW f \in Copies, WriteName(t, f),
         disk' \in [Tiers -> Copies]
  PROVE  KernelType'
<1>1. name' \in [Tiers -> Copies]
  BY DEF WriteName, KernelType
<1>2. ko' \in Inodes
  BY Zenon DEF WriteName, KernelType, Inodes
<1> QED BY Zenon, <1>1, <1>2 DEF WriteName, KernelType

\* A worker that goes on keeps a plan.
LEMMA GotoType ==
  ASSUME WorkersType, NEW w \in Workers, wk[w].pc # "idle",
         NEW p \in WorkerPcs, Goto(w, p)
  PROVE  WorkersType'
<1>1. wk' = [wk EXCEPT ![w].pc = p] BY DEF Goto
<1> QED BY <1>1 DEF WorkersType

\* A worker that is done has no plan.
LEMMA DoneType ==
  ASSUME WorkersType, NEW w \in Workers, Done(w)
  PROVE  WorkersType'
<1>1. Idle \in [pc: WorkerPcs, plan: PlanSet \union {NoPlan},
                wseq: Nat] /\ Idle.pc = "idle"
  BY LogConstants DEF Idle, WorkerPcs
<1>2. wk' = [wk EXCEPT ![w] = Idle] BY DEF Done
<1> HIDE DEF Idle
<1> QED BY <1>1, <1>2 DEF WorkersType

\* A worker takes a plan the planner made, and the row takes its tiers.
LEMMA PlanningType ==
  ASSUME TypeInv, NEW w \in Workers, WorkerInspect(w) \/ PersistIntent(w)
  PROVE  TypeInv'
<1> USE DEF TypeInv
<1>1. CASE WorkerInspect(w)
  <2>1. Head(plans) \in PlanSet /\ Tail(plans) \in Seq(PlanSet)
    BY <1>1 DEF WorkerInspect, TierdType
  <2>2. KernelType'
    BY <1>1 DEF WorkerInspect, kernelVars, KernelType
  <2>3. WorkersType'
    <3>1. \/ wk' = [wk EXCEPT ![w] = [pc |-> "intent", plan |-> Head(plans),
                                     wseq |-> ko.writes]]
          \/ wk' = wk
      BY Zenon, <1>1 DEF WorkerInspect
    <3>2. [pc |-> "intent", plan |-> Head(plans), wseq |-> ko.writes] \in
            [pc: WorkerPcs, plan: PlanSet \union {NoPlan}, wseq: Nat]
      BY <2>1 DEF WorkerPcs, KernelType, Inodes
    <3>3. WorkersType BY Zenon DEF TierdType
    <3> QED BY <2>1, <3>1, <3>2, <3>3, Zenon DEF WorkersType
  <2>4. mlog' \in [1 .. MaxPlans -> PlanSet \union {NoPlan}]
    BY <1>1, <2>1 DEF WorkerInspect, LogTransition, TierdType
  <2>5. plans' \in Seq(PlanSet) /\ UNCHANGED <<tierd, nseq, planned, row, rv>>
    BY Zenon, <1>1, <2>1 DEF WorkerInspect
  <2> QED BY Zenon, <2>2, <2>3, <2>4, <2>5 DEF TierdType
<1>2. CASE PersistIntent(w)
  <2>1. KernelType' /\ UNCHANGED <<tierd, plans, nseq, planned, rv>>
    BY Zenon, <1>2 DEF PersistIntent, kernelVars, KernelType
  <2>2. wk[w].pc = "intent" /\ wk[w].plan \in PlanSet /\ WorkersType
    BY Zenon, <1>2 DEF PersistIntent, TierdType, WorkersType
  <2>3. WorkersType'
    <3>1. Goto(w, "plan") \/ Done(w) BY Zenon, <1>2 DEF PersistIntent
    <3> QED BY Zenon, <2>2, <3>1, GotoType, DoneType DEF WorkerPcs
  <2>4. mlog' \in [1 .. MaxPlans -> PlanSet \union {NoPlan}]
    BY <1>2, <2>2 DEF PersistIntent, LogTransition, TierdType
  <2>5. row' \in [state: {"placed", "moving", "failed"}, cur: Tiers,
                  intended: Places, seq: 0 .. MaxPlans]
    <3>1. wk[w].plan.dst \in Places /\ wk[w].plan.seq \in 0 .. MaxPlans
      BY <2>2 DEF PlanSet, Places
    <3> QED BY <1>2, <3>1, Zenon DEF PersistIntent, TierdType
  <2> QED BY Zenon, <2>1, <2>3, <2>4, <2>5 DEF TierdType
<1> QED BY Zenon, <1>1, <1>2

\* A step of a worker that changes its place in execute and the kernel's side
\* keeps the types of the rest of tierd.
LEMMA MovingType ==
  ASSUME TypeInv, NEW w \in Workers,
         \/ MovePlan(w) \/ MovePlanRefused(w) \/ CopyStart(w) \/ CopyDone(w)
         \/ Verify(w) \/ InspectStable(w) \/ CopyFails(w) \/ MoveCutover(w)
         \/ RemoveDestination(w) \/ RemoveSource(w) \/ SyncSource(w)
         \/ MoveComplete(w) \/ CleanupFails(w)
  PROVE  TypeInv'
<1>0. KernelType /\ TierdType /\ WorkersType BY DEF TypeInv, TierdType
<1>1. UNCHANGED <<tierd, plans, nseq, planned, row, mlog, rv>>
  BY ZenonT(60) DEF MovePlan, MovePlanRefused,
     CopyStart, CopyDone, Verify, InspectStable, CopyFails, MoveCutover, RemoveDestination,
     RemoveSource, SyncSource, MoveComplete, CleanupFails, workerRest
<1>2. wk[w].pc # "idle"
  BY ZenonT(60) DEF MovePlan, MovePlanRefused,
     CopyStart, CopyDone, Verify, InspectStable, CopyFails, MoveCutover, RemoveDestination,
     RemoveSource, SyncSource, MoveComplete, CleanupFails
<1>3. wk[w].plan \in PlanSet BY <1>0, <1>2 DEF WorkersType
<1>4. /\ wk[w].plan.src \in Tiers /\ wk[w].plan.dst \in Tiers
      /\ wk[w].plan.seq \in 1 .. MaxPlans /\ wk[w].wseq \in Nat
  BY <1>0, <1>3 DEF PlanSet, WorkersType
<1>5. Done(w) \/ \E p \in WorkerPcs : Goto(w, p)
  BY Zenon DEF MovePlan, MovePlanRefused, Replied, CopyStart, CopyDone, Verify,
     InspectStable, CopyFails, MoveCutover, RemoveDestination, RemoveSource, SyncSource,
     MoveComplete, CleanupFails, WorkerPcs
<1>6. WorkersType' BY Zenon, <1>0, <1>2, <1>5, GotoType, DoneType
<1>7. TierdType' BY <1>0, <1>1, <1>6 DEF TierdType
<1>8. KernelType'
  <2> USE <1>0, <1>4
  <2>1. CASE MovePlan(w) BY <2>1, CommandType DEF MovePlan
  <2>2. CASE \/ MovePlanRefused(w) \/ Verify(w) \/ InspectStable(w)
             \/ CopyFails(w) \/ CleanupFails(w)
    BY <2>2, Zenon DEF MovePlanRefused, Verify, InspectStable, CopyFails, CleanupFails,
       kernelVars, KernelType
  <2>3. CASE CopyStart(w)
    <3>1. [kind |-> "torn", data |-> {}, oid |-> name[wk[w].plan.dst].oid]
             \in Copies
      BY Zenon DEF KernelType, Copies
    <3>2. disk' \in [Tiers -> Copies] BY <2>3, Zenon DEF CopyStart, KernelType
    <3> QED BY <2>3, <3>1, <3>2, WriteNameType, Zenon DEF CopyStart
  <2>4. CASE CopyDone(w)
    <3>1. /\ name[wk[w].plan.src] \in Copies
          /\ name[wk[w].plan.dst].oid \in {"none", "own", "other"}
      BY Zenon DEF KernelType, Copies
    <3>2. [name[wk[w].plan.src] EXCEPT !.oid = name[wk[w].plan.dst].oid]
            \in Copies
      BY <3>1 DEF Copies
    <3>3. WriteName(wk[w].plan.dst,
                    [name[wk[w].plan.src] EXCEPT !.oid = name[wk[w].plan.dst].oid])
      BY Zenon, <2>4 DEF CopyDone
    <3>4. PICK f \in Copies : WriteName(wk[w].plan.dst, f)
      BY <3>2, <3>3, Zenon
    <3>5. disk' = [disk EXCEPT ![wk[w].plan.dst] = name'[wk[w].plan.dst]]
      BY Zenon, <2>4 DEF CopyDone
    <3>6. disk' \in [Tiers -> Copies]
      BY Zenon, <3>4, <3>5 DEF WriteName, KernelType
    <3> QED BY Zenon, <3>4, <3>6, WriteNameType
  <2>5. CASE MoveCutover(w)
    <3>1. CutoverBegin(wk[w].plan.seq, wk[w].wseq) \/ UNCHANGED kernelVars
      BY <2>5 DEF MoveCutover
    <3>2. CASE UNCHANGED kernelVars BY <3>2, Zenon DEF kernelVars, KernelType
    <3> QED BY Zenon, <3>1, <3>2, CommandType
  <2>6. CASE RemoveDestination(w) \/ RemoveSource(w)
    <3>1. Absent \in Copies BY Zenon DEF Absent, Copies
    <3>2. disk' \in [Tiers -> Copies]
      BY Zenon, <2>6 DEF RemoveDestination, RemoveSource, KernelType
    <3>3. \E t \in Tiers : WriteName(t, Absent)
      BY <2>6 DEF RemoveDestination, RemoveSource
    <3> QED BY <3>1, <3>2, <3>3, WriteNameType, Zenon
  <2>7. CASE SyncSource(w)
    <3>1. disk' \in [Tiers -> Copies] BY <2>7, Zenon DEF SyncSource, KernelType
    <3> QED BY <2>7, <3>1, Zenon DEF SyncSource, KernelType
  <2>8. CASE MoveComplete(w)
    <3>1. \A i \in 1 .. MaxPlans : i \in 0 .. MaxPlans BY MoverConstants
    <3>2. wk[w].plan.seq \in 0 .. MaxPlans BY <1>4, <3>1
    <3> QED BY <2>8, <3>2, CommandType, Zenon DEF MoveComplete
  <2> QED BY Zenon, <2>1, <2>2, <2>3, <2>4, <2>5, <2>6, <2>7, <2>8
<1> QED BY <1>7, <1>8 DEF TypeInv

\* abort and finalize leave a row that recovery knows.
LEMMA EndType ==
  ASSUME TypeInv, NEW w \in Workers, Abort(w) \/ Finalize(w)
  PROVE  TypeInv'
<1>0. KernelType /\ TierdType /\ WorkersType BY DEF TypeInv, TierdType
<1>1. row' \in RowSet
  <2>1. wk[w].plan \in PlanSet
    BY Zenon, <1>0 DEF Abort, Finalize, WorkersType
  <2>2. wk[w].plan.dst \in Tiers /\ NoTier \in Places
    BY Zenon, <2>1 DEF PlanSet, Places
  <2>3. row \in RowSet BY <1>0 DEF TierdType, RowSet
  <2>4. \/ row' = row
        \/ row' = [row EXCEPT !.state = "failed", !.intended = NoTier]
        \/ row' = [row EXCEPT !.state = "placed", !.intended = NoTier,
                              !.cur = wk[w].plan.dst]
    BY DEF Abort, Finalize
  <2> QED BY <2>2, <2>3, <2>4, Zenon DEF RowSet
<1>2. WorkersType' BY Zenon, <1>0, DoneType DEF Abort, Finalize
<1>3. KernelType' /\ UNCHANGED <<tierd, plans, nseq, planned, mlog, rv>>
  BY <1>0 DEF Abort, Finalize, kernelVars, KernelType
<1> QED BY <1>0, <1>1, <1>2, <1>3 DEF TypeInv, TierdType, RowSet

\* The end of a MOVE_CUTOVER moves its worker on.
LEMMA ReplyType ==
  ASSUME TypeInv, CutoverSucceeds \/ CutoverFails
  PROVE  TypeInv'
<1>0. KernelType /\ TierdType /\ WorkersType BY DEF TypeInv, TierdType
<1>1. KernelType' BY <1>0, CommandType DEF CutoverSucceeds, CutoverFails
<1>2. UNCHANGED <<tierd, plans, nseq, planned, row, mlog, rv>>
  BY DEF CutoverSucceeds, CutoverFails, workerRest
<1>3. WorkersType'
  <2>1. PICK p \in {"switched", "refused"} : CutoverReply(p)
    BY DEF CutoverSucceeds, CutoverFails
  <2>2. PICK q \in {"switched", "refused"} :
          wk' = [w \in Workers |-> IF wk[w].pc # "cutting" THEN wk[w]
                                   ELSE [wk[w] EXCEPT !.pc = q]]
    BY <2>1 DEF CutoverReply
  <2> QED BY <1>0, <2>2 DEF WorkersType, WorkerPcs
<1> QED BY Zenon, <1>0, <1>1, <1>2, <1>3 DEF TypeInv, TierdType

\* The planner, restarts, the kernel on its own and a start keep the types.
LEMMA ServiceType ==
  ASSUME TypeInv,
         \/ \E dst \in Tiers : PlanPool(dst)
         \/ Kill \/ Shutdown \/ Exit \/ HostCrash \/ PoolUnmount
         \/ PoolMount \/ KernelStep \/ Start
  PROVE  TypeInv'
<1>0. KernelType /\ TierdType /\ WorkersType BY Zenon DEF TypeInv, TierdType
<1>1. CASE \E dst \in Tiers : PlanPool(dst)
  <2>1. PICK dst \in Tiers : PlanPool(dst) BY Zenon, <1>1
  <2>2. [src |-> row.cur, dst |-> dst, seq |-> nseq + 1] \in PlanSet
    BY <1>0, <2>1, MoverConstants DEF PlanPool, TierdType, PlanSet
  <2>3. plans' \in Seq(PlanSet)
    BY <1>0, <2>1, <2>2 DEF PlanPool, TierdType
  <2>4. planned' \in 0 .. MaxPlans /\ nseq' \in 0 .. planned'
    BY <1>0, <2>1, MoverConstants DEF PlanPool, TierdType
  <2>5. KernelType' /\ WorkersType' /\ UNCHANGED <<tierd, row, mlog, rv>>
    BY <1>0, <2>1 DEF PlanPool, kernelVars, KernelType, WorkersType
  <2> QED BY <1>0, <2>3, <2>4, <2>5 DEF TypeInv, TierdType
<1>2. CASE Kill \/ Exit \/ HostCrash
  <2>1. Gone /\ UNCHANGED <<planned, row, mlog>>
    BY <1>2 DEF Kill, Exit, HostCrash
  <2>2. KernelType'
    <3>1. Crash \/ UNCHANGED kernelVars BY Zenon, <1>2 DEF Kill, Exit, HostCrash
    <3>2. CASE UNCHANGED kernelVars BY <1>0, <3>2 DEF kernelVars, KernelType
    <3> QED BY Zenon, <1>0, <3>1, <3>2, MountType
  <2>3. WorkersType'
    <3>1. Idle \in [pc: WorkerPcs, plan: PlanSet \union {NoPlan},
                    wseq: Nat] /\ Idle.pc = "idle"
      BY LogConstants DEF Idle, WorkerPcs
    <3> HIDE DEF Idle
    <3> QED BY <2>1, <3>1 DEF Gone, WorkersType
  <2>4. /\ rv' \in [pc: {"none", "inspect", "remove", "ack", "settle"},
                   keep: Places, other: Places, state: States,
                   seq: 0 .. MaxPlans]
        /\ rv'.pc = "none"
    BY <2>1, MoverConstants DEF Gone, NoRecovery, Places, States
  <2>5. plans' \in Seq(PlanSet) /\ nseq' \in 0 .. planned' /\ tierd' = "down"
    BY <1>0, <2>1 DEF Gone, TierdType
  <2> QED BY <1>0, <2>1, <2>2, <2>3, <2>4, <2>5 DEF TypeInv, TierdType
<1>3. CASE Shutdown
  <2>1. KernelType' /\ WorkersType'
    BY <1>0, <1>3 DEF Shutdown, kernelVars, KernelType, WorkersType
  <2>2. plans' \in Seq(PlanSet) /\ tierd' = "closing"
        /\ UNCHANGED <<nseq, planned, row, mlog, rv>>
    BY <1>3 DEF Shutdown
  <2> QED BY Zenon, <1>0, <2>1, <2>2 DEF TypeInv, TierdType
<1>4. CASE PoolUnmount \/ PoolMount \/ KernelStep
  <2>1. KernelType'
    BY Zenon, <1>0, <1>4, MountType, KernelOwnType
    DEF PoolUnmount, PoolMount, KernelStep
  <2>2. UNCHANGED <<tierd, plans, nseq, planned, wk, row, mlog, rv>>
    BY Zenon, <1>4 DEF PoolUnmount, PoolMount, KernelStep, tierdVars
  <2> QED BY <1>0, <2>1, <2>2 DEF TypeInv, TierdType, WorkersType
<1>5. CASE Start
  <2>1. KernelType' /\ UNCHANGED <<plans, nseq, planned, wk, row, mlog>>
        /\ tierd' \in {"up", "recovering"}
    BY <1>0, <1>5 DEF Start, kernelVars, KernelType, recoverRest
  <2>2. rv' \in [pc: {"none", "inspect", "remove", "ack", "settle"},
                 keep: Places, other: Places, state: States,
                 seq: 0 .. MaxPlans]
        /\ rv'.pc \notin {"remove", "ack", "settle"}
    BY <1>5, MoverConstants DEF Start, NoRecovery, Places, States
  <2> QED BY <1>0, <2>1, <2>2 DEF TypeInv, TierdType, WorkersType
<1> QED BY Zenon, <1>1, <1>2, <1>3, <1>4, <1>5

\* Recovery keeps the types: what it removes and keeps are tiers.
LEMMA RecoverType ==
  ASSUME TypeInv, RecoverStep \/ RecoverFails
  PROVE  TypeInv'
<1>0. KernelType /\ TierdType /\ WorkersType BY DEF TypeInv, TierdType
<1> DEFINE RvSet == [pc: {"none", "inspect", "remove", "ack", "settle"},
                     keep: Places, other: Places, state: States,
                     seq: 0 .. MaxPlans]
<1>1. NoRecovery \in RvSet /\ NoRecovery.pc = "none"
  BY MoverConstants DEF NoRecovery, Places, States
<1>2. rv \in RvSet /\ row \in RowSet BY <1>0 DEF TierdType, RowSet
<1>3. UNCHANGED recoverRest
  BY ZenonT(60) DEF RecoverStep, RecoverInspect, Warm, RecoverRemove,
     RecoverAck, RecoverSettle, RecoverFails, GiveUp
<1>4. ASSUME KernelType', tierd' \in {tierd, "up"}, row' \in RowSet,
             rv' \in RvSet,
             rv'.pc \in {"remove", "ack", "settle"} =>
                rv'.keep \in Tiers /\ rv'.other \in Tiers
      PROVE  TypeInv'
  BY <1>0, <1>3, <1>4 DEF recoverRest, TypeInv, TierdType, WorkersType, RowSet
<1>5. ASSUME KernelType', GiveUp PROVE TypeInv'
  BY <1>1, <1>2, <1>4, <1>5 DEF GiveUp
<1>6. CASE RecoverInspect
  <2>1. KernelType' BY Zenon, <1>0, <1>6 DEF RecoverInspect, kernelVars, KernelType
  <2>2. CASE mounted /\ ko.here /\ RecoverValid
    <3> DEFINE o == IF ko.tier = Recorded.dst THEN Recorded.src
                                              ELSE Recorded.dst
    <3>1. rv' = [pc |-> "remove", keep |-> ko.tier, other |-> o,
                 state |-> ko.state, seq |-> ko.seq] /\ UNCHANGED <<tierd, row>>
      BY <1>6, <2>2 DEF RecoverInspect
    <3>2. Recorded.src \in Tiers /\ Recorded.dst \in Tiers
      <4>1. Recorded.dst # NoTier BY Zenon, <2>2 DEF RecoverValid
      <4>2. CASE row.intended # NoTier
        BY Zenon, <1>2, <4>2 DEF Recorded, RowSet, Places
      <4>3. CASE row.intended = NoTier /\ row.seq \in DOMAIN mlog
        <5>1. mlog[row.seq] \in PlanSet \union {NoPlan}
              /\ Recorded.dst = mlog[row.seq].dst
              /\ Recorded.src = mlog[row.seq].src
          BY Zenon, <1>0, <4>3 DEF TierdType, Recorded
        <5> QED BY <4>1, <5>1 DEF NoPlan, PlanSet
      <4>4. CASE row.intended = NoTier /\ row.seq \notin DOMAIN mlog
        BY Zenon, <4>1, <4>4 DEF Recorded
      <4> QED BY <4>2, <4>3, <4>4
    <3>3. o \in Tiers BY Zenon, <3>2
    <3> HIDE DEF o
    <3>4. ko.tier \in Tiers /\ ko.state \in States /\ ko.seq \in 0 .. MaxPlans
      BY Zenon, <1>0 DEF KernelType, Inodes
    <3>5. rv' \in RvSet /\ rv'.keep \in Tiers /\ rv'.other \in Tiers
      BY Zenon, <3>1, <3>3, <3>4 DEF Places
    <3> QED BY Zenon, <1>2, <1>4, <2>1, <3>1, <3>5
  <2> QED BY Zenon, <1>5, <1>6, <2>1, <2>2 DEF RecoverInspect
<1>7. CASE Warm
  <2>1. KernelType'
    <3>1. PathLookup \/ UNCHANGED kernelVars BY Zenon, <1>7 DEF Warm
    <3>2. CASE UNCHANGED kernelVars BY <1>0, <3>2 DEF kernelVars, KernelType
    <3> QED BY Zenon, <1>0, <3>1, <3>2, KernelOwnType
  <2>2. GiveUp \/ UNCHANGED <<tierd, rv, row>>
    BY <1>7 DEF Warm
  <2>3. rv.pc = "inspect" BY <1>7 DEF Warm
  <2> QED BY <1>2, <1>4, <1>5, <2>1, <2>2, <2>3
<1>8. CASE RecoverRemove \/ RecoverAck
  <2>1. KernelType'
    <3>1. CASE RecoverRemove
      <4>1. rv.other \in Tiers BY Zenon, <1>0, <3>1 DEF RecoverRemove, TierdType
      <4>2. Absent \in Copies BY DEF Absent, Copies
      <4>3. disk' \in [Tiers -> Copies]
        BY <1>0, <3>1, <4>2, Zenon DEF RecoverRemove, KernelType
      <4> QED BY Zenon, <1>0, <3>1, <4>1, <4>2, <4>3, WriteNameType DEF RecoverRemove
    <3>2. CASE RecoverAck
      <4>1. rv.seq \in 0 .. MaxPlans BY <1>2
      <4>2. CompleteAccept(rv.seq) \/ RollbackAccept(rv.seq)
            \/ UNCHANGED kernelVars
        BY Zenon, <3>2 DEF RecoverAck
      <4>3. CASE UNCHANGED kernelVars BY <1>0, <4>3 DEF kernelVars, KernelType
      <4> QED BY <1>0, <4>1, <4>2, <4>3, CommandType
    <3> QED BY <1>8, <3>1, <3>2
  <2>2. rv.pc \in {"remove", "ack"} /\ UNCHANGED <<tierd, row>>
        /\ \E p \in {"ack", "settle"} : rv' = [rv EXCEPT !.pc = p]
    BY <1>8 DEF RecoverRemove, RecoverAck
  <2>3. rv.keep \in Tiers /\ rv.other \in Tiers
    BY <1>0, <2>2 DEF TierdType
  <2>4. rv' \in RvSet /\ rv'.keep \in Tiers /\ rv'.other \in Tiers
    BY <1>2, <2>2, <2>3
  <2> QED BY <1>2, <1>4, <2>1, <2>2, <2>4
<1>9. CASE RecoverSettle
  <2>1. KernelType' BY <1>0, <1>9 DEF RecoverSettle, kernelVars, KernelType
  <2>2. \/ GiveUp
        \/ /\ row' = [row EXCEPT !.state = "placed", !.intended = NoTier,
                                 !.cur = rv.keep]
           /\ tierd' = "up" /\ rv' = NoRecovery
    <3>1. CASE mounted /\ ko.here /\ ko.state = "placed" /\ ko.tier = rv.keep
      BY <1>9, <3>1 DEF RecoverSettle
    <3>2. CASE ~(mounted /\ ko.here /\ ko.state = "placed" /\ ko.tier = rv.keep)
      BY <1>9, <3>2 DEF RecoverSettle, GiveUp
    <3> QED BY <3>1, <3>2
  <2>3. rv.keep \in Tiers BY <1>0, <1>9 DEF RecoverSettle, TierdType
  <2>4. [row EXCEPT !.state = "placed", !.intended = NoTier, !.cur = rv.keep]
          \in RowSet
    BY <1>2, <2>3, Zenon DEF RowSet, Places
  <2> QED BY Zenon, <1>1, <1>4, <1>5, <2>1, <2>2, <2>4
<1>10. CASE RecoverFails
  <2>1. KernelType' BY <1>0, <1>10 DEF RecoverFails, kernelVars, KernelType
  <2> QED BY Zenon, <1>5, <1>10, <2>1 DEF RecoverFails
<1> QED BY Zenon, <1>6, <1>7, <1>8, <1>9, <1>10 DEF RecoverStep

\* Every step keeps the types, whatever restarts happen.
LEMMA NextTypeInv ==
  ASSUME TypeInv, [Next]_vars
  PROVE  TypeInv'
<1>1. CASE \E w \in Workers : WorkerStep(w)
  BY ZenonT(60), <1>1, PlanningType, MovingType, EndType DEF WorkerStep
<1>2. CASE UNCHANGED vars
  BY <1>2 DEF vars, kernelVars, tierdVars, TypeInv, KernelType, TierdType,
     WorkersType
<1> QED BY ZenonT(60), <1>1, <1>2, ReplyType, ServiceType, RecoverType DEF Next

\* Every variable of the kernel's half and of tierd's keeps its type, for any
\* tiers, workers, plans, writes and kinds of restart.
THEOREM TypeOKHolds == Spec => []TypeOK
<1>1. TypeInv => TypeOK
  BY DEF TypeInv, TypeOK, KernelType, TierdType, WorkersType, Inodes
<1>2. Init => TypeInv BY Zenon, InitKernelType, InitTierdType DEF TypeInv
<1> QED BY <1>1, <1>2, NextTypeInv, PTL DEF Spec
-----------------------------------------------------------------------------
\* Two workers never move the object at the same time, although plans for it
\* may be queued twice and the service may be killed, shut down, restarted or
\* crash with the host at any point.
THEOREM OneMoverHolds == Spec => []OneMover
<1>1. LockInv => OneMover BY DEF LockInv
<1> QED BY <1>1, NextLockInv, InitLockInv, PTL DEF Spec
-----------------------------------------------------------------------------
\* The invariant of a pool whose service may be killed at any point.
THEOREM KillInvHolds ==
  ASSUME KillOnly
  PROVE  Spec => []KillInv
<1>1. Init => KillInv
  BY InitKernelType, InitTierdType, InitLockInv, InitSettled
     DEF KillInv, Settled, TypeInv
<1>2. KillInv /\ [Next]_vars => KillInv'
  <2> SUFFICES ASSUME KillInv, [Next]_vars PROVE KillInv'
    OBVIOUS
  <2>1. TypeInv' BY NextTypeInv DEF KillInv
  <2>2. LockInv' BY NextLockInv DEF KillInv
  <2>3. Settled' BY <2>1, <2>2, NextSettled
  <2> QED BY <2>1, <2>2, <2>3 DEF KillInv, Settled
<1> QED BY <1>1, <1>2, PTL DEF Spec

\* Wherever tierd is killed and however often, the tier the kernel calls
\* authoritative names the file users write to, with everything they wrote:
\* neither the workers' clean-up nor recovery ever removes that copy.
THEOREM AuthoritativeCurrentHolds ==
  ASSUME KillOnly
  PROVE  Spec => []AuthoritativeCurrent
<1>1. KillInv => AuthoritativeCurrent
  BY DEF KillInv, HereInv, AuthoritativeCurrent
<1> QED BY <1>1, KillInvHolds, PTL

\* Wherever tierd is killed, a row that says placed agrees with the kernel
\* about state and tier, and no other tier still names a copy.
THEOREM PlacedAgreesHolds ==
  ASSUME KillOnly
  PROVE  Spec => []PlacedAgrees
<1>1. KillInv => PlacedAgrees
  BY DEF KillInv, PlaceInv, PlacedAgrees, OnlyAt
<1> QED BY <1>1, KillInvHolds, PTL

\* A MOVE_CUTOVER that switches the object, whether the tierd that asked for
\* it still runs or not, publishes a complete copy with every write the
\* replaced file holds.
THEOREM SwitchKeepsWritesHolds ==
  ASSUME KillOnly
  PROVE  Spec => SwitchKeepsWrites
<1> DEFINE Keeps ==
      ko'.state = "switched" /\ ko.state # "switched"
         => /\ name'[ko'.tier].kind = "whole"
            /\ ko.linked => name[ko.tier].data \subseteq name'[ko'.tier].data
<1>1. KillInv /\ KillInv' /\ [Next]_vars => [Keeps]_vars
  <2> SUFFICES ASSUME KillInv, KillInv', [Next]_vars PROVE Keeps
    OBVIOUS
  <2>1. wrote' = wrote \/ wrote' = wrote + 1 BY Zenon, WroteGrows
  <2>2. wrote \in Nat BY DEF KillInv, TypeInv, KernelType
  <2>3. Current(name[ko.tier]) /\ Current(name[ko.tier])'
    BY DEF KillInv, HereInv
  <2>4. 1 .. wrote \subseteq 1 .. wrote' BY <2>1, <2>2
  <2> QED BY Zenon, <2>3, <2>4 DEF Current
<1> QED BY <1>1, KillInvHolds, PTL DEF Spec, SwitchKeepsWrites
=============================================================================
