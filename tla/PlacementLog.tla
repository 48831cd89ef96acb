---------------------------- MODULE PlacementLog ----------------------------
(***************************************************************************)
(* What survives of one object when the host restarts: its backing files,  *)
(* the placement log and the path index, and the inode that replay builds  *)
(* from them (placement.c, the movement commands of movement.c that append *)
(* records, the lookups of inode.c and super.c after a mount).             *)
(*                                                                         *)
(* The log is abstracted to the last record of the object on disk and the  *)
(* records queued or written since, in order: a record reaches the disk    *)
(* when the writeback worker and the lower filesystem get to it, or when   *)
(* the pool is unmounted, and those behind it are lost in a crash.  Bytes  *)
(* are the set of writes a file holds; every write is followed by fsync.   *)
(***************************************************************************)
EXTENDS Integers, Sequences

CONSTANTS
    NTiers,       \* sbi->ntiers; the parent directory lies on tier 0
    MaxWrites     \* bound: user writes

ASSUME LogConstants == NTiers \in Nat \ {0, 1} /\ MaxWrites \in Nat

VARIABLES
    mounted,
    ko,           \* smoothfs_inode_info of the object; ko.here: it is in core
    name,         \* per tier, the file the relative path names
    disk,         \* per tier, what a crash may bring back
    last, tail,   \* placement log: last record on disk; records behind it
    pindex,       \* path index: absent, without the object, or its tier
    rec,          \* recovery_records entry built by the mount
    wrote         \* user writes so far

kernelVars == <<mounted, ko, name, disk, last, tail, pindex, rec, wrote>>

Tiers == 0 .. NTiers - 1
NoTier == NTiers
Writes == 1 .. MaxWrites

\* A backing file: how much of a copy it is, its writes, its OID xattr.
Absent == [kind |-> "absent", data |-> {}, oid |-> "none"]
Copies == [kind: {"absent", "torn", "whole"}, data: SUBSET Writes,
           oid: {"none", "own", "other"}]

PreCutover == {"plan_accepted", "copy_verified"}
States == PreCutover \union {"placed", "cutover_in_progress", "switched",
                             "failed"}

\* tier, intended and seq are meaningless while the inode is not in core;
\* writes: write_seq, which starts from 0 in every inode; wseq: the write_seq a
\* MOVE_CUTOVER in progress expects; linked: lower_path still has a name;
\* alien: see InstantiateOne.
Inode(state, tier, intended, seq) ==
    [here |-> TRUE, state |-> state, tier |-> tier, intended |-> intended,
     seq |-> seq, writes |-> 0, wseq |-> 0, linked |-> TRUE, alien |-> FALSE]
NoInode == [Inode("placed", 0, 0, 0) EXCEPT !.here = FALSE]

Record(state, tier, intended) ==
    [state |-> state, tier |-> tier, intended |-> intended]
Records == [state: States, tier: Tiers, intended: Tiers]
NoRecord == [state |-> "none", tier |-> 0, intended |-> 0]

\* index entries: the file is absent or invalid, or it has no entry
NoIndex == NTiers + 1
NoEntry == NTiers
-----------------------------------------------------------------------------
\* smoothfs_placement_record: queued with the next sequence number.
PlacementRecords(rs) == tail' = tail \o rs

\* The writeback worker, then the lower filesystem: the oldest record that is
\* not on disk reaches it.
FlushRecord ==
    /\ tail # <<>>
    /\ last' = Head(tail)
    /\ tail' = Tail(tail)
    /\ UNCHANGED <<mounted, ko, name, disk, pindex, rec, wrote>>
-----------------------------------------------------------------------------
\* smoothfs_replay_normalize
Normalized(r) == r.state \in States \ {"placed", "failed"}
AuthoritativeTier(r) ==
    IF r.state \in {"cutover_in_progress", "switched"} THEN r.intended
                                                       ELSE r.tier

\* The fastest tier of a set, or NoTier.
FirstTier(S) == IF S = {} THEN NoTier ELSE CHOOSE t \in S : \A u \in S : t <= u

\* smoothfs_scan_tree over every tier: the tiers where the object's OID is
\* found.  A file without an OID is given a fresh one on the way.
Found == {t \in Tiers : name[t].oid = "own"}
Minted(f) == IF f.kind # "absent" /\ f.oid = "none"
             THEN [f EXCEPT !.oid = "other"] ELSE f
MintOid(files, t) == [files EXCEPT ![t] = Minted(@)]
MintOids(files) == [t \in Tiers |-> Minted(files[t])]

\* A replay record: the last log record (or none), and the tiers the path
\* index or the scan offers for it.
ReplayRecord(r, logged, offered) ==
    LET chosen == IF logged THEN FirstTier(offered \intersect
                                           {AuthoritativeTier(r)})
                            ELSE FirstTier(offered)
    IN  [chosen |-> chosen, fallback |-> FirstTier(offered),
         normalized |-> logged /\ Normalized(r),
         state |-> IF logged /\ ~Normalized(r) THEN r.state ELSE "placed",
         intended |-> IF logged THEN r.intended ELSE 0]
\* Without a log record intended_tier is not meaningful; MOVE_PLAN sets it.

\* smoothfs_path_index_read has at most one entry for an object.
Indexed == {pindex} \intersect Tiers

\* smoothfs_path_index_rebuild: the index keeps only chosen paths.
RebuiltEntry(r, logged) ==
    LET c == ReplayRecord(r, logged, Found).chosen
    IN  IF c = NoTier THEN NoEntry ELSE c

LastLogged == IF tail = <<>> THEN last ELSE tail[Len(tail)]
-----------------------------------------------------------------------------
\* fill_super: the log is loaded and joined with the path index; dirty range
\* stages of any object that do not resolve force a scan of the tiers.
Mount(scan) ==
    /\ ~mounted
    /\ mounted' = TRUE
    /\ IF scan
       THEN /\ rec' = ReplayRecord(last, last # NoRecord, Found)
            /\ name' = MintOids(name)
            /\ disk' = MintOids(disk)
            /\ pindex' = RebuiltEntry(last, last # NoRecord)
       ELSE /\ rec' = ReplayRecord(last, last # NoRecord, Indexed)
            /\ UNCHANGED <<name, disk, pindex>>
    /\ UNCHANGED <<ko, last, tail, wrote>>

\* smoothfs_path_index_workfn: only if the mount found no valid index.  It
\* drains the queued records, scans, and leaves the recovery records alone.
PathIndexRebuild ==
    /\ mounted /\ pindex = NoIndex
    /\ pindex' = RebuiltEntry(LastLogged, LastLogged # NoRecord)
    /\ name' = MintOids(name)
    /\ disk' = MintOids(disk)
    /\ UNCHANGED <<mounted, ko, last, tail, rec, wrote>>

\* put_super: queued records are drained and the log is fsynced.
Unmount ==
    /\ mounted
    /\ mounted' = FALSE
    /\ ko' = NoInode
    /\ last' = LastLogged /\ tail' = <<>>
    /\ disk' = name
    /\ UNCHANGED <<name, pindex, rec, wrote>>

\* A crash keeps what is on disk; of a change not synced, either side.
Crash ==
    /\ mounted
    /\ mounted' = FALSE
    /\ ko' = NoInode
    /\ tail' = <<>>
    /\ name' \in {f \in [Tiers -> {name[t] : t \in Tiers} \union
                                  {disk[t] : t \in Tiers}] :
                    \A t \in Tiers : f[t] \in {name[t], disk[t]}}
    /\ disk' = name'
    /\ UNCHANGED <<last, pindex, rec, wrote>>
-----------------------------------------------------------------------------
\* smoothfs_replay_instantiate_one, from smoothfs_recovery_resolve_oid: the
\* inode of whatever file the recorded path now names.  If that file does not
\* carry the OID, the inode answers for the object without being it.
ResolvedTier == IF rec.chosen # NoTier THEN rec.chosen ELSE rec.fallback
Resolvable == mounted /\ ResolvedTier # NoTier /\ name[ResolvedTier].kind # "absent"

InstantiateOne ==
    /\ ~ko.here /\ Resolvable
    /\ LET t == ResolvedTier
       IN  /\ ko' = [Inode(rec.state, t,
                           IF rec.normalized THEN t ELSE rec.intended, 0)
                     EXCEPT !.alien = name[t].oid # "own"]
           /\ PlacementRecords(IF rec.normalized
                               THEN <<Record("placed", t, t)>> ELSE <<>>)
           /\ name' = MintOid(name, t)
           /\ disk' = MintOid(disk, t)
    /\ UNCHANGED <<mounted, last, pindex, rec, wrote>>

\* smoothfs_lookup_inner for the object's path when it is not in core: the
\* parent's tier first, then every tier from the fastest.
PathLookup ==
    /\ mounted /\ ~ko.here
    /\ LET t == FirstTier({u \in Tiers : name[u].kind # "absent"})
       IN  /\ t # NoTier
           /\ name' = MintOid(name, t)
           /\ disk' = MintOid(disk, t)
           /\ IF name[t].oid = "own"
              THEN /\ ko' = Inode("placed", t, t, 0)
                   /\ PlacementRecords(IF t = 0 THEN <<>>
                                       ELSE <<Record("placed", t, t)>>)
              ELSE UNCHANGED <<ko, tail>>
    /\ UNCHANGED <<mounted, last, pindex, rec, wrote>>

\* A write to the object's lower file, and fsync.
UserWrite ==
    /\ ko.here /\ ~ko.alien /\ ko.state # "cutover_in_progress"
    /\ wrote < MaxWrites
    /\ wrote' = wrote + 1
    /\ ko' = [ko EXCEPT !.writes = @ + 1]
    /\ name' = IF ko.linked
               THEN [name EXCEPT ![ko.tier].data = @ \union {wrote + 1}]
               ELSE name
    /\ disk' = IF ko.linked THEN [disk EXCEPT ![ko.tier] = name'[ko.tier]]
                            ELSE disk
    /\ UNCHANGED <<mounted, last, tail, pindex, rec>>
-----------------------------------------------------------------------------
(* The movement commands on an object in core.  What happens to an alien   *)
(* inode is undone by the next command, which instantiates it again.       *)

Settle(k) == ko' = IF ko.alien THEN ko ELSE k

\* smoothfs_movement_plan
PlanAccept(dest, seq) ==
    /\ ko.here /\ ko.state = "placed" /\ dest # ko.tier
    /\ Settle([ko EXCEPT !.state = "plan_accepted", !.intended = dest,
                         !.seq = seq])
    /\ PlacementRecords(<<Record("plan_accepted", ko.tier, dest)>>)
    /\ UNCHANGED <<mounted, name, disk, last, pindex, rec, wrote>>

\* smoothfs_movement_cutover up to the drain of writers
CutoverBegin(seq, wseq) ==
    /\ ko.here /\ ko.state \in PreCutover /\ ko.seq = seq
    /\ ko' = [ko EXCEPT !.state = "cutover_in_progress", !.wseq = wseq]
    /\ PlacementRecords(<<Record("cutover_in_progress", ko.tier, ko.intended)>>)
    /\ UNCHANGED <<mounted, name, disk, last, pindex, rec, wrote>>

\* Faulty variant: write_seq is not compared.
CutoverValidUnsequenced ==
    /\ name[ko.intended].kind = "whole"
    /\ name[ko.intended].oid # "other"

\* The checks after the drain: write_seq, a complete destination, its OID.
CutoverValid ==
    /\ ko.wseq = ko.writes
    /\ name[ko.intended].kind = "whole"
    /\ name[ko.intended].oid # "other"

\* The destination gets the OID and is fsynced, then it becomes the lower.
CutoverSwitch ==
    /\ ko.here /\ ko.state = "cutover_in_progress"
    /\ CutoverValid
    /\ name' = [name EXCEPT ![ko.intended].oid = "own"]
    /\ disk' = [disk EXCEPT ![ko.intended] = name'[ko.intended]]
    /\ ko' = [ko EXCEPT !.state = "switched", !.tier = ko.intended,
                        !.wseq = 0, !.linked = TRUE]
    /\ PlacementRecords(<<Record("switched", ko.intended, ko.intended)>>)
    /\ UNCHANGED <<mounted, last, pindex, rec, wrote>>

\* Writers did not drain in time: the plan stands.  Any other error fails it.
CutoverUndo(state) ==
    /\ ko.here /\ ko.state = "cutover_in_progress"
    /\ ko' = [ko EXCEPT !.state = state, !.wseq = 0]
    /\ PlacementRecords(<<Record(state, ko.tier, ko.intended)>>)
    /\ UNCHANGED <<mounted, name, disk, last, pindex, rec, wrote>>

\* smoothfs_movement_complete and smoothfs_movement_rollback
Acknowledge(states, seq) ==
    /\ ko.here /\ ko.seq = seq
    /\ IF ko.state = "placed" THEN UNCHANGED <<ko, tail>>
       ELSE /\ ko.state \in states
            /\ ko' = [ko EXCEPT !.state = "placed", !.intended = ko.tier]
            /\ PlacementRecords(<<Record("placed", ko.tier, ko.tier)>>)
    /\ UNCHANGED <<mounted, name, disk, last, pindex, rec, wrote>>

CompleteAccept(seq) == Acknowledge({"switched"}, seq)
RollbackAccept(seq) == Acknowledge(PreCutover \union {"failed"}, seq)
=============================================================================
