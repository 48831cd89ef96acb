---------------------------- MODULE ObjectState ----------------------------
(***************************************************************************)
(* The state of one smoothfs object: the kernel inode (smoothfs_inode_     *)
(* info), the backing files on the lower tiers, the tasks that change or   *)
(* read it through file descriptors, and the tierd worker that moves it.   *)
(*                                                                         *)
(* Bytes are abstracted to the set of data changes a backing file holds:   *)
(* change number n is in data[f] once it was applied to file f.  A backing *)
(* file is a number, so that a name removed and created again on a tier is *)
(* a different file, as it is a different lower inode.                     *)
(***************************************************************************)
EXTENDS Naturals, FiniteSets

CONSTANTS
    Threads,       \* tasks; each owns one descriptor of the object
    NTiers,        \* sbi->ntiers; tier 0 is sbi->fastest_tier
    Kinds,         \* which operations the tasks perform
    WriteStaging,  \* sbi->write_staging_enabled
    NoMemory,      \* the allocation of a drain context may fail
    MaxOps,        \* bound: data changes started
    MaxMoves,      \* bound: movement transactions planned
    MaxFiles       \* bound: backing files created

AllKinds == {"write", "change", "setattr", "read", "open", "mmap", "lookup"}

ASSUME ConstantsAssumption ==
    /\ NTiers \in Nat \ {0}
    /\ Kinds \subseteq AllKinds
    /\ WriteStaging \in BOOLEAN /\ NoMemory \in BOOLEAN
    /\ MaxOps \in Nat
    /\ MaxMoves \in Nat
    /\ MaxFiles \in Nat \ {0}
    /\ "free" \notin Threads /\ "cutover" \notin Threads

VARIABLES
    \* smoothfs_inode_info
    movement_state, current_tier, intended_tier, transaction_seq,
    cutover_gen, write_seq, mappings_quiesced,
    lower,         \* the file lower_path refers to
    tracked,       \* rel_path is set and hashed in the path map
    drain_tier,    \* write_staged_drain_tier; NoTier when not write_staged
    i_rwsem,       \* who holds inode_lock(inode): a task, "cutover" or "free"
    asleep,        \* tasks sleeping on cutover_wq
    \* a MOVE_CUTOVER call inside the kernel
    cut,           \* where it is
    waitfor,       \* SRCU readers its grace period still waits for
    dest_path,     \* NoFile before it is resolved
    compared,      \* the changes counted when it compared write_seq
    drain,         \* a truncate-rehome drain of the object: pc and tier
    \* tasks
    pc, kind, opid,
    low,           \* the lower file the running operation uses
    need,          \* a read: the changes that had returned when it began
    fdlow, fdgen,  \* smoothfs_file_info: lower_file and lower_gen
    wmap,          \* the file a task has mapped shared and writable
    \* lower tiers
    backing,       \* the file the object's relative path names on each tier
    data, nfiles,
    stamped,       \* the files that carry the object's OID xattr
    \* changes started, changes counted in write_seq, changes reported done
    nops, noted, returned,
    \* tierd
    mv, db_tier

inodeVars == <<movement_state, current_tier, intended_tier, transaction_seq,
               cutover_gen, mappings_quiesced, lower>>
stageVars == <<tracked, drain_tier, drain>>
callVars  == <<cut, dest_path, compared>>
cutVars   == <<callVars, waitfor>>
taskVars  == <<pc, kind, opid, low, need>>
fdVars    == <<fdlow, fdgen>>
nameVars  == <<backing, nfiles, stamped>>
fileVars  == <<nameVars, data>>
opVars    == <<nops, noted, returned>>
moverVars == <<mv, db_tier>>
restVars  == <<moverVars, stageVars>>

vars == <<inodeVars, write_seq, i_rwsem, asleep, cutVars, taskVars, fdVars,
          wmap, fileVars, opVars, restVars>>

Tiers == 0 .. NTiers - 1
NoTier == NTiers
FastestTier == 0
NoFile == 0
Files == 1 .. MaxFiles
Ops == 1 .. MaxOps

\* enum smoothfs_movement_state, without the states no kernel path assigns
\* to a live inode (COPY_IN_PROGRESS .. CLEANUP_COMPLETE are tierd's).
MovementStates == {"placed", "plan_accepted", "copy_verified",
                   "cutover_in_progress", "switched", "failed"}

\* The states MOVE_CUTOVER and MOVE_ROLLBACK accept as "before the switch".
PreCutover == {"plan_accepted", "copy_verified"}

TaskPcs == {"idle", "begin", "locked", "parked", "crit", "applied",
            "unlocked", "noted", "opening", "closed", "reading"}

\* Inside srcu_read_lock(cutover_srcu) ... srcu_read_unlock.
InSrcu(t) == pc[t] \in {"locked", "crit", "applied", "noted"}

\* Past the check of movement_state, so the change will not wait any more.
PastBarrier(t) == pc[t] \in {"crit", "applied", "noted"}

\* mapping_writably_mapped() on the lower inode lower_path refers to.
WritablyMapped == \E t \in Threads : wmap[t] = lower

MoverPcs == {"idle", "intent", "planned", "copying", "copied", "stable",
             "verified", "cutting", "refused", "switched", "cleaned",
             "failed", "recovering", "completing", "undoing"}

\* recoverObject between its INSPECT and the end: the object was found PLACED,
\* SWITCHED, or in a state before the switch.
Recovering == {"recovering", "completing", "undoing"}

\* Where a MOVE_CUTOVER call is.  From "checked" on it holds inode_lock.
CutPcs == {"idle", "drain", "sync", "drained", "timedout", "checked",
           "resolved", "publish"}

InodeType ==
    /\ movement_state \in MovementStates
    /\ current_tier \in Tiers /\ intended_tier \in Tiers
    /\ transaction_seq \in 0 .. MaxMoves
    /\ cutover_gen \in Nat
    /\ mappings_quiesced \in BOOLEAN
    /\ lower \in Files
    /\ write_seq \in Nat
LockType ==
    /\ i_rwsem \in Threads \union {"free", "cutover"}
    /\ asleep \subseteq Threads
    /\ cut \in CutPcs
    /\ waitfor \subseteq Threads
    /\ dest_path \in Files \union {NoFile} /\ compared \subseteq Ops
TaskType ==
    /\ pc \in [Threads -> TaskPcs]
    /\ kind \in [Threads -> Kinds \union {"none"}]
    /\ opid \in [Threads -> 0 .. MaxOps]
    /\ low \in [Threads -> Files \union {NoFile}]
    /\ need \in [Threads -> SUBSET Ops]
FdType ==
    /\ fdlow \in [Threads -> Files]
    /\ fdgen \in [Threads -> Nat]
    /\ wmap \in [Threads -> Files \union {NoFile}]
FileType ==
    /\ backing \in [Tiers -> Files \union {NoFile}]
    /\ data \in [Files -> SUBSET Ops]
    /\ nfiles \in Files
    /\ stamped \subseteq Files
OpType ==
    /\ nops \in 0 .. MaxOps
    /\ noted \subseteq Ops /\ returned \subseteq Ops
MoverType ==
    /\ mv \in [pc: MoverPcs, src: Tiers, dst: Tiers, keep: Tiers,
               txn: 0 .. MaxMoves, seq: Nat]
    /\ db_tier \in Tiers
StageType ==
    /\ tracked \in BOOLEAN
    /\ drain_tier \in Tiers \union {NoTier}
    /\ drain \in [pc: {"idle", "unlink", "clear"}, tier: Tiers \union {NoTier}]
    /\ drain.pc = "unlink" => drain.tier # NoTier

\* Types of the object's, the tasks' and tierd's state.
TypeOK ==
    /\ InodeType /\ LockType /\ TaskType /\ FdType
    /\ FileType /\ OpType /\ MoverType /\ StageType

\* A mounted pool with the object placed on some tier and every task holding
\* a descriptor opened after the last cutover.
Init ==
    /\ movement_state = "placed"
    /\ current_tier \in Tiers /\ intended_tier = current_tier
    /\ transaction_seq = 0 /\ cutover_gen = 0 /\ write_seq = 0
    /\ mappings_quiesced = FALSE
    /\ lower = 1
    /\ tracked = ("lookup" \notin Kinds)
    /\ drain_tier = NoTier /\ drain = [pc |-> "idle", tier |-> NoTier]
    /\ i_rwsem = "free" /\ asleep = {}
    /\ cut = "idle" /\ waitfor = {} /\ dest_path = NoFile /\ compared = {}
    /\ pc = [t \in Threads |-> "idle"]
    /\ kind = [t \in Threads |-> "none"]
    /\ opid = [t \in Threads |-> 0]
    /\ low = [t \in Threads |-> NoFile]
    /\ need = [t \in Threads |-> {}]
    /\ fdlow = [t \in Threads |-> 1] /\ fdgen = [t \in Threads |-> 0]
    /\ wmap = [t \in Threads |-> NoFile]
    /\ backing = [r \in Tiers |-> IF r = current_tier THEN 1 ELSE NoFile]
    /\ data = [f \in Files |-> {}] /\ nfiles = 1 /\ stamped = {1}
    /\ nops = 0 /\ noted = {} /\ returned = {}
    /\ mv = [pc |-> "idle", src |-> current_tier, dst |-> current_tier,
             keep |-> current_tier, txn |-> 0, seq |-> 0]
    /\ db_tier = current_tier
=============================================================================
