------------------------------ MODULE Movement ------------------------------
(***************************************************************************)
(* The movement commands of the kernel (movement.c).  The generic netlink  *)
(* family does not set parallel_ops, so commands exclude one another; a    *)
(* MOVE_CUTOVER drops inode_lock while it waits for SRCU readers, and the  *)
(* tasks run meanwhile.  The operators ending in Accept describe the       *)
(* kernel's part of a command that returns 0; the worker's step that       *)
(* issues it conjoins its own state.                                       *)
(***************************************************************************)
EXTENDS ObjectState

otherVars == <<asleep, taskVars, fdVars, wmap, opVars, write_seq, i_rwsem,
               stageVars>>

\* smoothfs_movement_plan, accepted.
PlanAccept(dest, txn) ==
    /\ i_rwsem = "free"
    /\ movement_state = "placed"
    /\ dest # current_tier
    /\ ~WritablyMapped
    /\ mappings_quiesced' = FALSE
    /\ intended_tier' = dest
    /\ movement_state' = "plan_accepted"
    /\ transaction_seq' = txn
    /\ UNCHANGED <<current_tier, cutover_gen, lower>>

\* smoothfs_movement_complete, returning 0.
CompleteAccept(txn) ==
    /\ i_rwsem = "free"
    /\ transaction_seq = txn
    /\ movement_state \in {"placed", "switched"}
    /\ movement_state' = "placed"
    /\ intended_tier' = IF movement_state = "switched" THEN current_tier
                                                       ELSE intended_tier
    /\ UNCHANGED <<current_tier, transaction_seq, cutover_gen,
                   mappings_quiesced, lower>>

\* smoothfs_movement_rollback, returning 0.
RollbackAccept(txn) ==
    /\ i_rwsem = "free"
    /\ transaction_seq = txn
    /\ movement_state \in PreCutover \union {"placed", "failed"}
    /\ movement_state' = "placed"
    /\ intended_tier' = IF movement_state = "placed" THEN intended_tier
                                                     ELSE current_tier
    /\ UNCHANGED <<current_tier, transaction_seq, cutover_gen,
                   mappings_quiesced, lower>>

\* Faulty variant of Readers: the grace period waits for nobody.
NoReaders == {}

\* Those a grace period started now waits for (synchronize_srcu).
Readers == {t \in Threads : InSrcu(t)}

\* smoothfs_movement_cutover up to inode_unlock: the state is flipped and the
\* grace period starts.  When no memory is left for the context of a bounded
\* wait, smoothfs_cutover_drain_writers falls back to synchronize_srcu.
CutoverStart(txn) ==
    /\ i_rwsem = "free"
    /\ movement_state \in PreCutover
    /\ transaction_seq = txn
    /\ ~WritablyMapped
    /\ movement_state' = "cutover_in_progress"
    /\ \/ cut' = "drain"
       \/ NoMemory /\ cut' = "sync"
    /\ waitfor' = Readers
    /\ UNCHANGED <<current_tier, intended_tier, transaction_seq, cutover_gen,
                   mappings_quiesced, lower, dest_path, compared>>

DrainDone ==
    /\ cut \in {"drain", "sync"} /\ waitfor = {}
    /\ cut' = "drained"
    /\ UNCHANGED <<inodeVars, waitfor, dest_path, compared, otherVars, fileVars,
                   moverVars>>

\* Faulty variant of DrainTimeout: the wait has no limit.
DrainTimeoutNever ==
    /\ cut = "drain" /\ waitfor = {}
    /\ cut' = "timedout"
    /\ UNCHANGED <<inodeVars, waitfor, dest_path, compared, otherVars, fileVars,
                   moverVars>>

\* SMOOTHFS_CUTOVER_DRAIN_TIMEOUT_MS passes first.
DrainTimeout ==
    /\ cut = "drain"
    /\ cut' = "timedout"
    /\ UNCHANGED <<inodeVars, waitfor, dest_path, compared, otherVars, fileVars,
                   moverVars>>

\* Faulty variant of WakeAll: the sleepers are forgotten.
WakeNobody == UNCHANGED asleep

\* wake_up_all(&si->cutover_wq).
WakeAll == asleep' = {}

\* The call gives up, leaving movement state s, and returns an error.
CutoverGivesUp(s) ==
    /\ movement_state' = s
    /\ cut' = "idle" /\ waitfor' = {} /\ dest_path' = NoFile /\ compared' = {}
    /\ i_rwsem' = "free"
    /\ mv' = [mv EXCEPT !.pc = "refused"]
    /\ UNCHANGED <<current_tier, intended_tier, transaction_seq, cutover_gen,
                   mappings_quiesced, lower, write_seq, taskVars, fdVars,
                   wmap, fileVars, opVars, db_tier, stageVars>>

\* After a timeout only a state that is still CUTOVER_IN_PROGRESS is undone,
\* and only then are sleepers woken.
CutoverTimedOut ==
    /\ cut = "timedout" /\ i_rwsem = "free"
    /\ \/ /\ movement_state = "cutover_in_progress"
          /\ CutoverGivesUp("copy_verified") /\ WakeAll
       \/ /\ movement_state # "cutover_in_progress"
          /\ CutoverGivesUp(movement_state) /\ UNCHANGED asleep

\* The state left CUTOVER_IN_PROGRESS while the call waited.
CutoverRaced ==
    /\ cut = "drained" /\ i_rwsem = "free"
    /\ movement_state # "cutover_in_progress"
    /\ CutoverGivesUp("copy_verified") /\ WakeAll

\* Faulty variant of SeqStable: the expected sequence is not compared.
SeqIgnored == TRUE

\* write_seq is still what the worker saw before it copied.
SeqStable == write_seq = mv.seq

\* The call holds inode_lock again, finds the state it left, and compares
\* write_seq.  It keeps the lock until it returns.
CutoverCheck ==
    /\ cut = "drained" /\ i_rwsem = "free"
    /\ movement_state = "cutover_in_progress"
    /\ SeqStable
    /\ cut' = "checked" /\ i_rwsem' = "cutover" /\ compared' = noted
    /\ UNCHANGED <<inodeVars, write_seq, asleep, waitfor, dest_path, taskVars,
                   fdVars, wmap, fileVars, opVars, restVars>>

\* out_fail: write_seq moved ...
CutoverStale ==
    /\ cut = "drained" /\ i_rwsem = "free"
    /\ movement_state = "cutover_in_progress"
    /\ ~SeqStable
    /\ CutoverGivesUp("failed") /\ WakeAll

\* ... or the destination cannot be resolved, is shorter than the source, or
\* its identity cannot be made durable.  The state is not looked at again.
CutoverFails ==
    /\ cut \in {"checked", "resolved"}
    /\ CutoverGivesUp("failed") /\ WakeAll

\* The object's path on intended_tier is resolved and given its OID xattr; the
\* call may sleep in the lookup, the xattr writes and the fsync.
CutoverResolve ==
    /\ cut = "checked"
    /\ backing[intended_tier] # NoFile
    /\ dest_path' = backing[intended_tier]
    /\ stamped' = stamped \union {backing[intended_tier]}
    /\ cut' = "resolved"
    /\ UNCHANGED <<inodeVars, write_seq, i_rwsem, asleep, waitfor, compared,
                   taskVars, fdVars, wmap, backing, nfiles, data, opVars,
                   restVars>>

\* The destination becomes lower_path, hashed under the object's path ...
CutoverSwap ==
    /\ cut = "resolved"
    /\ lower' = dest_path
    /\ cut' = "publish"
    /\ tracked' = TRUE
    /\ UNCHANGED <<movement_state, current_tier, intended_tier,
                   transaction_seq, cutover_gen, mappings_quiesced, write_seq,
                   i_rwsem, asleep, waitfor, dest_path, compared, taskVars, fdVars,
                   wmap, fileVars, opVars, moverVars, drain_tier, drain>>

\* Faulty variant of PublishPlacement: the generation is left as it was.
PublishOldGen == current_tier' = intended_tier /\ UNCHANGED cutover_gen

\* intended_tier is read again here.
PublishPlacement ==
    /\ current_tier' = intended_tier
    /\ cutover_gen' = cutover_gen + 1

\* ... and tier, generation and state follow.
CutoverPublish ==
    /\ cut = "publish"
    /\ PublishPlacement
    /\ movement_state' = "switched" /\ WakeAll
    /\ i_rwsem' = "free"
    /\ cut' = "idle" /\ waitfor' = {} /\ dest_path' = NoFile /\ compared' = {}
    /\ mv' = [mv EXCEPT !.pc = "switched"]
    /\ UNCHANGED <<intended_tier, transaction_seq, mappings_quiesced, lower,
                   write_seq, taskVars, fdVars, wmap, fileVars, opVars,
                   db_tier, stageVars>>

CutoverStep == \/ DrainDone \/ DrainTimeout \/ CutoverTimedOut \/ CutoverRaced
               \/ CutoverCheck \/ CutoverStale \/ CutoverFails
               \/ CutoverResolve \/ CutoverSwap \/ CutoverPublish

\* smoothfs_revoke_mappings, by an administrator.
RevokeMappings ==
    /\ "mmap" \in Kinds
    /\ cut = "idle" /\ i_rwsem = "free"
    /\ mappings_quiesced' = TRUE
    /\ UNCHANGED <<movement_state, current_tier, intended_tier,
                   transaction_seq, cutover_gen, lower, cutVars, otherVars,
                   fileVars, moverVars>>
=============================================================================
