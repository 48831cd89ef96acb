----------------------------- MODULE MoveWorker -----------------------------
(***************************************************************************)
(* tierd's movement of the object: Worker.execute (worker.go) for one plan *)
(* after another, and the recovery of a failed row (recovery_live.go).     *)
(* tierd does not crash here.  Any command may also be refused for reasons *)
(* outside the model: a quiesced pool, a pin, a hardlink, an object that   *)
(* does not resolve.                                                       *)
(***************************************************************************)
EXTENDS Movement

Goto(p) == mv' = [mv EXCEPT !.pc = p]

\* The planner takes the source tier from the database row; the worker then
\* inspects the object and persists its intent.
InspectAndIntend(dest) ==
    /\ mv.pc = "idle"
    /\ mv.txn < MaxMoves
    /\ dest # db_tier
    /\ movement_state = "placed"
    /\ mv' = [pc |-> "intent", src |-> db_tier, dst |-> dest,
              keep |-> db_tier, txn |-> mv.txn + 1, seq |-> write_seq]
    /\ UNCHANGED <<inodeVars, cutVars, otherVars, fileVars, db_tier>>

MovePlan ==
    /\ mv.pc = "intent"
    /\ PlanAccept(mv.dst, mv.txn)
    /\ Goto("planned")
    /\ UNCHANGED <<cutVars, otherVars, fileVars, db_tier>>

\* MOVE_PLAN returns an error: the row is marked failed, nothing is removed.
MovePlanRefused ==
    /\ mv.pc = "intent"
    /\ Goto("failed")
    /\ UNCHANGED <<inodeVars, cutVars, otherVars, fileVars, db_tier>>

\* copyWithChecksum: the destination is opened with O_CREATE|O_TRUNC ...
CopyStart ==
    /\ mv.pc = "planned"
    /\ backing[mv.src] # NoFile
    /\ LET f == IF backing[mv.dst] = NoFile THEN nfiles + 1
                                            ELSE backing[mv.dst]
       IN  /\ f \in Files
           /\ nfiles' = IF f > nfiles THEN f ELSE nfiles
           /\ backing' = [backing EXCEPT ![mv.dst] = f]
           /\ data' = [data EXCEPT ![f] = {}]
    /\ Goto("copying")
    /\ UNCHANGED <<inodeVars, cutVars, otherVars, stamped, db_tier>>

\* ... and filled from the source path.  A path unlinked meanwhile makes the
\* re-reads fail (CopyFails), as does a source that changed under the copy.
CopyDone ==
    /\ mv.pc = "copying"
    /\ backing[mv.src] # NoFile /\ backing[mv.dst] # NoFile
    /\ data' = [data EXCEPT ![backing[mv.dst]] = data[backing[mv.src]]]
    /\ Goto("copied")
    /\ UNCHANGED <<inodeVars, cutVars, otherVars, nameVars, db_tier>>

\* The destination's hash and the source's, read again, agree with the first.
Verify ==
    /\ mv.pc = "copied"
    /\ backing[mv.src] # NoFile /\ backing[mv.dst] # NoFile
    /\ data[backing[mv.src]] = data[backing[mv.dst]]
    /\ Goto("stable")
    /\ UNCHANGED <<inodeVars, cutVars, otherVars, fileVars, db_tier>>

\* Faulty variant of InspectStable: the sequence is sampled again.
InspectResample ==
    /\ mv.pc = "stable"
    /\ mv' = [mv EXCEPT !.pc = "verified", !.seq = write_seq]
    /\ UNCHANGED <<inodeVars, cutVars, otherVars, fileVars, db_tier>>

\* A second INSPECT, later, reports the write_seq of the first.
InspectStable ==
    /\ mv.pc = "stable"
    /\ write_seq = mv.seq
    /\ Goto("verified")
    /\ UNCHANGED <<inodeVars, cutVars, otherVars, fileVars, db_tier>>

\* Any stat, copy, hash or inspect error, and a source that raced.
CopyFails ==
    /\ mv.pc \in {"planned", "copying", "copied", "stable"}
    /\ Goto("refused")
    /\ UNCHANGED <<inodeVars, cutVars, otherVars, fileVars, db_tier>>

MoveCutover ==
    /\ mv.pc = "verified"
    /\ CutoverStart(mv.txn)
    /\ Goto("cutting")
    /\ UNCHANGED <<otherVars, fileVars, db_tier>>

MoveCutoverRefused ==
    /\ mv.pc = "verified"
    /\ Goto("refused")
    /\ UNCHANGED <<inodeVars, cutVars, otherVars, fileVars, db_tier>>

\* os.Remove(dstPath), then abort marks the row failed.
Abort ==
    /\ mv.pc = "refused"
    /\ backing' = [backing EXCEPT ![mv.dst] = NoFile]
    /\ Goto("failed")
    /\ UNCHANGED <<inodeVars, cutVars, otherVars, data, nfiles, stamped,
                   db_tier>>

RemoveSource ==
    /\ mv.pc = "switched"
    /\ backing' = [backing EXCEPT ![mv.src] = NoFile]
    /\ Goto("cleaned")
    /\ UNCHANGED <<inodeVars, cutVars, otherVars, data, nfiles, stamped,
                   db_tier>>

\* MOVE_COMPLETE, then finalize writes the new tier to the row.
MoveComplete ==
    /\ mv.pc = "cleaned"
    /\ CompleteAccept(mv.txn)
    /\ Goto("idle")
    /\ db_tier' = mv.dst
    /\ UNCHANGED <<cutVars, otherVars, fileVars>>

\* Faulty variant of CleanupFails: the row is reported placed all the same.
CleanupFailureIgnored ==
    /\ mv.pc \in {"switched", "cleaned"}
    /\ Goto("idle")
    /\ UNCHANGED <<inodeVars, cutVars, otherVars, fileVars, db_tier>>

\* The unlink, the directory barrier or MOVE_COMPLETE fails.
CleanupFails ==
    /\ mv.pc \in {"switched", "cleaned"}
    /\ Goto("failed")
    /\ UNCHANGED <<inodeVars, cutVars, otherVars, fileVars, db_tier>>
-----------------------------------------------------------------------------
\* recoverObject at the next service start: INSPECT and its validation.
RecoverInspect ==
    /\ mv.pc = "failed"
    /\ movement_state = "placed" \/ transaction_seq = mv.txn
    /\ current_tier \in {mv.src, mv.dst}
    /\ backing[current_tier] # NoFile
    /\ \/ /\ movement_state = "switched" /\ current_tier = mv.dst
          /\ mv' = [mv EXCEPT !.pc = "completing", !.keep = current_tier]
       \/ /\ movement_state \in PreCutover \union {"failed"}
          /\ current_tier = mv.src
          /\ mv' = [mv EXCEPT !.pc = "undoing", !.keep = current_tier]
       \/ /\ movement_state = "placed"
          /\ mv' = [mv EXCEPT !.pc = "recovering", !.keep = current_tier]
    /\ UNCHANGED <<inodeVars, cutVars, otherVars, fileVars, db_tier>>

\* Faulty variant of RemoveOther: recovery always removes the destination.
RemoveDestination == backing' = [backing EXCEPT ![mv.dst] = NoFile]

RemoveOther ==
    backing' = [backing EXCEPT ![IF mv.keep = mv.dst THEN mv.src
                                                     ELSE mv.dst] = NoFile]

\* The other copy is removed, the kernel acknowledges what the first INSPECT
\* called for, a second INSPECT agrees, and the row is settled.
RecoverSettle ==
    /\ mv.pc \in Recovering
    /\ RemoveOther
    /\ \/ mv.pc = "completing" /\ CompleteAccept(mv.txn)
       \/ mv.pc = "undoing" /\ RollbackAccept(mv.txn)
       \/ mv.pc = "recovering" /\ UNCHANGED inodeVars
    /\ movement_state' = "placed" /\ current_tier = mv.keep
    /\ Goto("idle")
    /\ db_tier' = mv.keep
    /\ UNCHANGED <<cutVars, otherVars, data, nfiles, stamped>>

\* An error after the removal leaves the row for the next start.
RecoverFails ==
    /\ mv.pc \in Recovering
    /\ RemoveOther
    /\ Goto("failed")
    /\ UNCHANGED <<inodeVars, cutVars, otherVars, data, nfiles, stamped,
                   db_tier>>

WorkerStep ==
    \/ \E dest \in Tiers : InspectAndIntend(dest)
    \/ MovePlan \/ MovePlanRefused \/ CopyStart \/ CopyDone \/ Verify
    \/ InspectStable \/ CopyFails \/ MoveCutover \/ MoveCutoverRefused \/ Abort
    \/ RemoveSource \/ MoveComplete \/ CleanupFails
    \/ RecoverInspect \/ RecoverSettle \/ RecoverFails
=============================================================================
