------------------------------ MODULE DataPath ------------------------------
(***************************************************************************)
(* The operations tasks perform on the object through smoothfs, at the     *)
(* grain at which they can interleave with a cutover.                      *)
(*                                                                         *)
(*   "write"    smoothfs_write_iter                                        *)
(*   "change"   splice_write, fallocate, remap_file_range, clone ioctls    *)
(*   "setattr"  a size-changing setattr; VFS holds inode_lock around it    *)
(*   "read"     smoothfs_read_iter on a plain (unstaged) object            *)
(*   "open"     close and open again                                       *)
(*   "mmap"     a shared writable mapping and stores through it            *)
(***************************************************************************)
EXTENDS ObjectState

\* Faulty variant of LowerFile: the descriptor is never reissued.
LowerFileStale(t) == fdlow[t]

\* smoothfs_lower_file: the descriptor's own lower file, or the current one
\* when cutover_gen has advanced since it was opened.  Generation and path are
\* read in that order by the code; a swap in between leaves an older
\* generation on a newer file, which only causes one more reopen.
LowerFile(t) == IF fdgen[t] = cutover_gen THEN fdlow[t] ELSE lower

Reissue(t) ==
    /\ fdlow' = [fdlow EXCEPT ![t] = LowerFile(t)]
    /\ fdgen' = [fdgen EXCEPT ![t] = cutover_gen]

\* The operation returns to its caller.
Return(t) ==
    /\ pc' = [pc EXCEPT ![t] = "idle"]
    /\ kind' = [kind EXCEPT ![t] = "none"]
    /\ opid' = [opid EXCEPT ![t] = 0]
    /\ low' = [low EXCEPT ![t] = NoFile]

StartOp(t, k) ==
    /\ k \in Kinds
    /\ pc[t] = "idle"
    /\ nops < MaxOps
    /\ nops' = nops + 1
    /\ pc' = [pc EXCEPT ![t] = "begin"]
    /\ kind' = [kind EXCEPT ![t] = k]
    /\ opid' = [opid EXCEPT ![t] = nops + 1]

\* write_iter picks its lower file later, inside the SRCU section.
StartWrite(t) ==
    /\ StartOp(t, "write")
    /\ UNCHANGED <<inodeVars, write_seq, i_rwsem, asleep, cutVars, low, need,
                   fdVars, wmap, fileVars, noted, returned, restVars>>

\* splice_write, fallocate, remap and clone call smoothfs_lower_file first
\* and enter the SRCU section (smoothfs_begin_data_change) afterwards.
StartChange(t) ==
    /\ StartOp(t, "change")
    /\ low' = [low EXCEPT ![t] = LowerFile(t)]
    /\ Reissue(t)
    /\ UNCHANGED <<inodeVars, write_seq, i_rwsem, asleep, cutVars, need, wmap,
                   fileVars, noted, returned, restVars>>

\* notify_change holds inode_lock(inode) across ->setattr, which uses the
\* lower dentry of the name (kept equal to lower_path by every swap).
StartSetattr(t) ==
    /\ i_rwsem = "free"
    /\ StartOp(t, "setattr")
    /\ i_rwsem' = t
    /\ low' = [low EXCEPT ![t] = lower]
    /\ UNCHANGED <<inodeVars, write_seq, asleep, cutVars, need, fdVars, wmap,
                   fileVars, noted, returned, restVars>>

SrcuLock(t) ==
    /\ pc[t] = "begin"
    /\ pc' = [pc EXCEPT ![t] = "locked"]
    /\ UNCHANGED <<inodeVars, write_seq, i_rwsem, asleep, cutVars, kind, opid,
                   low, need, fdVars, wmap, fileVars, opVars, restVars>>

\* Faulty variant of Stalled: nobody waits for a cutover.
NeverStalled == FALSE

\* The condition under which a change waits on cutover_wq.
Stalled == movement_state = "cutover_in_progress"

\* The check inside the read-side section: park while a cutover runs, else
\* go on; write_iter takes its lower file here.
CheckState(t) ==
    /\ pc[t] = "locked"
    /\ \/ /\ Stalled
          /\ pc' = [pc EXCEPT ![t] = "parked"]
          /\ waitfor' = waitfor \ {t}
          /\ UNCHANGED <<low, fdVars>>
       \/ /\ ~Stalled
          /\ pc' = [pc EXCEPT ![t] = "crit"]
          /\ IF kind[t] = "write"
             THEN low' = [low EXCEPT ![t] = LowerFile(t)] /\ Reissue(t)
             ELSE UNCHANGED <<low, fdVars>>
          /\ UNCHANGED waitfor
    /\ UNCHANGED <<inodeVars, write_seq, i_rwsem, asleep, callVars, kind, opid,
                   need, wmap, fileVars, opVars, restVars>>

\* wait_event_interruptible: the condition is evaluated once before sleeping
\* and again only after a wake_up_all on cutover_wq.
Sleep(t) ==
    /\ pc[t] = "parked" /\ t \notin asleep
    /\ Stalled
    /\ asleep' = asleep \union {t}
    /\ UNCHANGED <<inodeVars, write_seq, i_rwsem, cutVars, taskVars, fdVars,
                   wmap, fileVars, opVars, restVars>>

Unpark(t) ==
    /\ pc[t] = "parked" /\ t \notin asleep
    /\ ~Stalled
    /\ pc' = [pc EXCEPT ![t] = "begin"]
    /\ UNCHANGED <<inodeVars, write_seq, i_rwsem, asleep, cutVars, kind, opid,
                   low, need, fdVars, wmap, fileVars, opVars, restVars>>

DropInodeLock(t) ==
    i_rwsem' = IF kind[t] = "setattr" THEN "free" ELSE i_rwsem

\* A signal ends the wait; the operation returns the error.
Interrupt(t) ==
    /\ pc[t] = "parked"
    /\ Return(t)
    /\ asleep' = asleep \ {t}
    /\ DropInodeLock(t)
    /\ UNCHANGED <<inodeVars, write_seq, cutVars, need,
                   fdVars, wmap, fileVars, opVars, restVars>>

\* The lower operation itself.
ApplyChange(t) ==
    /\ pc[t] = "crit"
    /\ data' = [data EXCEPT ![low[t]] = @ \union {opid[t]}]
    /\ pc' = [pc EXCEPT ![t] = "applied"]
    /\ UNCHANGED <<inodeVars, write_seq, i_rwsem, asleep, cutVars, kind, opid,
                   low, need, fdVars, wmap, nameVars, opVars,
                   restVars>>

\* The lower operation, or the reopen before it, returns an error: the task
\* leaves the SRCU section without counting a change.
ChangeFails(t) ==
    /\ pc[t] = "crit"
    /\ Return(t)
    /\ waitfor' = waitfor \ {t}
    /\ DropInodeLock(t)
    /\ UNCHANGED <<inodeVars, write_seq, asleep, callVars, need,
                   fdVars, wmap, fileVars, opVars, restVars>>

\* The file a create-or-open of the object's path on tier r yields.
FileOn(r) == IF backing[r] = NoFile THEN nfiles + 1 ELSE backing[r]

\* smoothfs_stage_truncate_to_fast: a truncate to zero of an object that is
\* not on the fastest tier rehomes it there.  The name may exist already.
\* Truncation supersedes every change started so far.  The file on the old
\* tier stays, and is remembered for a later drain.
StagedTruncate(t) ==
    /\ WriteStaging
    /\ pc[t] = "crit" /\ kind[t] = "setattr"
    /\ current_tier # FastestTier
    /\ FileOn(FastestTier) \in Files
    /\ LET f == FileOn(FastestTier)
       IN  /\ nfiles' = IF f > nfiles THEN f ELSE nfiles
           /\ backing' = [backing EXCEPT ![FastestTier] = f]
           /\ data' = [data EXCEPT ![f] = 1 .. nops]
           /\ lower' = f
           /\ stamped' = stamped \union {f}
    /\ current_tier' = FastestTier /\ intended_tier' = FastestTier
    /\ movement_state' = "placed" /\ transaction_seq' = 0
    /\ cutover_gen' = cutover_gen + 1
    /\ tracked' = TRUE /\ drain_tier' = current_tier
    /\ pc' = [pc EXCEPT ![t] = "applied"]
    /\ UNCHANGED <<mappings_quiesced, write_seq, i_rwsem, asleep, cutVars,
                   kind, opid, low, need, fdVars, wmap, opVars, moverVars,
                   drain>>

\* The rehome fails after the file was created and truncated there, before or
\* after it got the OID xattr: the error is returned and the file stays.
StagedTruncateFails(t) ==
    /\ WriteStaging
    /\ pc[t] = "crit" /\ kind[t] = "setattr"
    /\ current_tier # FastestTier
    /\ FileOn(FastestTier) \in Files
    /\ LET f == FileOn(FastestTier)
       IN  /\ nfiles' = IF f > nfiles THEN f ELSE nfiles
           /\ backing' = [backing EXCEPT ![FastestTier] = f]
           /\ data' = [data EXCEPT ![f] = 1 .. nops]
           /\ stamped' \in {stamped, stamped \union {f}}
    /\ Return(t)
    /\ waitfor' = waitfor \ {t}
    /\ DropInodeLock(t)
    /\ UNCHANGED <<inodeVars, write_seq, asleep, callVars, need, fdVars, wmap,
                   opVars, restVars>>

\* Faulty variant of CountChange: write_seq does not move.
CountChangeLost(t) ==
    /\ write_seq' = write_seq
    /\ noted' = noted \union {opid[t]}

CountChange(t) ==
    /\ write_seq' = write_seq + 1
    /\ noted' = noted \union {opid[t]}

\* write_iter: srcu_read_unlock comes first, smoothfs_note_data_change after
\* it, then the call returns.
WriteUnlock(t) ==
    /\ pc[t] = "applied" /\ kind[t] = "write"
    /\ pc' = [pc EXCEPT ![t] = "unlocked"]
    /\ waitfor' = waitfor \ {t}
    /\ UNCHANGED <<inodeVars, write_seq, i_rwsem, asleep, callVars, kind, opid,
                   low, need, fdVars, wmap, fileVars, opVars, restVars>>

WriteNote(t) ==
    /\ pc[t] = "unlocked"
    /\ CountChange(t)
    /\ returned' = returned \union {opid[t]}
    /\ Return(t)
    /\ UNCHANGED <<inodeVars, i_rwsem, asleep, cutVars, need,
                   fdVars, wmap, fileVars, nops, restVars>>

\* Every other path counts the change and then leaves the SRCU section.
NoteChange(t) ==
    /\ pc[t] = "applied" /\ kind[t] # "write"
    /\ CountChange(t)
    /\ pc' = [pc EXCEPT ![t] = "noted"]
    /\ UNCHANGED <<inodeVars, i_rwsem, asleep, cutVars, kind, opid, low, need,
                   fdVars, wmap, fileVars, nops, returned, restVars>>

EndChange(t) ==
    /\ pc[t] = "noted"
    /\ returned' = returned \union {opid[t]}
    /\ Return(t)
    /\ waitfor' = waitfor \ {t}
    /\ DropInodeLock(t)
    /\ UNCHANGED <<inodeVars, write_seq, asleep, callVars, need,
                   fdVars, wmap, fileVars, nops, noted, restVars>>
-----------------------------------------------------------------------------
\* A read takes its lower file outside any lock and reads it later.
ReadStart(t) ==
    /\ "read" \in Kinds
    /\ pc[t] = "idle"
    /\ pc' = [pc EXCEPT ![t] = "reading"]
    /\ low' = [low EXCEPT ![t] = LowerFile(t)]
    /\ need' = [need EXCEPT ![t] = returned]
    /\ Reissue(t)
    /\ UNCHANGED <<inodeVars, write_seq, i_rwsem, asleep, cutVars, kind, opid,
                   wmap, fileVars, opVars, restVars>>

ReadEnd(t) ==
    /\ pc[t] = "reading"
    /\ Return(t)
    /\ need' = [need EXCEPT ![t] = {}]
    /\ UNCHANGED <<inodeVars, write_seq, i_rwsem, asleep, cutVars,
                   fdVars, wmap, fileVars, opVars, restVars>>

Close(t) ==
    /\ "open" \in Kinds
    /\ pc[t] = "idle"
    /\ pc' = [pc EXCEPT ![t] = "closed"]
    /\ UNCHANGED <<inodeVars, write_seq, i_rwsem, asleep, cutVars, kind, opid,
                   low, need, fdVars, wmap, fileVars, opVars, restVars>>

\* smoothfs_open_lower opens lower_path and then samples cutover_gen.
OpenLower(t) ==
    /\ pc[t] = "closed"
    /\ pc' = [pc EXCEPT ![t] = "opening"]
    /\ fdlow' = [fdlow EXCEPT ![t] = lower]
    /\ UNCHANGED <<inodeVars, write_seq, i_rwsem, asleep, cutVars, kind, opid,
                   low, need, fdgen, wmap, fileVars, opVars, restVars>>

OpenSampleGen(t) ==
    /\ pc[t] = "opening"
    /\ pc' = [pc EXCEPT ![t] = "idle"]
    /\ fdgen' = [fdgen EXCEPT ![t] = cutover_gen]
    /\ UNCHANGED <<inodeVars, write_seq, i_rwsem, asleep, cutVars, kind, opid,
                   low, need, fdlow, wmap, fileVars, opVars, restVars>>

\* smoothfs_mmap binds the mapping to the lower file.
Mmap(t) ==
    /\ "mmap" \in Kinds
    /\ pc[t] = "idle" /\ wmap[t] = NoFile
    /\ ~mappings_quiesced
    /\ wmap' = [wmap EXCEPT ![t] = LowerFile(t)]
    /\ Reissue(t)
    /\ UNCHANGED <<inodeVars, write_seq, i_rwsem, asleep, cutVars, taskVars,
                   fileVars, opVars, restVars>>

\* A store reaches the mapped lower file directly; smoothfs sees nothing.
MmapStore(t) ==
    /\ pc[t] = "idle" /\ wmap[t] # NoFile
    /\ nops < MaxOps
    /\ nops' = nops + 1
    /\ data' = [data EXCEPT ![wmap[t]] = @ \union {nops + 1}]
    /\ returned' = returned \union {nops + 1}
    /\ UNCHANGED <<inodeVars, write_seq, i_rwsem, asleep, cutVars, taskVars,
                   fdVars, wmap, nameVars, noted, restVars>>

Munmap(t) ==
    /\ pc[t] = "idle" /\ wmap[t] # NoFile
    /\ wmap' = [wmap EXCEPT ![t] = NoFile]
    /\ UNCHANGED <<inodeVars, write_seq, i_rwsem, asleep, cutVars, taskVars,
                   fdVars, fileVars, opVars, restVars>>

-----------------------------------------------------------------------------
\* The drain of truncate rehomes (drain_one_rehome), started by a write to
\* write_staging_drain_active_tier_mask: sample the tier under inode_lock ...
DrainPick ==
    /\ drain.pc = "idle" /\ drain_tier # NoTier
    /\ i_rwsem = "free"
    /\ drain' = [pc |-> "unlink", tier |-> drain_tier]
    /\ UNCHANGED <<inodeVars, write_seq, i_rwsem, asleep, cutVars, taskVars,
                   fdVars, wmap, fileVars, opVars, moverVars, tracked,
                   drain_tier>>

\* ... unlink the object's path on that tier, without the lock ...
DrainUnlink ==
    /\ drain.pc = "unlink"
    /\ backing' = [backing EXCEPT ![drain.tier] = NoFile]
    /\ drain' = [drain EXCEPT !.pc = "clear"]
    /\ UNCHANGED <<inodeVars, write_seq, i_rwsem, asleep, cutVars, taskVars,
                   fdVars, wmap, data, nfiles, stamped, opVars, moverVars, tracked,
                   drain_tier>>

\* ... and clear the mark if it still names that tier.
DrainClear ==
    /\ drain.pc = "clear" /\ i_rwsem = "free"
    /\ drain_tier' = IF drain_tier = drain.tier THEN NoTier ELSE drain_tier
    /\ drain' = [pc |-> "idle", tier |-> NoTier]
    /\ UNCHANGED <<inodeVars, write_seq, i_rwsem, asleep, cutVars, taskVars,
                   fdVars, wmap, fileVars, opVars, moverVars, tracked>>

\* A name lookup after the dentry was reclaimed.  The parent is backed by
\* tier p where the name does not exist, and the path map has no entry, so
\* the tiers are scanned, and the first that has the name is the one found.
\* The OID xattr of that file leads smoothfs_iget to the object's inode, be it
\* lower_path or another copy.  smoothfs_set_inode_placement then records the
\* tier; it takes no lock and wakes nobody.
LookupRetracks ==
    /\ ~tracked
    /\ \E p \in Tiers : backing[p] = NoFile
    /\ \E r \in Tiers :
          /\ backing[r] \in stamped
          /\ \A s \in 0 .. r - 1 : backing[s] = NoFile
          /\ current_tier' = r /\ intended_tier' = r
    /\ movement_state' = "placed" /\ transaction_seq' = 0
    /\ tracked' = TRUE
    /\ UNCHANGED <<cutover_gen, mappings_quiesced, lower, write_seq, i_rwsem,
                   asleep, cutVars, taskVars, fdVars, wmap, fileVars, opVars,
                   moverVars, drain_tier, drain>>

StageStep == DrainPick \/ DrainUnlink \/ DrainClear \/ LookupRetracks

\* The steps of a task already inside an operation.
TaskStep(t) ==
    \/ SrcuLock(t) \/ CheckState(t) \/ Sleep(t) \/ Unpark(t) \/ Interrupt(t)
    \/ ApplyChange(t) \/ ChangeFails(t)
    \/ StagedTruncate(t) \/ StagedTruncateFails(t)
    \/ WriteUnlock(t) \/ WriteNote(t) \/ NoteChange(t) \/ EndChange(t)
    \/ ReadEnd(t) \/ OpenLower(t) \/ OpenSampleGen(t)

TaskStart(t) ==
    \/ StartWrite(t) \/ StartChange(t) \/ StartSetattr(t) \/ ReadStart(t)
    \/ Close(t) \/ Mmap(t) \/ MmapStore(t) \/ Munmap(t)
=============================================================================
