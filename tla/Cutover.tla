------------------------------- MODULE Cutover -------------------------------
(***************************************************************************)
(* One object, its tasks and its mover running together, and what the      *)
(* cutover protocol must guarantee.                                        *)
(***************************************************************************)
EXTENDS DataPath, MoveWorker

Next ==
    \/ \E t \in Threads : TaskStart(t) \/ TaskStep(t)
    \/ CutoverStep
    \/ WorkerStep
    \/ RevokeMappings
    \/ StageStep

Spec == Init /\ [][Next]_vars

(***************************************************************************)
(* Fairness.  The kernel schedules a task that can run, and the drain      *)
(* timer fires.  No fairness on the lower filesystem's own I/O             *)
(* (ApplyChange), on signals, or on anything a user starts.                *)
(***************************************************************************)
Fairness ==
    /\ \A t \in Threads : WF_vars(SrcuLock(t) \/ CheckState(t) \/ Sleep(t)
                                  \/ Unpark(t) \/ WriteUnlock(t)
                                  \/ WriteNote(t) \/ NoteChange(t)
                                  \/ EndChange(t))
    /\ WF_vars(CutoverStep)

FairSpec == Spec /\ Fairness
-----------------------------------------------------------------------------
(***************************************************************************)
(* The inductive invariant behind the safety properties.                   *)
(***************************************************************************)
InProgress == {"begin", "locked", "parked", "crit", "applied", "unlocked",
               "noted"}

\* Every change in progress has its own number, not counted yet, and a lower
\* file once it has taken one.
OpInv ==
    /\ noted \subseteq 1 .. nops
    /\ \A t \in Threads : pc[t] \in InProgress =>
          /\ opid[t] \in 1 .. nops
          /\ kind[t] # "none"
          /\ pc[t] # "noted" => opid[t] \notin noted
          /\ kind[t] # "write" \/ pc[t] \in {"crit", "applied"}
                => low[t] # NoFile
          /\ \A u \in Threads \ {t} : pc[u] \in InProgress
                                          => opid[u] # opid[t]
    /\ \A t \in Threads : pc[t] = "reading" => low[t] # NoFile

\* The part of a MOVE_CUTOVER call that holds inode_lock again.
Publishing == cut \in {"checked", "resolved", "publish"}

\* A call is made by the worker, which waits for it, and swaps to a file it
\* has resolved.
CallInv ==
    /\ cut # "idle" => mv.pc = "cutting"
    /\ cut = "resolved" => dest_path # NoFile

\* Once the state is flipped, whoever is past the barrier is waited for.
BarrierInv ==
    /\ cut \in {"drain", "sync", "drained"}
          => \A t \in Threads : PastBarrier(t) => t \in waitfor
    /\ cut = "drained" => waitfor = {}
    /\ Publishing => \A t \in Threads : ~PastBarrier(t)

\* Without write staging, tierd's idea of the source and destination agrees
\* with the kernel's, and no two tiers name one file.
PlaceInv ==
    /\ cut # "publish" => backing[current_tier] = lower
    /\ cut = "publish" => backing[mv.dst] = lower
    /\ cut = "resolved" => backing[mv.dst] = dest_path
    /\ \A r, s \in Tiers : r # s /\ backing[r] = backing[s]
                              => backing[r] = NoFile
    /\ \A r \in Tiers : backing[r] <= nfiles
    /\ mv.pc = "idle" => db_tier = current_tier
    /\ mv.pc # "idle" => mv.src # mv.dst
    /\ mv.pc \in {"intent", "planned", "copying", "copied", "stable",
                  "verified", "cutting", "refused"} => current_tier = mv.src
    /\ mv.pc \in {"switched", "cleaned"} => current_tier = mv.dst
    /\ mv.pc \in Recovering \union {"failed"}
          => current_tier \in {mv.src, mv.dst}
    /\ mv.pc \in Recovering => mv.keep = current_tier
    /\ (/\ mv.pc \in {"planned", "copying", "copied", "stable", "verified",
                      "cutting"}
        /\ movement_state \in PreCutover \union {"cutover_in_progress"})
          => intended_tier = mv.dst
    /\ mv.pc \in {"copying", "copied", "stable", "verified", "cutting"}
          => backing[mv.dst] # NoFile
    /\ drain_tier = NoTier /\ drain.pc = "idle"

\* While no further change is counted, the copy holds every counted change
\* the source holds; after the comparison, those counted until then.
CopyInv ==
    /\ mv.seq <= write_seq
    /\ (/\ mv.pc \in {"copied", "stable", "verified", "cutting"}
        /\ ~Publishing /\ write_seq = mv.seq)
          => data[lower] \intersect noted \subseteq data[backing[mv.dst]]
    /\ cut \in {"checked", "resolved"}
          => data[lower] \intersect compared \subseteq data[backing[mv.dst]]
    /\ compared \subseteq noted

\* If no lookup re-tracks the object, only the call that flipped the state to
\* CUTOVER_IN_PROGRESS takes it back, also when setattr may rehome the object:
\* a setattr holds inode_lock, under which the state is flipped, and one that
\* starts afterwards parks before it can rehome.
OwnerInv ==
    /\ tracked
    /\ movement_state = "cutover_in_progress" <=> cut # "idle"
    /\ movement_state # "placed" => mv.pc # "idle" /\ transaction_seq = mv.txn
    /\ asleep # {} => cut # "idle"
    /\ Publishing <=> i_rwsem = "cutover"
    /\ \A t \in Threads : kind[t] = "setattr" =>
          i_rwsem = t /\ (cut # "idle" => pc[t] # "crit")

\* If no descriptor is opened, one whose generation is current refers to
\* lower_path, except between the two statements of a switch.
FdInv ==
    /\ \A t \in Threads : pc[t] \notin {"closed", "opening"}
    /\ \A t \in Threads : fdgen[t] <= cutover_gen
    /\ cut # "publish" =>
          \A t \in Threads : fdgen[t] = cutover_gen => fdlow[t] = lower

CutoverInv ==
    /\ TypeOK /\ OpInv /\ CallInv
    /\ "lookup" \notin Kinds => BarrierInv /\ OwnerInv
    /\ "lookup" \notin Kinds /\ ~WriteStaging => PlaceInv /\ CopyInv
    /\ "open" \notin Kinds => FdInv
-----------------------------------------------------------------------------
\* The barrier: from the moment the cutover holds inode_lock again until the
\* destination is published, no task is past the movement_state check inside
\* an SRCU section, so no covered change is being applied (movement.c "drain
\* in-flight writes").
Barrier == Publishing => \A t \in Threads : ~PastBarrier(t)

\* The switch never publishes a copy that misses a change write_seq had counted
\* when movement_cutover compared it with the worker's INSPECT from before the
\* copy: neither the copy, the two hashes, the second INSPECT nor the sleeping
\* steps between the comparison and the swap lose such a change.
SwitchPublishesNoted ==
    [][cut = "resolved" /\ cut' = "publish"
         => data[lower] \intersect compared \subseteq data[lower']]_vars

\* Outside the two statements of a switch, the object's path on its current
\* tier names the file lower_path refers to: no failure path of the worker or
\* of recovery removes or replaces the authoritative copy.
AuthoritativeNamed == cut # "publish" => backing[current_tier] = lower

\* A descriptor whose generation is current uses the authoritative file: this
\* is what makes the comparison in smoothfs_reissue_lower sufficient.
FdFollowsCutover ==
    \A t \in Threads :
        (cut # "publish" /\ pc[t] \notin {"closed", "opening"}
            /\ fdgen[t] = cutover_gen) => fdlow[t] = lower

\* A change that was reported done is in the authoritative file.
NoLostChange == cut # "publish" => returned \subseteq data[lower]

\* A read returns every change that had returned before the read began.
ReadsSeeReturned ==
    \A t \in Threads : pc[t] = "reading" => need[t] \subseteq data[low[t]]

\* The authoritative file, seen by users, behaves as the single atomic copy of
\* AtomicObject: a movement never changes what the object holds.
Register == INSTANCE AtomicObject WITH
                Changes <- Ops, contents <- data[lower], acked <- returned
ImplementsAtomicObject == Register!Spec

\* Every movement state other than PLACED belongs to the transaction tierd
\* holds a row for, so the checks of recoverObject let it settle the object.
OwnedTransaction ==
    movement_state # "placed" => /\ mv.pc # "idle"
                                 /\ transaction_seq = mv.txn

\* A task asleep on cutover_wq has a cutover that will wake it.
SleepersHaveCutover == asleep # {} => cut # "idle"

\* The drain of truncate rehomes removes stale originals only.
DrainRemovesStaleOnly ==
    [][drain.pc = "unlink" /\ drain'.pc = "clear"
         => backing[drain.tier] # lower]_vars

\* A move that fails before the switch leaves the object's authoritative
\* file in place: os.Remove(dstPath) removes only the worker's own copy.
AbortKeepsAuthoritative ==
    [][mv.pc = "refused" /\ mv'.pc = "failed" => backing[mv.dst] # lower]_vars

\* The switch replaces the file the worker copied from.
SwitchReplacesCopiedSource ==
    [][cut = "resolved" /\ cut' = "publish" => backing[mv.src] = lower]_vars

\* No data-changing operation commits between userspace verification and the
\* kernel lower-path swap: the swap publishes every change applied.
NoCommitBeforeSwap ==
    [][cut = "resolved" /\ cut' = "publish"
         => data[lower] \subseteq data[lower']]_vars

\* Movement is refused while a writable shared mapping of the source exists.
NoSwitchWhileMapped ==
    [][cut = "resolved" /\ cut' = "publish" => ~WritablyMapped]_vars

\* A MOVE_CUTOVER call returns, however long a lower write stalls.
CutoverReturns == (cut # "idle") ~> (cut = "idle")

\* A task parked on cutover_wq leaves the wait.
ParkedProceeds ==
    \A t \in Threads : (pc[t] = "parked") ~> (pc[t] # "parked")
=============================================================================
