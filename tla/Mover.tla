------------------------------- MODULE Mover -------------------------------
(***************************************************************************)
(* tierd across restarts: the planner's queue, a pool of workers running   *)
(* Worker.execute (worker.go), the object's row and movement log in SQLite,*)
(* and Recover at service start (recovery_live.go, service.go), over the   *)
(* kernel object and the persistence of PlacementLog.  A movement command  *)
(* is one step here, except MOVE_CUTOVER, which waits for writers; Cutover *)
(* models what happens to users' operations meanwhile.                     *)
(***************************************************************************)
EXTENDS PlacementLog, FiniteSets

CONSTANTS
    Workers,      \* the goroutines of Service.Run
    Restarts,     \* which of kill, shutdown, crash, unmount happen; with
                  \* remount, an unmount may also fall between a worker's
                  \* first INSPECT and its MOVE_PLAN
    MaxPlans,     \* bound: plans the planner makes
    MaxRestarts   \* bound: restarts of tierd or of the mount

ASSUME MoverConstants ==
    /\ Restarts \subseteq {"kill", "shutdown", "crash", "unmount", "remount"}
    /\ MaxPlans \in Nat /\ MaxRestarts \in Nat

VARIABLES
    tierd,        \* up, closing, down or recovering
    plans,        \* planChan
    nseq,         \* Pool.seq: starts again with every registration
    planned,      \* plans made since the beginning
    wk,           \* per worker: where it is and the plan it executes
    row,          \* smoothfs_objects
    mlog,         \* smoothfs_movement_log: newest tiers of each sequence
    rv,           \* recoverObject
    restarts

tierdVars == <<tierd, plans, nseq, planned, wk, row, mlog, rv, restarts>>
vars == <<kernelVars, tierdVars>>

NoPlan == [src |-> NoTier, dst |-> NoTier, seq |-> 0]
Idle == [pc |-> "idle", plan |-> NoPlan, wseq |-> 0]

\* Row states are those recovery and the workers tell apart: plan_accepted to
\* cleanup_in_progress are "moving".
WorkerPcs == {"idle", "intent", "plan", "copy", "copying", "verify",
              "stable", "cutover", "cutting", "refused", "abort", "switched", "sync",
              "complete", "finalize"}

\* Between persistIntent and the end of execute.
Holds(w) == wk[w].pc \notin {"idle", "intent"}

NoRecovery == [pc |-> "none", keep |-> NoTier, other |-> NoTier,
               state |-> "placed", seq |-> 0]

\* Types of tierd's state: in particular a row is never left in a state that
\* recovery does not know.
TypeOK ==
    /\ mounted \in BOOLEAN
    /\ ko.state \in States /\ ko.tier \in Tiers /\ ko.intended \in Tiers
    /\ name \in [Tiers -> Copies] /\ disk \in [Tiers -> Copies]
    /\ last \in Records \union {NoRecord} /\ tail \in Seq(Records)
    /\ pindex \in Tiers \union {NoEntry, NoIndex}
    /\ wrote \in 0 .. MaxWrites
    /\ tierd \in {"up", "closing", "down", "recovering"}
    /\ \A w \in Workers : wk[w].pc \in WorkerPcs
    /\ row.state \in {"placed", "moving", "failed"} /\ row.cur \in Tiers

Init ==
    /\ mounted = TRUE
    /\ \E t \in Tiers :
         /\ ko = Inode("placed", t, t, 0)
         /\ name = [u \in Tiers |-> IF u = t THEN [kind |-> "whole",
                                        data |-> {}, oid |-> "own"]
                                    ELSE Absent]
         /\ row = [state |-> "placed", cur |-> t, intended |-> NoTier,
                   seq |-> 0]
         /\ pindex \in {t, NoIndex}
    /\ disk = name
    /\ last = NoRecord /\ tail = <<>>
    /\ rec = ReplayRecord(last, FALSE, Indexed)
    /\ wrote = 0
    /\ tierd = "up" /\ plans = <<>> /\ nseq = 0 /\ planned = 0
    /\ wk = [w \in Workers |-> Idle]
    /\ mlog = [s \in 1 .. MaxPlans |-> NoPlan]
    /\ rv = NoRecovery /\ restarts = 0
-----------------------------------------------------------------------------
(* The planner and a worker.                                               *)

Goto(w, p) == wk' = [wk EXCEPT ![w].pc = p]
Done(w) == wk' = [wk EXCEPT ![w] = Idle]
LogTransition(p) == mlog' = [mlog EXCEPT ![p.seq] = p]

\* planPool: a placed row, the neighbouring tier up or down.
PlanPool(dst) ==
    /\ tierd = "up" /\ planned < MaxPlans
    /\ row.state = "placed"
    /\ dst - row.cur \in {-1, 1}
    /\ nseq' = nseq + 1 /\ planned' = planned + 1
    /\ plans' = Append(plans, [src |-> row.cur, dst |-> dst, seq |-> nseq + 1])
    /\ UNCHANGED <<kernelVars, tierd, wk, row, mlog, rv, restarts>>

\* INSPECT before anything else; a plan for an object in another movement is
\* dropped, and Worker.Run logs the error.
Inspectable == ko.here \/ ~Resolvable

WorkerInspect(w) ==
    /\ tierd = "up" /\ wk[w].pc = "idle" /\ plans # <<>> /\ Inspectable
    /\ plans' = Tail(plans)
    /\ \/ /\ mounted /\ ko.here /\ ko.state = "placed"
          /\ wk' = [wk EXCEPT ![w] = [pc |-> "intent", plan |-> Head(plans),
                                      wseq |-> ko.writes]]
          /\ UNCHANGED mlog
       \/ LogTransition(Head(plans)) /\ UNCHANGED wk
    /\ UNCHANGED <<kernelVars, tierd, nseq, planned, row, rv, restarts>>

\* Once the service closes, its context is cancelled and SQL fails.
SqlWorks == tierd = "up"

\* Faulty variant: the upsert has no condition on the row's state.
PersistIntentAlways(w) ==
    /\ wk[w].pc = "intent"
    /\ row' = [row EXCEPT !.state = "moving", !.intended = wk[w].plan.dst,
                          !.seq = wk[w].plan.seq]
    /\ Goto(w, "plan")
    /\ LogTransition(wk[w].plan)
    /\ UNCHANGED <<kernelVars, tierd, plans, nseq, planned, rv, restarts>>

PersistIntent(w) ==
    /\ wk[w].pc = "intent"
    /\ IF SqlWorks /\ row.state \in {"placed", "failed"}
       THEN /\ row' = [row EXCEPT !.state = "moving",
                                  !.intended = wk[w].plan.dst,
                                  !.seq = wk[w].plan.seq]
            /\ Goto(w, "plan")
       ELSE Done(w) /\ UNCHANGED row
    /\ IF SqlWorks THEN LogTransition(wk[w].plan) ELSE UNCHANGED mlog
    /\ UNCHANGED <<kernelVars, tierd, plans, nseq, planned, rv, restarts>>

\* A reply reaches a worker unless the service closed its socket.
Replied(w, p, otherwise) == Goto(w, IF tierd = "up" THEN p ELSE otherwise)

\* The generic netlink family runs one command at a time.
NoCommand == ko.state # "cutover_in_progress"

workerRest == <<tierd, plans, nseq, planned, row, mlog, rv, restarts>>

MovePlan(w) ==
    /\ wk[w].pc = "plan" /\ NoCommand
    /\ PlanAccept(wk[w].plan.dst, wk[w].plan.seq)
    /\ Replied(w, "copy", "abort")
    /\ UNCHANGED workerRest

MovePlanRefused(w) ==
    /\ wk[w].pc = "plan" /\ NoCommand
    /\ Goto(w, "abort")
    /\ UNCHANGED <<kernelVars, workerRest>>

WriteName(t, f) ==
    /\ name' = [name EXCEPT ![t] = f]
    /\ ko' = [ko EXCEPT !.linked = @ /\ ~(f = Absent /\ t = ko.tier)]
    /\ UNCHANGED <<mounted, last, tail, pindex, rec, wrote>>

\* copyWithChecksum: O_CREATE|O_TRUNC, which keeps an existing file's OID ...
CopyStart(w) ==
    LET p == wk[w].plan IN
    /\ wk[w].pc = "copy" /\ name[p.src].kind # "absent"
    /\ WriteName(p.dst, [kind |-> "torn", data |-> {}, oid |-> name[p.dst].oid])
    /\ Goto(w, "copying")
    /\ UNCHANGED <<disk, workerRest>>

\* ... the bytes, fsync, and fsync of the directory.
CopyDone(w) ==
    LET p == wk[w].plan IN
    /\ wk[w].pc = "copying"
    /\ name[p.src].kind # "absent" /\ name[p.dst].kind # "absent"
    /\ WriteName(p.dst, [name[p.src] EXCEPT !.oid = name[p.dst].oid])
    /\ disk' = [disk EXCEPT ![p.dst] = name'[p.dst]]
    /\ Goto(w, "verify")
    /\ UNCHANGED workerRest

\* The destination's hash and the source's, read again, agree with the first,
\* as do the source's times.
Verify(w) ==
    LET p == wk[w].plan IN
    /\ wk[w].pc = "verify"
    /\ name[p.src].data = name[p.dst].data
    /\ Goto(w, "stable")
    /\ UNCHANGED <<kernelVars, workerRest>>

\* The second INSPECT reports the write_seq of the first.
InspectStable(w) ==
    /\ wk[w].pc = "stable" /\ tierd = "up"
    /\ mounted /\ ko.here /\ wk[w].wseq = ko.writes
    /\ Goto(w, "cutover")
    /\ UNCHANGED <<kernelVars, workerRest>>

CopyFails(w) ==
    /\ wk[w].pc \in {"copy", "copying", "verify", "stable"}
    /\ Goto(w, "refused")
    /\ UNCHANGED <<kernelVars, workerRest>>

MoveCutover(w) ==
    /\ wk[w].pc = "cutover" /\ NoCommand
    /\ \/ CutoverBegin(wk[w].plan.seq, wk[w].wseq) /\ Goto(w, "cutting")
       \/ Goto(w, "refused") /\ UNCHANGED kernelVars
    /\ UNCHANGED workerRest

\* The kernel ends the cutover and replies to the worker that still waits.
CutoverReply(p) ==
    wk' = [w \in Workers |-> IF wk[w].pc # "cutting" THEN wk[w]
             ELSE [wk[w] EXCEPT !.pc = IF tierd = "up" THEN p ELSE "refused"]]

CutoverSucceeds == CutoverSwitch /\ CutoverReply("switched")
                   /\ UNCHANGED workerRest

CutoverFails ==
    /\ \E s \in {"copy_verified", "failed"} : CutoverUndo(s)
    /\ CutoverReply("refused")
    /\ UNCHANGED workerRest

\* os.Remove(dstPath), not synced ...
RemoveDestination(w) ==
    /\ wk[w].pc = "refused"
    /\ WriteName(wk[w].plan.dst, Absent)
    /\ Goto(w, "abort")
    /\ UNCHANGED <<disk, workerRest>>

\* Faulty variant: the row is placed again although the kernel is not told.
AbortPlaced(w) ==
    /\ wk[w].pc = "abort"
    /\ row' = [row EXCEPT !.state = "placed", !.intended = NoTier]
    /\ Done(w)
    /\ UNCHANGED <<kernelVars, tierd, plans, nseq, planned, mlog, rv, restarts>>

\* ... and the row.  The kernel is not told.
Abort(w) ==
    /\ wk[w].pc = "abort"
    /\ row' = IF SqlWorks THEN [row EXCEPT !.state = "failed",
                                           !.intended = NoTier]
                          ELSE row
    /\ Done(w)
    /\ UNCHANGED <<kernelVars, tierd, plans, nseq, planned, mlog, rv, restarts>>

RemoveSource(w) ==
    /\ wk[w].pc = "switched"
    /\ WriteName(wk[w].plan.src, Absent)
    /\ Goto(w, "sync")
    /\ UNCHANGED <<disk, workerRest>>

SyncSource(w) ==
    /\ wk[w].pc = "sync"
    /\ disk' = [disk EXCEPT ![wk[w].plan.src] = name[wk[w].plan.src]]
    /\ Goto(w, "complete")
    /\ UNCHANGED <<mounted, ko, name, last, tail, pindex, rec, wrote, workerRest>>

MoveComplete(w) ==
    /\ wk[w].pc = "complete" /\ NoCommand
    /\ CompleteAccept(wk[w].plan.seq)
    /\ IF tierd = "up" THEN Goto(w, "finalize") ELSE Done(w)
    /\ UNCHANGED workerRest

\* cleanupFailed: the row stays in cleanup_in_progress.
CleanupFails(w) ==
    /\ wk[w].pc \in {"switched", "sync", "complete"}
    /\ Done(w)
    /\ UNCHANGED <<kernelVars, workerRest>>

Finalize(w) ==
    /\ wk[w].pc = "finalize"
    /\ row' = IF SqlWorks
              THEN [row EXCEPT !.state = "placed", !.intended = NoTier,
                               !.cur = wk[w].plan.dst]
              ELSE row
    /\ Done(w)
    /\ UNCHANGED <<kernelVars, tierd, plans, nseq, planned, mlog, rv, restarts>>

WorkerStep(w) ==
    \/ WorkerInspect(w) \/ PersistIntent(w) \/ MovePlan(w)
    \/ MovePlanRefused(w) \/ CopyStart(w) \/ CopyDone(w) \/ Verify(w)
    \/ InspectStable(w) \/ CopyFails(w) \/ MoveCutover(w) \/ RemoveDestination(w) \/ Abort(w)
    \/ RemoveSource(w) \/ SyncSource(w) \/ MoveComplete(w)
    \/ CleanupFails(w) \/ Finalize(w)
-----------------------------------------------------------------------------
(* Restarts of tierd and of the mount.                                     *)

Counted(kind) == kind \in Restarts /\ restarts < MaxRestarts
                 /\ restarts' = restarts + 1

\* The process ends wherever it is; a MOVE_CUTOVER in the kernel runs on.
Gone == /\ tierd' = "down" /\ plans' = <<>> /\ nseq' = 0
        /\ wk' = [w \in Workers |-> Idle]
        /\ rv' = NoRecovery

Kill ==
    /\ Counted("kill") /\ tierd \in {"up", "recovering"}
    /\ Gone
    /\ UNCHANGED <<kernelVars, planned, row, mlog>>

\* ctx.Done: the client is closed while the workers run on to their end.
Shutdown ==
    /\ Counted("shutdown") /\ tierd = "up"
    /\ tierd' = "closing" /\ plans' = <<>>
    /\ UNCHANGED <<kernelVars, nseq, planned, wk, row, mlog, rv>>

Exit ==
    /\ tierd = "closing" /\ \A w \in Workers : wk[w].pc = "idle"
    /\ Gone
    /\ UNCHANGED <<kernelVars, planned, row, mlog, restarts>>

HostCrash ==
    /\ Counted("crash") /\ Crash /\ Gone
    /\ UNCHANGED <<planned, row, mlog>>

PoolUnmount ==
    /\ Counted("unmount") /\ NoCommand /\ Unmount
    /\ "remount" \notin Restarts =>
          \A w \in Workers : wk[w].pc \notin {"intent", "plan"}
    /\ UNCHANGED <<tierd, plans, nseq, planned, wk, row, mlog, rv>>

PoolMount == (\E scan \in BOOLEAN : Mount(scan)) /\ UNCHANGED tierdVars

\* The kernel on its own: writeback, the index worker, users and NFS clients.
KernelStep ==
    /\ FlushRecord \/ PathIndexRebuild \/ InstantiateOne \/ PathLookup
       \/ UserWrite
    /\ UNCHANGED tierdVars
-----------------------------------------------------------------------------
(* Service.Run: Recover, then the planner and the workers.                 *)

recoverRest == <<plans, nseq, planned, wk, mlog, restarts>>

Start ==
    /\ tierd = "down" /\ NoCommand
    /\ tierd' = IF row.state = "placed" THEN "up" ELSE "recovering"
    /\ rv' = IF row.state = "placed" THEN NoRecovery
                                     ELSE [NoRecovery EXCEPT !.pc = "inspect"]
    /\ UNCHANGED <<kernelVars, row, recoverRest>>

\* Faulty variant: the first object that cannot be recovered stops the start.
GiveUpStart == rv' = NoRecovery /\ UNCHANGED <<tierd, row, recoverRest>>

\* recoverObject returns an error: the row is left for the next start.
GiveUp == tierd' = "up" /\ rv' = NoRecovery /\ UNCHANGED <<row, recoverRest>>

\* The tiers of the movement: the row, or the log of its sequence.
Recorded ==
    IF row.intended # NoTier THEN [src |-> row.cur, dst |-> row.intended]
    ELSE IF row.seq \in DOMAIN mlog
         THEN [src |-> mlog[row.seq].src, dst |-> mlog[row.seq].dst]
         ELSE [src |-> row.cur, dst |-> NoTier]

\* What recoverObject requires before it touches either path.
RecoverValid ==
    /\ ko.state = "placed" \/ ko.seq = row.seq
    /\ Recorded.dst # NoTier /\ Recorded.src # Recorded.dst
    /\ ko.tier \in {Recorded.src, Recorded.dst}
    /\ name[ko.tier].kind # "absent"
    /\ ko.state = "switched" => ko.tier = Recorded.dst
    /\ ko.state \in PreCutover \union {"failed"} => ko.tier = Recorded.src

RecoverInspect ==
    /\ rv.pc = "inspect" /\ Inspectable
    /\ IF mounted /\ ko.here /\ RecoverValid
       THEN /\ rv' = [pc |-> "remove", keep |-> ko.tier,
                      other |-> IF ko.tier = Recorded.dst THEN Recorded.src
                                                          ELSE Recorded.dst,
                      state |-> ko.state, seq |-> ko.seq]
            /\ UNCHANGED <<tierd, row, recoverRest>>
       ELSE (mounted => ko.here) /\ GiveUp
    /\ UNCHANGED kernelVars

\* warmRecoveryObject: ENOENT, so look the path up and check the OID found.
Warm ==
    /\ rv.pc = "inspect" /\ mounted /\ ~ko.here /\ ~Resolvable
    /\ \/ PathLookup /\ (IF ko'.here THEN UNCHANGED <<tierd, rv, row, recoverRest>>
                                     ELSE GiveUp)
       \/ (\A t \in Tiers : name[t].kind = "absent") /\ GiveUp
          /\ UNCHANGED kernelVars

\* The other copy is removed and its directory synced.
RecoverRemove ==
    /\ rv.pc = "remove"
    /\ WriteName(rv.other, Absent)
    /\ disk' = [disk EXCEPT ![rv.other] = Absent]
    /\ rv' = [rv EXCEPT !.pc = "ack"]
    /\ UNCHANGED <<tierd, row, recoverRest>>

RecoverAck ==
    /\ rv.pc = "ack"
    /\ \/ rv.state = "switched" /\ CompleteAccept(rv.seq)
       \/ rv.state = "placed" /\ UNCHANGED kernelVars
       \/ rv.state \in PreCutover \union {"failed"} /\ RollbackAccept(rv.seq)
    /\ rv' = [rv EXCEPT !.pc = "settle"]
    /\ UNCHANGED <<tierd, row, recoverRest>>

\* Faulty variant: the row takes its own intended tier, which abort cleared.
RecoverSettleIntended ==
    /\ rv.pc = "settle" /\ Inspectable
    /\ row' = [row EXCEPT !.state = "placed", !.intended = NoTier,
                          !.cur = row.intended]
    /\ tierd' = "up" /\ rv' = NoRecovery
    /\ UNCHANGED <<kernelVars, recoverRest>>

\* The second INSPECT, then the row.
RecoverSettle ==
    /\ rv.pc = "settle" /\ Inspectable
    /\ IF mounted /\ ko.here /\ ko.state = "placed" /\ ko.tier = rv.keep
       THEN /\ row' = [row EXCEPT !.state = "placed", !.intended = NoTier,
                                  !.cur = rv.keep]
            /\ tierd' = "up" /\ rv' = NoRecovery /\ UNCHANGED recoverRest
       ELSE GiveUp
    /\ UNCHANGED kernelVars

\* A removal, a barrier or an acknowledgement fails.
RecoverFails == rv.pc \in {"remove", "ack"} /\ GiveUp /\ UNCHANGED kernelVars

RecoverStep == RecoverInspect \/ Warm \/ RecoverRemove \/ RecoverAck
               \/ RecoverSettle

Next ==
    \/ \E dst \in Tiers : PlanPool(dst)
    \/ \E w \in Workers : WorkerStep(w)
    \/ CutoverSucceeds \/ CutoverFails
    \/ Kill \/ Shutdown \/ Exit \/ HostCrash \/ PoolUnmount \/ PoolMount
    \/ KernelStep
    \/ Start \/ RecoverStep \/ RecoverFails

Spec == Init /\ [][Next]_vars

\* A command and a started service go on; nothing else has to.
Fairness ==
    /\ WF_vars(CutoverSucceeds \/ CutoverFails)
    /\ WF_vars(InstantiateOne /\ UNCHANGED tierdVars)
    /\ WF_vars(Start) /\ WF_vars(RecoverStep \/ RecoverFails)
FairSpec == Spec /\ Fairness
-----------------------------------------------------------------------------
Current(f) == f.kind = "whole" /\ f.data = 1 .. wrote

\* The tier the kernel calls authoritative names the file users write to, and
\* that file holds everything they wrote, whatever the workers and recovery
\* have removed so far.
AuthoritativeCurrent ==
    ko.here => ko.linked /\ Current(name[ko.tier])

\* Two workers never move the object at the same time, although the planner
\* queues an object again while an earlier plan for it waits: the row is the
\* lock.
OneMover == \A v, w \in Workers : Holds(v) /\ Holds(w) => v = w

\* A row that says placed agrees with the kernel about state and tier, and no
\* other tier still names a copy.
PlacedAgrees ==
    row.state = "placed" =>
        /\ ko.here => ko.state = "placed" /\ ko.tier = row.cur
        /\ \A t \in Tiers \ {row.cur} : name[t].kind = "absent"

\* MOVE_CUTOVER publishes a complete copy with every write the replaced file
\* holds, even if tierd, the pool or the host was restarted meanwhile: write_seq
\* starts again from 0 with every inode, but so does transaction_seq, which
\* refuses the cutover of a movement planned before.  A remount between the
\* worker's first INSPECT and its MOVE_PLAN escapes both (Restarts has it as
\* remount).
SwitchKeepsWrites ==
    [][ko'.state = "switched" /\ ko.state # "switched"
         => /\ name'[ko'.tier].kind = "whole"
            /\ ko.linked => name[ko.tier].data \subseteq name'[ko'.tier].data]_vars

\* Recovery comes to an end, and tierd serves again, after every restart.
StartCompletes == tierd \in {"down", "recovering"} ~> tierd = "up"

\* An interrupted movement is one recovery can settle: when it inspects the
\* object, row, log and kernel agree about transaction and tiers.
RecoveryPossible == rv.pc = "inspect" /\ NoCommand => RecoverValid

\* Some tier names a file with everything users wrote and synced.
SyncedSurvives == \E t \in Tiers : Current(name[t])
=============================================================================
