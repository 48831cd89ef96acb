---------------------------- MODULE WorkerProofs ----------------------------
(***************************************************************************)
(* The row is a lock: two workers never move the object at the same time.  *)
(* On it rests the first half of the argument about a service that may be  *)
(* killed at any point: the planner and a worker up to the end of its copy *)
(* keep the part Settled of the invariant.                                 *)
(***************************************************************************)
EXTENDS MoverInvariants, TLAPS

\* The service starts on a settled row.
LEMMA InitLockInv == Init => LockInv
  BY DEF Init, LockInv, LockShape, OneMover, Holds, Idle, NoRecovery

\* persistIntent: the worker that finds the row settled takes it.
LEMMA PersistIntentLockInv ==
  ASSUME LockInv, NEW w \in Workers, PersistIntent(w)
  PROVE  LockInv'
<1> USE DEF LockInv, LockShape, OneMover, Holds
<1>1. CASE SqlWorks /\ row.state \in {"placed", "failed"}
  <2>1. wk' = [wk EXCEPT ![w].pc = "plan"]
        /\ row' = [row EXCEPT !.state = "moving",
                                  !.intended = wk[w].plan.dst,
                                  !.seq = wk[w].plan.seq]
        /\ UNCHANGED <<rv, tierd>> /\ tierd = "up"
    BY <1>1 DEF PersistIntent, Goto, SqlWorks
  <2>2. row'.state = "moving" /\ "state" \in DOMAIN row'
    BY <2>1
  <2>3. wk'[w].pc = "plan" /\ \A v \in Workers \ {w} : wk'[v] = wk[v]
    BY <2>1
  <2>4. DOMAIN wk' = Workers /\ \A v \in Workers : "pc" \in DOMAIN wk'[v]
    BY Zenon, <2>1
  <2> QED BY Zenon, <2>1, <2>2, <2>3, <2>4, <1>1
<1>2. CASE ~(SqlWorks /\ row.state \in {"placed", "failed"})
  BY <1>2 DEF PersistIntent, Done, Idle
<1> QED BY Zenon, <1>1, <1>2

\* Apart from persistIntent, a step of a worker only gives up or keeps what
\* the worker holds, and leaves the other workers alone.
LEMMA WorkerLockInv ==
  ASSUME LockInv, NEW w \in Workers, WorkerStep(w), ~PersistIntent(w)
  PROVE  LockInv'
<1> USE DEF LockInv, LockShape
<1>1. /\ DOMAIN wk' = Workers
      /\ "pc" \in DOMAIN wk'[w]
      /\ \A v \in Workers \ {w} : wk'[v] = wk[v]
      /\ wk'[w].pc \notin {"idle", "intent"} => Holds(w)
      /\ tierd \in {"down", "recovering"} => wk'[w].pc = "idle"
  <2> USE DEF Holds, Goto, Done, Idle, Replied
  <2>1. CASE WorkerInspect(w) BY <2>1 DEF WorkerInspect
  <2>2. CASE MovePlan(w) BY <2>2 DEF MovePlan
  <2>3. CASE MovePlanRefused(w) BY Zenon, <2>3 DEF MovePlanRefused
  <2>4. CASE CopyStart(w) BY Zenon, <2>4 DEF CopyStart
  <2>5. CASE CopyDone(w) BY <2>5 DEF CopyDone
  <2>6. CASE Verify(w) \/ InspectStable(w) BY <2>6 DEF Verify, InspectStable
  <2>7. CASE CopyFails(w) BY <2>7 DEF CopyFails
  <2>8. CASE MoveCutover(w) BY <2>8 DEF MoveCutover
  <2>9. CASE RemoveDestination(w) BY <2>9 DEF RemoveDestination
  <2>10. CASE Abort(w) BY <2>10 DEF Abort
  <2>11. CASE RemoveSource(w) BY <2>11 DEF RemoveSource
  <2>12. CASE SyncSource(w) BY Zenon, <2>12 DEF SyncSource
  <2>13. CASE MoveComplete(w) BY <2>13 DEF MoveComplete
  <2>14. CASE CleanupFails(w) BY <2>14 DEF CleanupFails
  <2>15. CASE Finalize(w) BY <2>15 DEF Finalize
  <2> QED
    BY ZenonT(60), <2>1, <2>2, <2>3, <2>4, <2>5, <2>6, <2>7, <2>8, <2>9,
       <2>10, <2>11, <2>12, <2>13, <2>14, <2>15 DEF WorkerStep
<1>2. UNCHANGED <<tierd, rv>>
  BY ZenonT(60) DEF WorkerStep, WorkerInspect, MovePlan, MovePlanRefused,
     CopyStart, CopyDone, Verify, InspectStable, CopyFails, MoveCutover, RemoveDestination,
     Abort, RemoveSource, SyncSource, MoveComplete, CleanupFails, Finalize,
     workerRest
<1>3. \/ UNCHANGED row
      \/ Holds(w) /\ wk'[w].pc = "idle" /\ "state" \in DOMAIN row'
  <2>1. CASE Abort(w)
    <3>1. Holds(w) /\ wk'[w].pc = "idle"
      BY <2>1 DEF Abort, Done, Idle, Holds
    <3>2. "state" \in DOMAIN row' BY <2>1 DEF Abort
    <3> QED BY <3>1, <3>2
  <2>2. CASE Finalize(w)
    <3>1. Holds(w) /\ wk'[w].pc = "idle"
      BY <2>2 DEF Finalize, Done, Idle, Holds
    <3>2. "state" \in DOMAIN row' BY <2>2 DEF Finalize
    <3> QED BY <3>1, <3>2
  <2>3. CASE ~Abort(w) /\ ~Finalize(w)
    <3>1. row' = row
      BY ZenonT(60), <2>3 DEF WorkerStep, WorkerInspect, MovePlan,
         MovePlanRefused, CopyStart, CopyDone, Verify, InspectStable, CopyFails, MoveCutover,
         RemoveDestination, RemoveSource, SyncSource, MoveComplete,
         CleanupFails, workerRest
    <3> QED BY <3>1
  <2> QED BY <2>1, <2>2, <2>3
<1> QED BY <1>1, <1>2, <1>3 DEF OneMover, Holds

\* The end of a MOVE_CUTOVER answers the worker that waits for it.
LEMMA ReplyLockInv ==
  ASSUME LockInv, CutoverSucceeds \/ CutoverFails
  PROVE  LockInv'
<1> USE DEF LockInv, LockShape
<1>1. PICK p \in {"switched", "refused"} : CutoverReply(p)
  BY Zenon DEF CutoverSucceeds, CutoverFails
<1>2. UNCHANGED <<tierd, rv, row>>
  BY Zenon DEF CutoverSucceeds, CutoverFails, workerRest
<1>3. /\ DOMAIN wk' = Workers
      /\ \A w \in Workers : "pc" \in DOMAIN wk'[w]
      /\ \A w \in Workers : wk[w].pc # "cutting" => wk'[w] = wk[w]
  BY <1>1 DEF CutoverReply
<1> QED BY <1>2, <1>3 DEF OneMover, Holds

\* Service.Run, restarts, recovery and the kernel on its own: a worker's hold
\* ends with its process, and recovery settles the row before workers run.
LEMMA ServiceLockInv ==
  ASSUME LockInv,
         \/ \E dst \in Tiers : PlanPool(dst)
         \/ Kill \/ Shutdown \/ Exit \/ HostCrash \/ PoolUnmount
         \/ PoolMount \/ KernelStep \/ Start \/ RecoverStep
         \/ RecoverFails
  PROVE  LockInv'
<1> USE DEF LockInv, LockShape, OneMover, Holds
<1>1. CASE (\E dst \in Tiers : PlanPool(dst)) \/ PoolUnmount \/ PoolMount
           \/ KernelStep
  <2>1. UNCHANGED <<tierd, wk, row, rv>>
    BY Zenon, <1>1 DEF PlanPool, PoolUnmount, PoolMount, KernelStep, tierdVars
  <2> QED BY Zenon, <2>1
<1>2. CASE Kill \/ Exit \/ HostCrash
  BY <1>2 DEF Kill, Exit, HostCrash, Gone, Idle, NoRecovery
<1>3. CASE Shutdown
  BY <1>3 DEF Shutdown
<1>4. CASE Start
  BY <1>4 DEF Start, recoverRest, NoRecovery
<1>5. CASE RecoverStep \/ RecoverFails
  <2>1. rv.pc # "none" /\ UNCHANGED wk
    BY ZenonT(60), <1>5 DEF RecoverStep, RecoverInspect, Warm, RecoverRemove,
       RecoverAck, RecoverSettle, RecoverFails, recoverRest, GiveUp
  <2>2. "pc" \in DOMAIN rv' /\ "state" \in DOMAIN row'
        /\ (UNCHANGED tierd \/ rv'.pc = "none")
    <3> USE DEF GiveUp, NoRecovery
    <3>1. CASE RecoverInspect BY <3>1 DEF RecoverInspect
    <3>2. CASE Warm BY <3>2 DEF Warm
    <3>3. CASE RecoverRemove BY Zenon, <3>3 DEF RecoverRemove
    <3>4. CASE RecoverAck
      <4>1. rv' = [rv EXCEPT !.pc = "settle"] /\ UNCHANGED <<tierd, row>>
        BY Zenon, <3>4 DEF RecoverAck
      <4> QED BY <4>1
    <3>5. CASE RecoverSettle
      <4>1. /\ rv' = NoRecovery
            /\ \/ row' = [row EXCEPT !.state = "placed", !.intended = NoTier,
                                     !.cur = rv.keep]
               \/ UNCHANGED row
        BY Zenon, <3>5 DEF RecoverSettle, GiveUp
      <4> QED BY Zenon, <4>1
    <3>6. CASE RecoverFails BY Zenon, <3>6 DEF RecoverFails
    <3> QED
      BY Zenon, <1>5, <3>1, <3>2, <3>3, <3>4, <3>5, <3>6 DEF RecoverStep
  <2> QED BY <2>1, <2>2
<1> QED BY <1>1, <1>2, <1>3, <1>4, <1>5

\* Every step keeps the lock.
LEMMA NextLockInv ==
  ASSUME LockInv, [Next]_vars
  PROVE  LockInv'
<1>1. CASE \E w \in Workers : WorkerStep(w)
  BY <1>1, PersistIntentLockInv, WorkerLockInv
<1>2. CASE CutoverSucceeds \/ CutoverFails
  BY <1>2, ReplyLockInv
<1>3. CASE UNCHANGED vars
  BY <1>3 DEF vars, tierdVars, LockInv, LockShape, OneMover, Holds
<1> QED BY ZenonT(60), <1>1, <1>2, <1>3, ServiceLockInv DEF Next
-----------------------------------------------------------------------------
\* The tiers are numbered from 0, and NoTier is none of them.
LEMMA ZeroTier == 0 \in Tiers /\ NoTier \notin Tiers
  BY LogConstants DEF Tiers, NoTier

\* A worker with a plan runs in a service that is up.
LEMMA BusyUp ==
  ASSUME KillInv, NEW w \in Workers, Busy(w)
  PROVE  /\ tierd = "up" /\ rv.pc = "none"
         /\ wk[w].plan.src \in Tiers /\ wk[w].plan.dst \in Tiers
         /\ wk[w].plan.seq \in 1 .. MaxPlans
         /\ wk[w].plan.src # wk[w].plan.dst
<1>1. tierd = "up" BY DEF KillInv, QueueInv
<1>2. rv.pc = "none" BY <1>1 DEF KillInv, LockInv
<1>3. wk[w].plan \in PlanSet
  BY Zenon DEF KillInv, TypeInv, TierdType, WorkersType, Busy
<1>4. wk[w].plan.src # wk[w].plan.dst BY DEF KillInv, QueueInv
<1> QED BY <1>1, <1>2, <1>3, <1>4 DEF PlanSet

\* A worker that goes on to its next step keeps its plan.
LEMMA GotoEffect ==
  ASSUME KillInv, NEW w \in Workers, NEW p, Goto(w, p)
  PROVE  /\ wk'[w].pc = p /\ wk'[w].plan = wk[w].plan
         /\ wk'[w].wseq = wk[w].wseq
         /\ \A v \in Workers \ {w} : wk'[v] = wk[v]
<1>1. wk' = [wk EXCEPT ![w].pc = p] BY DEF Goto
<1>2. WorkersType BY DEF KillInv, TypeInv, TierdType
<1> QED BY <1>1, <1>2 DEF WorkersType

\* The end of execute: the worker is idle again.
LEMMA DoneEffect ==
  ASSUME KillInv, NEW w \in Workers, Done(w)
  PROVE  /\ wk'[w].pc = "idle" /\ wk'[w].wseq = 0
         /\ \A v \in Workers \ {w} : wk'[v] = wk[v]
<1>1. wk' = [wk EXCEPT ![w] = Idle] BY DEF Done
<1>2. WorkersType BY DEF KillInv, TypeInv, TierdType
<1>3. wk'[w] = Idle /\ \A v \in Workers \ {w} : wk'[v] = wk[v]
  BY <1>1, <1>2 DEF WorkersType
<1> QED BY <1>3 DEF Idle

\* While one worker moves the object the others are idle or wait for the row.
LEMMA OthersWork ==
  ASSUME KillInv, LockInv', NEW w \in Workers, Holds(w) \/ Holds(w)',
         \A v \in Workers \ {w} : wk'[v] = wk[v], wrote' = wrote
  PROVE  \A v \in Workers \ {w} : Work(v)'
<1> SUFFICES ASSUME NEW v \in Workers \ {w} PROVE Work(v)'
  OBVIOUS
<1>1. wk'[v].pc \in {"idle", "intent"}
  BY Zenon DEF KillInv, LockInv, OneMover, Holds
<1>2. wk'[v].wseq <= wrote' BY DEF KillInv, WorkInv, Work
<1> QED BY <1>1, <1>2 DEF Work, Holds, Before, After

\* A worker that stands still while object, row and its log entry do.
LEMMA WorkKept ==
  ASSUME NEW v \in Workers, Work(v), wk'[v] = wk[v],
         UNCHANGED <<ko, name, wrote, row>>,
         wk[v].pc = "plan" => mlog'[wk[v].plan.seq] = mlog[wk[v].plan.seq]
  PROVE  Work(v)'
  BY DEF Work, Holds

\* A worker without a plan, or with one that waits for the row.
LEMMA WaitingWork ==
  ASSUME NEW v \in Workers, wk'[v].pc \in {"idle", "intent"},
         wk'[v].wseq <= wrote'
  PROVE  Work(v)'
  BY DEF Work, Holds, Before, After

\* No new plan, and every busy worker keeps its own.
LEMMA QueueKept ==
  ASSUME QueueInv, UNCHANGED <<plans, nseq, tierd>>,
         \A v \in Workers : wk'[v].pc # "idle" =>
            wk[v].pc # "idle" /\ wk'[v].plan = wk[v].plan
  PROVE  QueueInv'
  BY DEF QueueInv, Busy

\* The kernel, the row and the queue stay as they are.
LEMMA PcOnly ==
  ASSUME KillInv, TypeInv', LockInv', NEW w \in Workers,
         \/ MovePlanRefused(w) \/ Verify(w) \/ InspectStable(w) \/ CopyFails(w) \/ CleanupFails(w)
         \/ SyncSource(w)
         \/ MoveCutover(w) /\ UNCHANGED kernelVars /\ Goto(w, "refused")
  PROVE  Settled'
<1>0. Busy(w) /\ Holds(w)
  BY DEF MovePlanRefused, Verify, InspectStable, CopyFails, CleanupFails, SyncSource,
     MoveCutover, Busy, Holds
<1>1. /\ UNCHANGED <<mounted, ko, name, wrote>>
      /\ UNCHANGED <<tierd, plans, nseq, row, mlog, rv>>
  BY ZenonT(60) DEF MovePlanRefused, Verify, InspectStable, CopyFails, CleanupFails,
     SyncSource, MoveCutover, kernelVars, workerRest
<1>2. /\ \A v \in Workers \ {w} : wk'[v] = wk[v]
      /\ \/ /\ wk'[w].plan = wk[w].plan /\ wk'[w].wseq = wk[w].wseq
            /\ \/ wk[w].pc = "plan" /\ wk'[w].pc = "abort"
               \/ wk[w].pc = "verify" /\ wk'[w].pc = "stable"
               \/ wk[w].pc = "stable" /\ wk'[w].pc = "cutover"
               \/ wk[w].pc \in {"copy", "copying", "verify", "stable",
                                 "cutover"}
                  /\ wk'[w].pc = "refused"
               \/ wk[w].pc = "sync" /\ wk'[w].pc = "complete"
         \/ wk'[w].pc = "idle" /\ wk'[w].wseq = 0 /\ wk[w].pc \in After
  <2>1. CASE CleanupFails(w) BY Zenon, <2>1, DoneEffect DEF CleanupFails, After
  <2>2. CASE MovePlanRefused(w) BY Zenon, <2>2, GotoEffect DEF MovePlanRefused
  <2>3. CASE Verify(w) \/ InspectStable(w)
    BY Zenon, <2>3, GotoEffect DEF Verify, InspectStable
  <2>4. CASE CopyFails(w) BY Zenon, <2>4, GotoEffect DEF CopyFails
  <2>5. CASE SyncSource(w) BY Zenon, <2>5, GotoEffect DEF SyncSource
  <2>6. CASE MoveCutover(w) /\ Goto(w, "refused")
    BY Zenon, <2>6, GotoEffect DEF MoveCutover
  <2> QED BY Zenon, <2>1, <2>2, <2>3, <2>4, <2>5, <2>6
<1>3. QueueInv' BY Zenon, <1>0, <1>1, <1>2, QueueKept DEF KillInv, Busy
<1>4. HereInv' BY Zenon, <1>1 DEF KillInv, HereInv, Current
<1>5. PlaceInv' BY <1>1 DEF KillInv, PlaceInv, OnlyAt
<1>6. WorkInv'
  <2>1. Work(w)'
    <3>1. Work(w) BY Zenon DEF KillInv, WorkInv
    <3>2. wrote \in Nat BY LogConstants DEF KillInv, TypeInv, KernelType
    <3>3. CASE wk'[w].pc = "idle"
      BY <1>1, <1>2, <3>2, <3>3 DEF Work, Holds, Before, After
    <3>4. CASE wk[w].pc = "plan" /\ wk'[w].pc = "abort"
      BY Zenon, <1>1, <1>2, <3>1, <3>4 DEF Work, Holds, Before, After
    <3>5. CASE \/ wk[w].pc = "verify" /\ wk'[w].pc = "stable"
               \/ wk[w].pc = "stable" /\ wk'[w].pc = "cutover"
      BY Zenon, <1>1, <1>2, <3>1, <3>5 DEF Work, Holds, Before, After
    <3>6. CASE wk[w].pc \in {"copy", "copying", "verify", "stable",
                                 "cutover"}
               /\ wk'[w].pc = "refused"
      BY Zenon, <1>1, <1>2, <3>1, <3>6 DEF Work, Holds, Before, After, Uncut,
         PreCutover
    <3>7. CASE wk[w].pc = "sync" /\ wk'[w].pc = "complete"
      BY Zenon, <1>1, <1>2, <3>1, <3>7 DEF Work, Holds, Before, After
    <3> QED BY <1>2, <3>3, <3>4, <3>5, <3>6, <3>7
  <2>2. \A v \in Workers \ {w} : Work(v)'
    BY Zenon, <1>0, <1>1, <1>2, OthersWork
  <2> QED BY Zenon, <2>1, <2>2 DEF WorkInv
<1>7. CutInv'
  <2>1. wk[w].pc # "cutting" /\ Work(w)
    BY Zenon, <1>2 DEF KillInv, WorkInv, After
  <2>2. ko.state = "cutover_in_progress" => \E v \in Workers : wk[v].pc = "cutting"
    BY Zenon, <1>0, BusyUp DEF KillInv, CutInv
  <2>3. ko.state = "cutover_in_progress" => \E v \in Workers : wk'[v].pc = "cutting"
    BY Zenon, <1>2, <2>1, <2>2
  <2> QED BY Zenon, <1>1, <2>3 DEF KillInv, CutInv
<1>8. OwnInv' BY Zenon, <1>0, <1>1, <1>2 DEF KillInv, OwnInv, Busy, After
<1>9. RecInv' BY <1>1 DEF KillInv, RecInv
<1> QED BY Zenon, <1>3, <1>4, <1>5, <1>6, <1>7, <1>8, <1>9 DEF Settled

\* planPool and the first steps of execute: the queue, the row and its log.
LEMMA PlanSettled ==
  ASSUME KillInv, TypeInv', LockInv', NEW dst \in Tiers, PlanPool(dst)
  PROVE  Settled'
<1>1. /\ UNCHANGED <<mounted, ko, name, wrote>>
      /\ UNCHANGED <<tierd, wk, row, mlog, rv>>
      /\ plans' = Append(plans, [src |-> row.cur, dst |-> dst, seq |-> nseq + 1])
      /\ nseq' = nseq + 1 /\ tierd = "up" /\ row.state = "placed"
      /\ dst - row.cur \in {-1, 1}
  BY Zenon DEF PlanPool, kernelVars
<1>2. ko.state = "placed" BY <1>1 DEF KillInv, PlaceInv
<1>3. nseq \in Nat /\ row.cur \in Int /\ dst \in Int /\ plans \in Seq(PlanSet)
  <2>1. nseq \in Nat BY MoverConstants DEF KillInv, TypeInv, TierdType
  <2>2. row.cur \in Tiers /\ plans \in Seq(PlanSet)
    BY Zenon DEF KillInv, TypeInv, TierdType
  <2> QED BY <2>1, <2>2, LogConstants DEF Tiers
<1>4. /\ DOMAIN plans' = 1 .. Len(plans) + 1 /\ DOMAIN plans = 1 .. Len(plans)
      /\ \A i \in DOMAIN plans : plans'[i] = plans[i]
      /\ plans'[Len(plans) + 1].seq = nseq + 1
      /\ plans'[Len(plans) + 1].src = row.cur
      /\ plans'[Len(plans) + 1].dst = dst
      /\ Len(plans) \in Nat
  BY <1>1, <1>3
<1>5. QueueInv'
  <2>0. QueueInv /\ \A i \in DOMAIN plans : plans[i].seq \in Nat
    <3>1. \A i \in DOMAIN plans : plans[i] \in PlanSet BY <1>3
    <3> QED BY <3>1, MoverConstants DEF KillInv, PlanSet
  <2>1. \A w \in Workers : Busy(w) => wk[w].plan.seq \in Nat
    BY BusyUp, MoverConstants
  <2>2. \A i \in DOMAIN plans' : i \in DOMAIN plans \/ i = Len(plans) + 1
    BY <1>4
  <2>3. \A i \in DOMAIN plans' :
          plans'[i].seq <= nseq' /\ plans'[i].src # plans'[i].dst
    BY <1>1, <1>3, <1>4, <2>0, <2>2 DEF QueueInv
  <2>4. \A w \in Workers : Busy(w)' =>
          wk'[w].plan.seq <= nseq' /\ wk'[w].plan.src # wk'[w].plan.dst
    BY <1>1, <1>3, <2>0, <2>1 DEF QueueInv, Busy
  <2>5. \A i, j \in DOMAIN plans' : plans'[i].seq = plans'[j].seq => i = j
    BY <1>3, <1>4, <2>0, <2>2 DEF QueueInv
  <2>6. \A i \in DOMAIN plans', w \in Workers :
          Busy(w)' => plans'[i].seq # wk'[w].plan.seq
    BY <1>1, <1>3, <1>4, <2>0, <2>1, <2>2 DEF QueueInv, Busy
  <2> QED BY <1>1, <2>0, <2>3, <2>4, <2>5, <2>6 DEF QueueInv, Busy
<1>6. HereInv' /\ RecInv' BY Zenon, <1>1 DEF KillInv, HereInv, Current, RecInv
<1>7. PlaceInv' BY <1>1 DEF KillInv, PlaceInv, OnlyAt
<1>8. CutInv' /\ OwnInv' BY Zenon, <1>1, <1>2 DEF CutInv, OwnInv
<1>9. WorkInv' BY Zenon, <1>1, WorkKept DEF KillInv, WorkInv
<1> QED BY <1>5, <1>6, <1>7, <1>8, <1>9 DEF Settled

\* The worker takes the oldest plan, inspects the object and logs the attempt,
\* or drops the plan.
LEMMA InspectSettled ==
  ASSUME KillInv, TypeInv', LockInv', NEW w \in Workers, WorkerInspect(w)
  PROVE  Settled'
<1>1. /\ UNCHANGED <<mounted, ko, name, wrote>>
      /\ UNCHANGED <<tierd, nseq, row, rv>>
      /\ plans # <<>> /\ plans' = Tail(plans) /\ wk[w].pc = "idle"
      /\ tierd = "up"
  BY DEF WorkerInspect, kernelVars
<1>2. plans \in Seq(PlanSet) BY DEF KillInv, TypeInv, TierdType
<1>3. /\ DOMAIN plans = 1 .. Len(plans) /\ Len(plans) \in Nat \ {0}
      /\ DOMAIN plans' = 1 .. Len(plans) - 1
      /\ \A i \in DOMAIN plans' : plans'[i] = plans[i + 1] /\ i + 1 \in DOMAIN plans
      /\ Head(plans) = plans[1] /\ 1 \in DOMAIN plans /\ plans[1] \in PlanSet
      /\ \A i \in DOMAIN plans' : i + 1 # 1
  BY <1>1, <1>2
<1>4. QueueInv BY Zenon DEF KillInv
<1>5. HereInv' /\ RecInv' BY Zenon, <1>1 DEF KillInv, HereInv, Current, RecInv
<1>6. PlaceInv' BY <1>1 DEF KillInv, PlaceInv, OnlyAt
<1>7. WorkersType BY DEF KillInv, TypeInv, TierdType
<1>h. ko.writes = wrote BY Zenon DEF KillInv, HereInv
<1>8. CASE /\ ko.state = "placed" /\ UNCHANGED mlog
           /\ wk' = [wk EXCEPT ![w] = [pc |-> "intent", plan |-> Head(plans),
                                       wseq |-> ko.writes]]
  <2>1. /\ wk'[w].pc = "intent" /\ wk'[w].plan = plans[1] /\ wk'[w].wseq = wrote
        /\ \A v \in Workers \ {w} : wk'[v] = wk[v]
    BY Zenon, <1>3, <1>7, <1>8, <1>h DEF WorkersType
  <2>2. QueueInv'
    <3>1. \A i \in DOMAIN plans' :
            plans'[i].seq <= nseq' /\ plans'[i].src # plans'[i].dst
      BY <1>1, <1>3, <1>4 DEF QueueInv
    <3>2. \A v \in Workers : Busy(v)' =>
            wk'[v].plan.seq <= nseq' /\ wk'[v].plan.src # wk'[v].plan.dst
      BY <1>1, <1>3, <1>4, <2>1 DEF QueueInv, Busy
    <3>3. \A i, j \in DOMAIN plans' : plans'[i].seq = plans'[j].seq => i = j
      <4>1. \A i, j \in DOMAIN plans' :
               plans'[i].seq = plans'[j].seq => i + 1 = j + 1
        BY <1>3, <1>4 DEF QueueInv
      <4> QED BY <1>3, <4>1
    <3>4. \A i \in DOMAIN plans', v \in Workers :
            Busy(v)' => plans'[i].seq # wk'[v].plan.seq
      BY <1>1, <1>3, <1>4, <2>1 DEF QueueInv, Busy
    <3>5. \A u, v \in Workers :
            Busy(u)' /\ Busy(v)' /\ wk'[u].plan.seq = wk'[v].plan.seq => u = v
      BY <1>1, <1>3, <1>4, <2>1 DEF QueueInv, Busy
    <3> QED BY Zenon, <1>1, <1>4, <3>1, <3>2, <3>3, <3>4, <3>5 DEF QueueInv
  <2>3. CutInv' /\ OwnInv' BY <1>1, <1>8 DEF CutInv, OwnInv
  <2>4. WorkInv'
    <3>1. wrote \in Nat BY LogConstants DEF KillInv, TypeInv, KernelType
    <3>2. Work(w)' BY <1>1, <2>1, <3>1, WaitingWork
    <3>3. \A v \in Workers \ {w} : Work(v)'
      BY Zenon, <1>1, <1>8, <2>1, WorkKept DEF KillInv, WorkInv
    <3> QED BY Zenon, <3>2, <3>3 DEF WorkInv
  <2> QED BY Zenon, <1>5, <1>6, <2>2, <2>3, <2>4 DEF Settled
<1>9. CASE LogTransition(Head(plans)) /\ UNCHANGED wk
  <2>1. \A s \in 1 .. MaxPlans : s # plans[1].seq => mlog'[s] = mlog[s]
    BY Zenon, <1>3, <1>9 DEF LogTransition, KillInv, TypeInv, TierdType
  <2>2. QueueInv'
    <3>1. \A i \in DOMAIN plans' :
            plans'[i].seq <= nseq' /\ plans'[i].src # plans'[i].dst
      BY <1>1, <1>3, <1>4 DEF QueueInv
    <3>2. \A i, j \in DOMAIN plans' : plans'[i].seq = plans'[j].seq => i = j
      <4>1. \A i, j \in DOMAIN plans' :
               plans'[i].seq = plans'[j].seq => i + 1 = j + 1
        BY <1>3, <1>4 DEF QueueInv
      <4> QED BY <1>3, <4>1
    <3>3. \A i \in DOMAIN plans', v \in Workers :
            Busy(v)' => plans'[i].seq # wk'[v].plan.seq
      BY <1>1, <1>3, <1>4, <1>9 DEF QueueInv, Busy
    <3> QED BY <1>1, <1>4, <1>9, <3>1, <3>2, <3>3 DEF QueueInv, Busy
  <2>3. CutInv' BY Zenon, <1>1, <1>9 DEF KillInv, CutInv
  <2>4. OwnInv'
    <3> SUFFICES ASSUME ko.state # "placed" PROVE OwnInv'
      BY Zenon, <1>1 DEF OwnInv
    <3>1. plans[1].seq # ko.seq /\ ko.seq \in 1 .. MaxPlans
      BY <1>3 DEF KillInv, OwnInv
    <3>2. mlog'[ko.seq] = mlog[ko.seq] BY Zenon, <2>1, <3>1
    <3> QED BY <1>1, <1>3, <1>9, <3>2 DEF KillInv, OwnInv, Busy
  <2>5. WorkInv'
    <3> SUFFICES ASSUME NEW v \in Workers PROVE Work(v)'
      BY Zenon DEF WorkInv
    <3>1. wk[v].pc = "plan" => mlog'[wk[v].plan.seq] = mlog[wk[v].plan.seq]
      BY Zenon, <1>3, <1>4, <2>1, BusyUp DEF QueueInv, Busy
    <3> QED BY Zenon, <1>1, <1>9, <3>1, WorkKept DEF KillInv, WorkInv
  <2> QED BY Zenon, <1>5, <1>6, <2>2, <2>3, <2>4, <2>5 DEF Settled
<1> QED BY <1>8, <1>9 DEF WorkerInspect

\* persistIntent: the row is taken, or only the attempt is logged.
LEMMA IntentSettled ==
  ASSUME KillInv, TypeInv', LockInv', NEW w \in Workers, PersistIntent(w)
  PROVE  Settled'
<1>0. wk[w].pc = "intent" /\ Busy(w) BY DEF PersistIntent, Busy
<1>1. /\ UNCHANGED <<mounted, ko, name, wrote>>
      /\ UNCHANGED <<tierd, plans, nseq, rv>>
  BY Zenon DEF PersistIntent, kernelVars
<1>2. SqlWorks /\ LogTransition(wk[w].plan)
  BY <1>0, BusyUp DEF PersistIntent, SqlWorks
<1> DEFINE p == wk[w].plan
<1>3. p.seq \in 1 .. MaxPlans /\ p.dst \in Tiers
  BY Zenon, <1>0, BusyUp
<1>4. mlog'[p.seq] = p /\ \A s \in 1 .. MaxPlans : s # p.seq => mlog'[s] = mlog[s]
  BY Zenon, <1>2, <1>3 DEF LogTransition, KillInv, TypeInv, TierdType
<1>5. \A v \in Workers \ {w} : Busy(v) => wk[v].plan.seq # p.seq
  BY Zenon, <1>0 DEF KillInv, QueueInv
<1>6. ko.state # "placed" =>
        p.seq # ko.seq /\ ko.seq \in 1 .. MaxPlans /\ mlog'[ko.seq] = mlog[ko.seq]
  BY Zenon, <1>0, <1>4 DEF KillInv, OwnInv
<1>7. HereInv' BY <1>1 DEF KillInv, HereInv, Current
<1>8. CASE row.state \in {"placed", "failed"}
  <2>1. /\ Goto(w, "plan")
        /\ row' = [row EXCEPT !.state = "moving", !.intended = p.dst, !.seq = p.seq]
    BY <1>2, <1>8 DEF PersistIntent
  <2>2. row \in RowSet BY DEF KillInv, TypeInv, TierdType, RowSet
  <2>3. /\ row'.state = "moving" /\ row'.intended = p.dst /\ row'.seq = p.seq
        /\ row'.cur = row.cur
    BY <2>1, <2>2 DEF RowSet
  <2>4. /\ wk'[w].pc = "plan" /\ wk'[w].plan = p /\ wk'[w].wseq = wk[w].wseq
        /\ \A v \in Workers \ {w} : wk'[v] = wk[v]
    BY <2>1, GotoEffect
  <2> HIDE DEF p
  <2>5. ko.state \notin {"cutover_in_progress", "switched"}
    BY <1>8 DEF KillInv, PlaceInv
  <2>6. ko.state = "placed" => ko.tier = row.cur
    BY <1>8 DEF KillInv, PlaceInv
  <2>7. QueueInv' BY Zenon, <1>0, <1>1, <2>4, QueueKept DEF KillInv, Busy, p
  <2>8. PlaceInv'
    BY Zenon, <1>1, <2>3, <2>5, <2>6 DEF KillInv, PlaceInv, OnlyAt
  <2>9. CutInv' BY Zenon, <1>1, <2>5 DEF CutInv
  <2>10. OwnInv'
    BY <1>0, <1>1, <1>6, <2>3, <2>4 DEF KillInv, OwnInv, Busy
  <2>11. WorkInv'
    <3>1. wk[w].wseq <= wrote BY Zenon DEF KillInv, WorkInv, Work
    <3>2. Work(w)'
      BY <1>1, <1>4, <2>3, <2>4, <2>5, <2>6, <3>1 DEF Work, Holds, Before, After
    <3>3. Holds(w)' BY Zenon, <2>4 DEF Holds
    <3> QED BY Zenon, <1>1, <2>4, <3>2, <3>3, OthersWork DEF WorkInv
  <2>12. RecInv'
    BY <1>0, <1>1, BusyUp DEF KillInv, RecInv
  <2> QED BY <1>7, <2>7, <2>8, <2>9, <2>10, <2>11, <2>12 DEF Settled
<1>9. CASE row.state \notin {"placed", "failed"}
  <2>1. Done(w) /\ UNCHANGED row BY <1>9 DEF PersistIntent
  <2>2. /\ wk'[w].pc = "idle" /\ wk'[w].wseq = 0
        /\ \A v \in Workers \ {w} : wk'[v] = wk[v]
    BY Zenon, <2>1, DoneEffect
  <2> HIDE DEF p
  <2>3. QueueInv' BY Zenon, <1>1, <2>2, QueueKept DEF KillInv
  <2>4. PlaceInv' BY Zenon, <1>1, <2>1 DEF KillInv, PlaceInv, OnlyAt
  <2>5. CutInv'
    <3>1. ko.state = "cutover_in_progress" /\ tierd = "up"
            => \E v \in Workers : wk'[v].pc = "cutting"
      BY Zenon, <1>0, <2>2 DEF KillInv, CutInv
    <3> QED BY Zenon, <1>1, <3>1 DEF KillInv, CutInv
  <2>6. OwnInv'
    BY <1>1, <1>6, <2>1, <2>2 DEF KillInv, OwnInv, Busy
  <2>7. WorkInv'
    <3>1. wrote \in Nat BY LogConstants DEF KillInv, TypeInv, KernelType
    <3>2. Work(w)' BY <1>1, <2>2, <3>1, WaitingWork
    <3>3. ASSUME NEW v \in Workers \ {w} PROVE Work(v)'
      <4>1. wk[v].pc = "plan" => mlog'[wk[v].plan.seq] = mlog[wk[v].plan.seq]
        BY <1>4, <1>5, BusyUp DEF Busy
      <4>2. Work(v) BY Zenon DEF KillInv, WorkInv
      <4> QED BY Zenon, <1>1, <2>1, <2>2, <4>1, <4>2, WorkKept
    <3> QED BY Zenon, <3>2, <3>3 DEF WorkInv
  <2>8. RecInv' BY <1>1, <2>1 DEF KillInv, RecInv
  <2> QED BY <1>7, <2>3, <2>4, <2>5, <2>6, <2>7, <2>8 DEF Settled
<1> QED BY <1>8, <1>9

\* MOVE_PLAN: the plan's worker holds the row, so the kernel's movement is the
\* row's.
LEMMA MovePlanSettled ==
  ASSUME KillInv, TypeInv', LockInv', NEW w \in Workers, MovePlan(w)
  PROVE  Settled'
<1>0. wk[w].pc = "plan" /\ Busy(w) /\ Holds(w) BY Zenon DEF MovePlan, Busy, Holds
<1> DEFINE p == wk[w].plan
<1>1. p.seq \in 1 .. MaxPlans /\ p.dst \in Tiers /\ tierd = "up"
  BY Zenon, <1>0, BusyUp
<1>2. ko \in Inodes /\ ~ko.alien /\ ko.here /\ ko.linked
  BY Zenon DEF KillInv, TypeInv, KernelType, HereInv
<1>3. /\ ko.state = "placed" /\ p.dst # ko.tier
      /\ ko' = [ko EXCEPT !.state = "plan_accepted", !.intended = p.dst,
                          !.seq = p.seq]
      /\ UNCHANGED <<mounted, name, wrote>>
      /\ UNCHANGED <<tierd, plans, nseq, row, mlog, rv>>
      /\ Goto(w, "copy")
  BY <1>1, <1>2 DEF MovePlan, PlanAccept, Settle, Replied, workerRest
<1>4. /\ ko'.state = "plan_accepted" /\ ko'.intended = p.dst /\ ko'.seq = p.seq
      /\ ko'.tier = ko.tier
  BY <1>2, <1>3 DEF Inodes
<1>5. /\ ko'.here = ko.here /\ ko'.alien = ko.alien
      /\ ko'.linked = ko.linked /\ ko'.writes = ko.writes
  BY Zenon, <1>2, <1>3 DEF Inodes
<1>6. /\ wk'[w].pc = "copy" /\ wk'[w].plan = p /\ wk'[w].wseq = wk[w].wseq
      /\ \A v \in Workers \ {w} : wk'[v] = wk[v]
  BY <1>3, GotoEffect
<1>7. Work(w) /\ row.state = "moving"
  BY Zenon, <1>0 DEF KillInv, WorkInv, LockInv
<1>8. mlog[p.seq] = p /\ ko.tier = row.cur /\ row.intended = p.dst /\ row.seq = p.seq
  BY <1>0, <1>3, <1>7 DEF Work
<1> HIDE DEF p
<1>9. QueueInv' BY <1>0, <1>3, <1>6, QueueKept DEF KillInv, Busy, p
<1>10. HereInv'
  BY <1>3, <1>4, <1>5 DEF KillInv, HereInv, Current
<1>11. PlaceInv'
  <2>1. OnlyAt({ko.tier}) BY <1>3 DEF KillInv, PlaceInv
  <2>2. name' = name /\ row' = row /\ p.dst # ko.tier BY <1>3
  <2>3. OnlyAt({ko.tier, ko.intended})' BY <1>4, <2>1, <2>2 DEF OnlyAt
  <2>4. row'.state # "placed" /\ ko'.intended # ko'.tier /\ ko'.tier = row'.cur
    BY <1>4, <1>7, <1>8, <2>2
  <2> QED BY <1>4, <2>3, <2>4 DEF PlaceInv
<1>12. CutInv' BY Zenon, <1>4 DEF CutInv
<1>13. OwnInv'
  <2>1. /\ \A v \in Workers \ {w} : Busy(v) => wk[v].plan.seq # p.seq
        /\ \A i \in DOMAIN plans : plans[i].seq # p.seq
        /\ p.seq <= nseq
    BY <1>0 DEF KillInv, QueueInv, p
  <2> QED BY <1>1, <1>3, <1>4, <1>6, <1>8, <2>1 DEF OwnInv, Busy
<1>14. WorkInv'
  <2>1. Work(w)'
    BY <1>0, <1>3, <1>4, <1>6, <1>7, <1>8 DEF Work, Holds, Before, After
  <2> QED BY Zenon, <1>0, <1>3, <1>6, <2>1, OthersWork DEF WorkInv
<1>15. RecInv' BY <1>0, <1>3, BusyUp DEF KillInv, RecInv
<1> QED BY <1>9, <1>10, <1>11, <1>12, <1>13, <1>14, <1>15 DEF Settled

\* A name other than the authoritative one is written or removed.
LEMMA NameEffect ==
  ASSUME KillInv, NEW t \in Tiers, NEW f, WriteName(t, f), t # ko.tier
  PROVE  /\ name'[t] = f /\ \A u \in Tiers \ {t} : name'[u] = name[u]
         /\ ko'.state = ko.state /\ ko'.tier = ko.tier
         /\ ko'.intended = ko.intended /\ ko'.seq = ko.seq
         /\ ko'.wseq = ko.wseq
         /\ HereInv'
         /\ UNCHANGED <<mounted, wrote>>
<1>1. ko \in Inodes /\ name \in [Tiers -> Copies] /\ HereInv
  BY DEF KillInv, TypeInv, KernelType
<1>2. /\ name' = [name EXCEPT ![t] = f]
      /\ ko' = [ko EXCEPT !.linked = @ /\ ~(f = Absent /\ t = ko.tier)]
      /\ UNCHANGED <<mounted, wrote>>
  BY DEF WriteName
<1>3. name'[t] = f /\ \A u \in Tiers \ {t} : name'[u] = name[u]
  BY <1>1, <1>2
<1>4. /\ ko'.state = ko.state /\ ko'.tier = ko.tier
      /\ ko'.intended = ko.intended /\ ko'.seq = ko.seq
      /\ ko'.wseq = ko.wseq
  BY <1>1, <1>2 DEF Inodes
<1>5. /\ ko'.here = ko.here /\ ko'.alien = ko.alien /\ ko'.writes = ko.writes
      /\ ko'.linked = (ko.linked /\ ~(f = Absent /\ t = ko.tier))
  BY <1>1, <1>2 DEF Inodes
<1>6. ko.tier \in Tiers BY <1>1 DEF Inodes
<1> QED BY Zenon, <1>1, <1>2, <1>3, <1>4, <1>5, <1>6 DEF HereInv, Current

\* The destination's copy is begun, ended and removed while the kernel's
\* authoritative tier is another one.
LEMMA CopySettled ==
  ASSUME KillInv, TypeInv', LockInv', NEW w \in Workers,
         CopyStart(w) \/ CopyDone(w) \/ RemoveDestination(w)
  PROVE  Settled'
<1> DEFINE p == wk[w].plan
<1>0. /\ Busy(w) /\ Holds(w) /\ wk[w].pc \in {"copy", "copying", "refused"}
      /\ p.dst \in Tiers /\ p.src \in Tiers /\ p.src # p.dst
  <2>1. wk[w].pc \in {"copy", "copying", "refused"}
    BY DEF CopyStart, CopyDone, RemoveDestination
  <2> QED BY Zenon, <2>1, BusyUp DEF Busy, Holds
<1>1. Work(w) BY Zenon DEF KillInv, WorkInv
<1>2. /\ ko.intended = p.dst /\ ko.seq = p.seq /\ ko.state \in Uncut
      /\ (wk[w].pc # "refused" => ko.state = "plan_accepted")
  BY <1>0, <1>1 DEF Work, Before, Uncut, PreCutover
<1>3. /\ p.dst # ko.tier /\ OnlyAt({ko.tier, p.dst}) /\ ko.tier = row.cur
  BY Zenon, <1>2 DEF KillInv, PlaceInv
<1>4. PICK f : WriteName(p.dst, f)
  BY Zenon DEF CopyStart, CopyDone, RemoveDestination
<1>5. /\ name'[p.dst] = f /\ \A u \in Tiers \ {p.dst} : name'[u] = name[u]
      /\ ko'.state = ko.state /\ ko'.tier = ko.tier
      /\ ko'.intended = ko.intended /\ ko'.seq = ko.seq
      /\ HereInv'
      /\ UNCHANGED <<mounted, wrote>>
  BY <1>0, <1>3, <1>4, NameEffect
<1>6. UNCHANGED <<tierd, plans, nseq, row, mlog, rv>>
  BY Zenon DEF CopyStart, CopyDone, RemoveDestination, workerRest
<1>7. /\ wk'[w].plan = p /\ wk'[w].wseq = wk[w].wseq
      /\ \A v \in Workers \ {w} : wk'[v] = wk[v]
      /\ \/ /\ wk[w].pc = "copy" /\ wk'[w].pc = "copying"
            /\ name[p.src].kind # "absent"
         \/ wk[w].pc = "copying" /\ wk'[w].pc = "verify"
         \/ wk[w].pc = "refused" /\ wk'[w].pc = "abort"
  <2>1. CASE CopyStart(w) BY Zenon, <2>1, GotoEffect DEF CopyStart
  <2>2. CASE CopyDone(w) BY <2>2, GotoEffect DEF CopyDone
  <2>3. CASE RemoveDestination(w) BY Zenon, <2>3, GotoEffect DEF RemoveDestination
  <2> QED BY Zenon, <2>1, <2>2, <2>3
<1>8. CopyDone(w) => name'[p.dst].data = name[p.src].data
  <2> SUFFICES ASSUME CopyDone(w) PROVE name'[p.dst].data = name[p.src].data
    OBVIOUS
  <2>1. WriteName(p.dst, [name[p.src] EXCEPT !.oid = name[p.dst].oid])
    BY Zenon DEF CopyDone
  <2>2. name'[p.dst] = [name[p.src] EXCEPT !.oid = name[p.dst].oid]
    BY <1>0, <1>3, <2>1, NameEffect
  <2>3. name[p.src] \in Copies
    BY Zenon, <1>0 DEF KillInv, TypeInv, KernelType
  <2> QED BY Zenon, <2>2, <2>3 DEF Copies
<1>9. wk[w].pc = "copying" => CopyDone(w)
  BY Zenon DEF CopyStart, CopyDone, RemoveDestination
<1> HIDE DEF p
<1>10. QueueInv' BY Zenon, <1>0, <1>6, <1>7, QueueKept DEF KillInv, Busy, p
<1>11. PlaceInv'
  <2>1. OnlyAt({ko.tier, ko.intended})' BY <1>2, <1>3, <1>5 DEF OnlyAt
  <2>2. row' = row /\ row.state # "placed"
    BY Zenon, <1>0, <1>6 DEF KillInv, LockInv
  <2> QED BY Zenon, <1>2, <1>3, <1>5, <2>1, <2>2 DEF PlaceInv, Uncut, PreCutover
<1>12. CutInv' BY Zenon, <1>2, <1>5 DEF CutInv, Uncut, PreCutover
<1>13. OwnInv'
  BY Zenon, <1>0, <1>5, <1>6, <1>7 DEF KillInv, OwnInv, Busy
<1>14. WorkInv'
  <2>1. Work(w)'
    <3>1. CASE wk[w].pc = "copy" /\ wk'[w].pc = "copying"
               /\ name[p.src].kind # "absent"
      <4>1. p.src = ko.tier BY Zenon, <1>0, <1>3, <3>1 DEF OnlyAt
      <4> QED BY Zenon, <1>1, <1>2, <1>5, <1>6, <1>7, <3>1, <4>1
              DEF Work, Holds, Before, After, p
    <3>2. CASE wk[w].pc = "copying" /\ wk'[w].pc = "verify"
      <4>1. p.src = ko.tier BY Zenon, <1>1, <3>2 DEF Work, p
      <4>2. name'[p.dst].data = 1 .. wrote
        BY Zenon, <1>8, <1>9, <3>2, <4>1 DEF KillInv, HereInv, Current
      <4> QED BY Zenon, <1>1, <1>2, <1>5, <1>6, <1>7, <3>2, <4>1, <4>2
              DEF Work, Holds, Before, After, p
    <3>3. CASE wk[w].pc = "refused" /\ wk'[w].pc = "abort"
      BY Zenon, <1>1, <1>2, <1>5, <1>6, <1>7, <3>3
         DEF Work, Holds, Before, After, p, Uncut, PreCutover
    <3> QED BY Zenon, <1>7, <3>1, <3>2, <3>3
  <2> QED BY <1>0, <1>5, <1>7, <2>1, OthersWork DEF WorkInv
<1>15. RecInv' BY <1>0, <1>6, BusyUp DEF KillInv, RecInv
<1> QED BY <1>5, <1>10, <1>11, <1>12, <1>13, <1>14, <1>15 DEF Settled
=============================================================================
