----------------------------- MODULE KillProofs -----------------------------
(***************************************************************************)
(* The second half of the argument about a service that may be killed at   *)
(* any point: the switch, the clean-up, the kernel on its own, the restart *)
(* and recovery keep the part Settled of the invariant.                    *)
(***************************************************************************)
EXTENDS WorkerProofs

\* MOVE_CUTOVER as the worker issues it, and its end in the kernel.
LEMMA CutoverSettled ==
  ASSUME KillInv, TypeInv', LockInv', NEW w \in Workers, MoveCutover(w),
         CutoverBegin(wk[w].plan.seq, wk[w].wseq), Goto(w, "cutting")
  PROVE  Settled'
<1> DEFINE p == wk[w].plan
<1>0. wk[w].pc = "cutover" /\ Busy(w) /\ Holds(w) /\ tierd = "up"
  BY BusyUp DEF MoveCutover, Busy, Holds
<1>1. /\ ko' = [ko EXCEPT !.state = "cutover_in_progress", !.wseq = wk[w].wseq]
      /\ UNCHANGED <<mounted, name, wrote>>
      /\ UNCHANGED <<tierd, plans, nseq, row, mlog, rv>>
  BY DEF MoveCutover, CutoverBegin, workerRest
<1>2. /\ wk'[w].pc = "cutting" /\ wk'[w].plan = p /\ wk'[w].wseq = wk[w].wseq
      /\ \A v \in Workers \ {w} : wk'[v] = wk[v]
  BY Zenon, GotoEffect
<1>3. ko \in Inodes /\ Work(w)
  BY DEF KillInv, TypeInv, KernelType, WorkInv
<1>4. /\ ko'.state = "cutover_in_progress" /\ ko'.wseq = wk[w].wseq
      /\ ko'.tier = ko.tier /\ ko'.intended = ko.intended /\ ko'.seq = ko.seq
  BY <1>1, <1>3 DEF Inodes
<1>5. /\ ko'.here = ko.here /\ ko'.alien = ko.alien
      /\ ko'.linked = ko.linked /\ ko'.writes = ko.writes
  BY Zenon, <1>1, <1>3 DEF Inodes
<1>6. /\ ko.state = "plan_accepted" /\ ko.seq = p.seq /\ ko.intended = p.dst
      /\ p.src = ko.tier /\ row.intended = p.dst /\ row.seq = p.seq
      /\ (wk[w].wseq = wrote /\ name[p.dst].kind = "whole" =>
              name[p.dst].data = 1 .. wrote)
  BY Zenon, <1>0, <1>3 DEF Work, Before
<1>7. row.state = "moving" BY <1>0 DEF KillInv, LockInv
<1>8. UNCHANGED <<mounted, name, wrote, tierd, plans, nseq, row, mlog, rv>>
  BY Zenon, <1>1
<1> HIDE DEF p
<1>9. QueueInv' BY Zenon, <1>0, <1>2, <1>8, QueueKept DEF KillInv, Busy, p
<1>10. HereInv' BY Zenon, <1>4, <1>5, <1>8 DEF KillInv, HereInv, Current
<1>11. PlaceInv'
  <2>1. OnlyAt({ko.tier, ko.intended}) /\ ko.intended # ko.tier /\ ko.tier = row.cur
    BY Zenon, <1>6 DEF KillInv, PlaceInv, Uncut, PreCutover
  <2>2. OnlyAt({ko.tier, ko.intended})' BY Zenon, <1>4, <1>8, <2>1 DEF OnlyAt
  <2> QED BY Zenon, <1>4, <1>6, <1>7, <1>8, <2>1, <2>2 DEF PlaceInv
<1>12. CutInv' BY <1>0, <1>2, <1>4, <1>6, <1>8 DEF CutInv
<1>13. OwnInv' BY <1>0, <1>2, <1>4, <1>6, <1>8 DEF KillInv, OwnInv, Busy
<1>14. WorkInv'
  <2>1. Work(w)'
    BY Zenon, <1>2, <1>3, <1>4, <1>6, <1>8 DEF Work, Holds, Before, After
  <2> QED BY Zenon, <1>0, <1>2, <1>8, <2>1, OthersWork DEF WorkInv
<1>15. RecInv' BY <1>0, <1>8, BusyUp DEF KillInv, RecInv
<1> QED BY <1>9, <1>10, <1>11, <1>12, <1>13, <1>14, <1>15 DEF Settled

\* The kernel ends a MOVE_CUTOVER, for a worker that waits for the answer or
\* for a tierd that is gone: the tier it switches to holds every write.
LEMMA ReplySettled ==
  ASSUME KillInv, TypeInv', LockInv', CutoverSucceeds \/ CutoverFails
  PROVE  Settled'
<1>1. /\ ko.state = "cutover_in_progress"
      /\ UNCHANGED <<mounted, wrote, tierd, plans, nseq, row, mlog, rv>>
  BY Zenon DEF CutoverSucceeds, CutoverFails, CutoverSwitch, CutoverUndo, workerRest
<1>2. ko \in Inodes /\ ko.tier \in Tiers /\ ko.intended \in Tiers
      /\ name \in [Tiers -> Copies]
  BY Zenon DEF KillInv, TypeInv, KernelType, Inodes
<1>3. /\ OnlyAt({ko.tier, ko.intended}) /\ ko.intended # ko.tier
      /\ ko.tier = row.cur /\ row.state = "moving"
      /\ row.intended = ko.intended /\ row.seq = ko.seq
  BY <1>1 DEF KillInv, PlaceInv
<1>4. /\ \A v \in Workers : wk[v].pc # "cutting" => wk'[v] = wk[v]
      /\ \A v \in Workers : wk[v].pc = "cutting" =>
           /\ wk'[v].plan = wk[v].plan /\ wk'[v].wseq = wk[v].wseq
           /\ wk'[v].pc = IF CutoverSucceeds THEN "switched" ELSE "refused"
  <2>1. WorkersType BY DEF KillInv, TypeInv, TierdType
  <2>2. \A v \in Workers : wk[v].pc = "cutting" => tierd = "up"
    BY BusyUp DEF Busy
  <2>3. PICK q \in {"switched", "refused"} :
           CutoverReply(q) /\ (q = IF CutoverSucceeds THEN "switched" ELSE "refused")
    BY Zenon DEF CutoverSucceeds, CutoverFails
  <2> QED BY Zenon, <2>1, <2>2, <2>3 DEF CutoverReply, WorkersType
<1>5. \A v \in Workers : wk[v].pc \notin {"idle", "intent", "cutting"} => FALSE
  <2> SUFFICES ASSUME NEW v \in Workers, Holds(v), wk[v].pc # "cutting"
               PROVE  FALSE
    BY Zenon DEF Holds
  <2>1. tierd = "up" BY Zenon, BusyUp DEF Holds, Busy
  <2>2. PICK u \in Workers : wk[u].pc = "cutting"
    BY Zenon, <1>1, <2>1 DEF KillInv, CutInv
  <2> QED BY <2>2 DEF KillInv, LockInv, OneMover, Holds
<1>6. QueueInv' BY Zenon, <1>1, <1>4, QueueKept DEF KillInv
<1>7. RecInv'
  <2>1. tierd # "recovering" BY Zenon, <1>1 DEF KillInv, CutInv
  <2>2. rv.pc = "none" BY <2>1 DEF KillInv, LockInv
  <2> QED BY Zenon, <1>1, <2>1, <2>2 DEF RecInv
<1>8. ko'.state \notin {"placed", "cutover_in_progress"} /\ ko'.seq = ko.seq
      /\ ko'.intended = ko.intended
  <2>1. CASE CutoverSucceeds
    BY Zenon, <1>2, <2>1 DEF CutoverSucceeds, CutoverSwitch, Inodes
  <2>2. CASE CutoverFails
    BY <1>2, <2>2 DEF CutoverFails, CutoverUndo, Inodes
  <2> QED BY Zenon, <2>1, <2>2
<1>9. CutInv' BY Zenon, <1>8 DEF CutInv
<1>10. OwnInv'
  <2>1. \A v \in Workers : wk'[v].pc = "idle" <=> wk[v].pc = "idle"
    BY <1>4
  <2>2. \A v \in Workers : wk'[v].pc \in {"intent", "plan"} => wk'[v] = wk[v]
    BY Zenon, <1>4
  <2> QED BY <1>1, <1>8, <2>1, <2>2 DEF KillInv, OwnInv, Busy
<1>11. \A v \in Workers : wk[v].pc # "cutting" => Work(v)'
  <2> SUFFICES ASSUME NEW v \in Workers, wk[v].pc # "cutting" PROVE Work(v)'
    BY Zenon
  <2>1. wk'[v] = wk[v] /\ wk[v].pc \in {"idle", "intent"} /\ wk[v].wseq <= wrote
    BY Zenon, <1>4, <1>5 DEF KillInv, WorkInv, Work
  <2> QED BY <1>1, <2>1 DEF Work, Holds, Before, After
<1>12. \A v \in Workers : wk[v].pc = "cutting" =>
         /\ ko.seq = wk[v].plan.seq /\ ko.intended = wk[v].plan.dst
         /\ wk[v].plan.src = ko.tier /\ wk[v].wseq <= wrote
  BY DEF KillInv, WorkInv, Work, Before
<1>13. CASE CutoverSucceeds
  <2>0. ko.writes = wrote BY Zenon DEF KillInv, HereInv
  <2>1. /\ ko.wseq = wrote /\ name[ko.intended].kind = "whole"
        /\ name' = [name EXCEPT ![ko.intended].oid = "own"]
        /\ ko' = [ko EXCEPT !.state = "switched", !.tier = ko.intended,
                            !.wseq = 0, !.linked = TRUE]
    BY <1>13, <2>0 DEF CutoverSucceeds, CutoverSwitch, CutoverValid
  <2>2. ko'.state = "switched" /\ ko'.tier = ko.intended
    BY <1>2, <2>1 DEF Inodes
  <2>3. /\ ko'.here = ko.here /\ ko'.alien = ko.alien /\ ko'.linked = TRUE
        /\ ko'.writes = ko.writes
    BY <1>2, <2>1 DEF Inodes
  <2>4. \A t \in Tiers : name'[t].kind = name[t].kind /\ name'[t].data = name[t].data
    BY Zenon, <1>2, <2>1 DEF Copies
  <2>5. name[ko.intended].data = 1 .. wrote
    BY <1>1, <2>1 DEF KillInv, CutInv
  <2>6. HereInv'
    <3>1. Current(name[ko.tier])' BY Zenon, <1>1, <1>2, <2>1, <2>2, <2>4, <2>5 DEF Current
    <3> QED BY Zenon, <1>1, <2>3, <3>1 DEF KillInv, HereInv
  <2>7. PlaceInv'
    <3>1. OnlyAt({ko.tier, row.cur})'
      BY <1>1, <1>3, <2>2, <2>4 DEF OnlyAt
    <3> QED BY Zenon, <1>1, <1>3, <1>8, <2>2, <3>1 DEF PlaceInv, Uncut, PreCutover
  <2>8. WorkInv'
    <3>1. ASSUME NEW v \in Workers, wk[v].pc = "cutting" PROVE Work(v)'
      <4>1. wk'[v].pc = "switched" /\ wk'[v].plan = wk[v].plan
            /\ wk'[v].wseq = wk[v].wseq
        BY <1>4, <1>13, <3>1
      <4> QED BY Zenon, <1>1, <1>3, <1>8, <1>12, <2>2, <3>1, <4>1
              DEF Work, Holds, Before, After
    <3> QED BY Zenon, <1>11, <3>1 DEF WorkInv
  <2> QED BY Zenon, <1>6, <1>7, <1>9, <1>10, <2>6, <2>7, <2>8 DEF Settled
<1>14. CASE ~CutoverSucceeds
  <2>1. PICK s \in {"copy_verified", "failed"} : CutoverUndo(s)
    BY <1>14 DEF CutoverFails
  <2>2. /\ name' = name /\ ko' = [ko EXCEPT !.state = s, !.wseq = 0]
    BY <2>1 DEF CutoverUndo
  <2>3. ko'.state = s /\ ko'.tier = ko.tier
    BY <1>2, <2>2 DEF Inodes
  <2>4. /\ ko'.here = ko.here /\ ko'.alien = ko.alien
        /\ ko'.linked = ko.linked /\ ko'.writes = ko.writes
    BY <1>2, <2>2 DEF Inodes
  <2>5. HereInv' BY Zenon, <1>1, <2>2, <2>3, <2>4 DEF KillInv, HereInv, Current
  <2>6. PlaceInv'
    <3>1. OnlyAt({ko.tier, ko.intended})'
      BY <1>3, <1>8, <2>2, <2>3 DEF OnlyAt
    <3> QED BY Zenon, <1>1, <1>3, <1>8, <2>3, <3>1 DEF PlaceInv
  <2>7. WorkInv'
    <3>1. ASSUME NEW v \in Workers, wk[v].pc = "cutting" PROVE Work(v)'
      <4>1. wk'[v].pc = "refused" /\ wk'[v].plan = wk[v].plan
            /\ wk'[v].wseq = wk[v].wseq
        BY <1>4, <1>14, <3>1
      <4> QED BY Zenon, <1>1, <1>3, <1>8, <1>12, <2>3, <3>1, <4>1
              DEF Work, Holds, Before, After, Uncut, PreCutover
    <3> QED BY Zenon, <1>11, <3>1 DEF WorkInv
  <2> QED BY <1>6, <1>7, <1>9, <1>10, <2>5, <2>6, <2>7 DEF Settled
<1> QED BY Zenon, <1>13, <1>14

\* The row after a movement that failed, and after one that is complete.
LEMMA EndSettled ==
  ASSUME KillInv, TypeInv', LockInv', NEW w \in Workers, Abort(w) \/ Finalize(w)
  PROVE  Settled'
<1>0. wk[w].pc \in {"abort", "finalize"} /\ Busy(w) /\ Holds(w) /\ tierd = "up"
  <2>1. wk[w].pc \in {"abort", "finalize"} BY DEF Abort, Finalize
  <2> QED BY <2>1, BusyUp DEF Busy, Holds
<1>1. UNCHANGED <<mounted, ko, name, wrote, tierd, plans, nseq, mlog, rv>>
  BY DEF Abort, Finalize, kernelVars
<1>2. /\ wk'[w].pc = "idle" /\ wk'[w].wseq = 0
      /\ \A v \in Workers \ {w} : wk'[v] = wk[v]
  BY Zenon, DoneEffect DEF Abort, Finalize
<1>3. row \in RowSet /\ Work(w)
  BY DEF KillInv, TypeInv, TierdType, RowSet, WorkInv
<1>4. row'.intended = NoTier /\ row'.seq = row.seq
  BY Zenon, <1>0, <1>3 DEF Abort, Finalize, SqlWorks, RowSet
<1>5. \/ /\ wk[w].pc = "abort" /\ row'.state = "failed" /\ row'.cur = row.cur
         /\ ko.state # "switched" /\ (ko.state = "placed" => ko.tier = row.cur)
      \/ /\ wk[w].pc = "finalize" /\ row'.state = "placed"
         /\ row'.cur = wk[w].plan.dst
         /\ ko.state = "placed" /\ ko.tier = wk[w].plan.dst
  <2>1. CASE Abort(w)
    BY Zenon, <1>0, <1>3, <2>1 DEF Abort, SqlWorks, RowSet, Work
  <2>2. CASE Finalize(w)
    BY Zenon, <1>0, <1>3, <2>2 DEF Finalize, SqlWorks, RowSet, Work
  <2> QED BY Zenon, <2>1, <2>2
<1>6. ko.state # "cutover_in_progress"
  <2>1. wk[w].pc # "cutting" BY <1>0
  <2> QED BY Zenon, <1>0, <2>1 DEF KillInv, CutInv, LockInv, OneMover, Holds
<1>7. QueueInv' BY Zenon, <1>1, <1>2, QueueKept DEF KillInv
<1>8. HereInv' BY Zenon, <1>1 DEF KillInv, HereInv, Current
<1>9. PlaceInv'
  <2>1. PlaceInv BY DEF KillInv
  <2> QED BY Zenon, <1>1, <1>5, <1>6, <2>1 DEF PlaceInv, OnlyAt, Uncut, PreCutover
<1>10. CutInv' BY <1>1, <1>6 DEF CutInv
<1>11. OwnInv'
  <2>1. OwnInv BY Zenon DEF KillInv
  <2> QED BY <1>1, <1>2, <1>4, <2>1 DEF OwnInv, Busy
<1>12. WorkInv'
  <2>1. wrote \in Nat BY LogConstants DEF KillInv, TypeInv, KernelType
  <2>2. Work(w)' BY <1>1, <1>2, <2>1 DEF Work, Holds, Before, After
  <2> QED BY Zenon, <1>0, <1>1, <1>2, <2>2, OthersWork DEF WorkInv
<1>13. RecInv' BY <1>0, <1>1, BusyUp DEF KillInv, RecInv
<1> QED BY Zenon, <1>7, <1>8, <1>9, <1>10, <1>11, <1>12, <1>13 DEF Settled

\* The replaced file is removed after the switch, and the kernel told.
LEMMA SourceSettled ==
  ASSUME KillInv, TypeInv', LockInv', NEW w \in Workers, RemoveSource(w)
  PROVE  Settled'
<1> DEFINE p == wk[w].plan
<1>0. /\ wk[w].pc = "switched" /\ Busy(w) /\ Holds(w) /\ tierd = "up"
      /\ p.src \in Tiers
  BY BusyUp DEF RemoveSource, Busy, Holds
<1>1. Work(w) BY Zenon DEF KillInv, WorkInv
<1>2. /\ ko.seq = p.seq /\ ko.state = "switched" /\ ko.tier = p.dst
      /\ row.cur = p.src
  BY Zenon, <1>0, <1>1 DEF Work, After
<1>3. p.src # ko.tier BY <1>2 DEF KillInv, PlaceInv
<1>4. WriteName(p.src, Absent) BY Zenon DEF RemoveSource
<1>5. /\ name'[p.src] = Absent /\ \A u \in Tiers \ {p.src} : name'[u] = name[u]
      /\ ko'.state = ko.state /\ ko'.tier = ko.tier
      /\ ko'.intended = ko.intended /\ ko'.seq = ko.seq
      /\ HereInv'
      /\ UNCHANGED <<mounted, wrote>>
  BY <1>0, <1>3, <1>4, NameEffect
<1>6. UNCHANGED <<tierd, plans, nseq, row, mlog, rv>>
  BY Zenon DEF RemoveSource, workerRest
<1>7. /\ wk'[w].pc = "sync" /\ wk'[w].plan = p /\ wk'[w].wseq = wk[w].wseq
      /\ \A v \in Workers \ {w} : wk'[v] = wk[v]
  BY Zenon, GotoEffect DEF RemoveSource
<1> HIDE DEF p
<1>8. QueueInv' BY Zenon, <1>0, <1>6, <1>7, QueueKept DEF KillInv, Busy, p
<1>9. PlaceInv'
  <2>1. PlaceInv BY Zenon DEF KillInv
  <2>2. OnlyAt({ko.tier, row.cur})'
    BY <1>2, <1>5, <1>6, <2>1 DEF PlaceInv, OnlyAt, Absent
  <2> QED BY <1>2, <1>5, <1>6, <2>1, <2>2 DEF PlaceInv, Uncut, PreCutover
<1>10. CutInv' BY Zenon, <1>2, <1>5 DEF CutInv
<1>11. OwnInv'
  <2>1. OwnInv BY Zenon DEF KillInv
  <2> QED BY <1>0, <1>5, <1>6, <1>7, <2>1 DEF OwnInv, Busy
<1>12. WorkInv'
  <2>1. name'[p.src].kind = "absent" BY <1>5 DEF Absent
  <2>2. Work(w)'
    BY Zenon, <1>0, <1>1, <1>2, <1>5, <1>6, <1>7, <2>1
       DEF Work, Holds, Before, After, p
  <2> QED BY Zenon, <1>0, <1>5, <1>7, <2>2, OthersWork DEF WorkInv
<1>13. RecInv' BY <1>0, <1>6, BusyUp DEF KillInv, RecInv
<1> QED BY <1>5, <1>8, <1>9, <1>10, <1>11, <1>12, <1>13 DEF Settled

\* MOVE_COMPLETE and rollback leave the object placed where it is.
LEMMA AckEffect ==
  ASSUME KillInv, NEW states, NEW s, Acknowledge(states, s)
  PROVE  /\ ko'.state = "placed" /\ ko'.tier = ko.tier
         /\ HereInv'
         /\ UNCHANGED <<mounted, name, wrote>>
<1>1. /\ \/ UNCHANGED ko /\ ko.state = "placed"
         \/ ko' = [ko EXCEPT !.state = "placed", !.intended = ko.tier]
      /\ UNCHANGED <<mounted, name, wrote>>
  BY DEF Acknowledge
<1>2. ko \in Inodes /\ HereInv BY DEF KillInv, TypeInv, KernelType
<1>3. ko'.state = "placed" /\ ko'.tier = ko.tier
  BY Zenon, <1>1, <1>2 DEF Inodes
<1>4. /\ ko'.here = ko.here /\ ko'.alien = ko.alien
      /\ ko'.linked = ko.linked /\ ko'.writes = ko.writes
  BY Zenon, <1>1, <1>2 DEF Inodes
<1> QED BY <1>1, <1>2, <1>3, <1>4 DEF HereInv, Current

\* MOVE_COMPLETE: the object is placed on the destination, the only copy.
LEMMA CompleteSettled ==
  ASSUME KillInv, TypeInv', LockInv', NEW w \in Workers, MoveComplete(w)
  PROVE  Settled'
<1> DEFINE p == wk[w].plan
<1>0. /\ wk[w].pc = "complete" /\ Busy(w) /\ Holds(w) /\ tierd = "up"
  BY BusyUp DEF MoveComplete, Busy, Holds
<1>1. Work(w) BY Zenon DEF KillInv, WorkInv
<1>2. /\ ko.seq = p.seq /\ ko.state = "switched" /\ ko.tier = p.dst
      /\ row.cur = p.src /\ name[p.src].kind = "absent"
      /\ row.intended = p.dst /\ row.seq = p.seq /\ wk[w].wseq <= wrote
  BY Zenon, <1>0, <1>1 DEF Work, After, Holds
<1>3. /\ ko'.state = "placed" /\ ko'.tier = ko.tier
      /\ HereInv'
      /\ UNCHANGED <<mounted, name, wrote>>
  BY Zenon, AckEffect DEF MoveComplete, CompleteAccept
<1>4. UNCHANGED <<tierd, plans, nseq, row, mlog, rv>>
  BY Zenon DEF MoveComplete, workerRest
<1>5. /\ wk'[w].pc = "finalize" /\ wk'[w].plan = p /\ wk'[w].wseq = wk[w].wseq
      /\ \A v \in Workers \ {w} : wk'[v] = wk[v]
  BY <1>0, GotoEffect DEF MoveComplete
<1>6. row.state = "moving" BY Zenon, <1>0 DEF KillInv, LockInv
<1> HIDE DEF p
<1>7. QueueInv' BY Zenon, <1>0, <1>4, <1>5, QueueKept DEF KillInv, Busy, p
<1>8. PlaceInv'
  <2>1. PlaceInv BY Zenon DEF KillInv
  <2>2. OnlyAt({ko.tier})' BY <1>2, <1>3, <2>1 DEF PlaceInv, OnlyAt
  <2> QED BY <1>2, <1>3, <1>4, <1>6, <2>2 DEF PlaceInv, Uncut, PreCutover
<1>9. CutInv' /\ OwnInv' BY Zenon, <1>3 DEF CutInv, OwnInv
<1>10. WorkInv'
  <2>1. Work(w)'
    BY Zenon, <1>2, <1>3, <1>4, <1>5 DEF Work, Holds, Before, After
  <2> QED BY <1>0, <1>3, <1>5, <2>1, OthersWork DEF WorkInv
<1>11. RecInv' BY <1>0, <1>4, BusyUp DEF KillInv, RecInv
<1> QED BY Zenon, <1>3, <1>7, <1>8, <1>9, <1>10, <1>11 DEF Settled

\* The kernel on its own: the log and the index do not matter, and a write goes
\* to the authoritative file.
LEMMA KernelSettled ==
  ASSUME KillInv, TypeInv', LockInv', KernelStep
  PROVE  Settled'
<1>0. UNCHANGED <<tierd, plans, nseq, wk, row, mlog, rv>>
  BY Zenon DEF KernelStep, tierdVars
<1>1. /\ ko \in Inodes /\ ko.tier \in Tiers /\ name \in [Tiers -> Copies]
      /\ wrote \in Nat /\ HereInv
  BY LogConstants DEF KillInv, TypeInv, KernelType, Inodes
<1>k. /\ FlushRecord \/ PathIndexRebuild \/ UserWrite
      /\ UNCHANGED mounted
      /\ \/ ko' = ko /\ wrote' = wrote
         \/ ko' = [ko EXCEPT !.writes = @ + 1] /\ wrote' = wrote + 1
  BY Zenon, <1>1 DEF KernelStep, HereInv, InstantiateOne, PathLookup, FlushRecord,
     PathIndexRebuild, UserWrite
<1>2. /\ FlushRecord \/ PathIndexRebuild \/ UserWrite
      /\ UNCHANGED <<mounted, ko.state, ko.tier, ko.intended, ko.seq, ko.wseq,
                     ko.here, ko.linked, ko.alien>>
      /\ ko'.writes = wrote'
  BY <1>1, <1>k DEF Inodes, HereInv
<1>3. /\ \A t \in Tiers : name'[t].kind = name[t].kind
      /\ \A t \in Tiers \ {ko.tier} : name'[t].data = name[t].data
      /\ name'[ko.tier].data = 1 .. wrote'
      /\ wrote' = wrote \/ (wrote' = wrote + 1 /\ ko.state # "cutover_in_progress")
  <2>1. name[ko.tier].data = 1 .. wrote BY <1>1 DEF HereInv, Current
  <2>2. CASE FlushRecord BY <2>1, <2>2 DEF FlushRecord
  <2>3. CASE PathIndexRebuild
    <3>1. \A t \in Tiers : name'[t] = Minted(name[t])
      BY <2>3 DEF PathIndexRebuild, MintOids
    <3>2. \A f \in Copies : Minted(f).kind = f.kind /\ Minted(f).data = f.data
      BY DEF Minted, Copies
    <3> QED BY <1>1, <2>1, <2>3, <3>1, <3>2 DEF PathIndexRebuild
  <2>4. CASE UserWrite
    <3>1. /\ name' = [name EXCEPT ![ko.tier].data = @ \union {wrote + 1}]
          /\ wrote' = wrote + 1 /\ ko.state # "cutover_in_progress"
      BY Zenon, <1>1, <2>4 DEF UserWrite, HereInv
    <3>2. (1 .. wrote) \union {wrote + 1} = 1 .. wrote + 1 BY <1>1
    <3>3. name[ko.tier] \in Copies BY <1>1
    <3>4. /\ name'[ko.tier].kind = name[ko.tier].kind
          /\ name'[ko.tier].data = name[ko.tier].data \union {wrote + 1}
      BY <1>1, <3>1, <3>3 DEF Copies
    <3>5. \A t \in Tiers \ {ko.tier} : name'[t] = name[t] BY Zenon, <1>1, <3>1
    <3> QED BY Zenon, <2>1, <3>1, <3>2, <3>4, <3>5
  <2> QED BY <1>2, <2>2, <2>3, <2>4
<1>4. QueueInv' /\ RecInv'
  <2>1. QueueInv' BY <1>0, QueueKept DEF KillInv
  <2>2. rv.pc = "ack" => rv.other \in Tiers
    BY Zenon DEF KillInv, TypeInv, TierdType
  <2>3. RecInv BY DEF KillInv
  <2> QED BY <1>0, <1>2, <1>3, <2>1, <2>2, <2>3 DEF RecInv
<1>5. HereInv' BY Zenon, <1>1, <1>2, <1>3 DEF HereInv, Current
<1>6. PlaceInv'
  <2>1. PlaceInv BY DEF KillInv
  <2>2. \A S : OnlyAt(S) => \A t \in Tiers \ S : name'[t].kind = "absent"
    BY <1>3 DEF OnlyAt
  <2> QED BY Zenon, <1>0, <1>2, <2>1, <2>2 DEF PlaceInv, OnlyAt
<1>7. CutInv'
  <2> SUFFICES ASSUME ko.state = "cutover_in_progress" PROVE CutInv'
    BY Zenon, <1>2 DEF CutInv
  <2>1. ko.intended # ko.tier /\ ko.intended \in Tiers /\ CutInv
    BY Zenon, <1>1 DEF KillInv, PlaceInv, Inodes
  <2> QED BY <1>0, <1>2, <1>3, <2>1 DEF CutInv
<1>8. OwnInv' BY Zenon, <1>0, <1>2 DEF KillInv, OwnInv, Busy
<1>9. WorkInv'
  <2> SUFFICES ASSUME NEW w \in Workers PROVE Work(w)'
    BY Zenon DEF WorkInv
  <2>1. Work(w) /\ wk[w].wseq \in Nat
    BY LogConstants DEF KillInv, WorkInv, TypeInv, TierdType, WorkersType
  <2>2. wk[w].wseq <= wrote' /\ (wk[w].wseq = wrote' => wrote' = wrote)
    <3>1. wk[w].wseq <= wrote BY <2>1 DEF Work
    <3>2. wrote' = wrote \/ wrote' = wrote + 1 BY Zenon, <1>3
    <3> QED BY <1>1, <2>1, <3>1, <3>2
  <2>3. wk[w].pc \in {"verify", "stable", "cutover"} =>
          wk[w].plan.dst # ko.tier /\ wk[w].plan.dst \in Tiers
    <3> SUFFICES ASSUME wk[w].pc \in {"verify", "stable", "cutover"}
                 PROVE  wk[w].plan.dst # ko.tier /\ wk[w].plan.dst \in Tiers
      BY Zenon
    <3>1. ko.state = "plan_accepted" /\ ko.intended = wk[w].plan.dst
      BY <2>1 DEF Work, Before
    <3> QED BY <1>1, <3>1 DEF KillInv, PlaceInv, Uncut, PreCutover, Inodes
  <2>4. wk[w].pc # "idle" => wk[w].plan.src \in Tiers
    BY Zenon, BusyUp DEF Busy
  <2>5. wk[w].pc \in {"verify", "stable", "cutover"} =>
          (wk[w].wseq = wrote' /\ name'[wk[w].plan.dst].kind = "whole" =>
              name'[wk[w].plan.dst].data = 1 .. wrote')
    BY Zenon, <1>3, <2>1, <2>2, <2>3 DEF Work
  <2>6. wk[w].pc \in {"sync", "complete"} => name'[wk[w].plan.src].kind = "absent"
    BY <1>3, <2>1, <2>4 DEF Work
  <2>7. wk[w].wseq <= wrote' /\ UNCHANGED <<wk, row, mlog>>
    BY <1>0, <1>2, <2>2
  <2> QED BY <1>2, <2>1, <2>5, <2>6, <2>7 DEF Work, Holds
<1> QED BY <1>4, <1>5, <1>6, <1>7, <1>8, <1>9 DEF Settled

\* The process ends, and starts again.
LEMMA KillSettled ==
  ASSUME KillInv, TypeInv', LockInv', Kill \/ Start
  PROVE  Settled'
<1>0. UNCHANGED <<mounted, ko, name, wrote, row, mlog>>
  BY DEF Kill, Start, kernelVars, recoverRest
<1>1. /\ plans' = <<>> /\ tierd' # "closing"
      /\ \A w \in Workers : wk'[w].pc = "idle" /\ wk'[w].wseq <= wrote
      /\ rv'.pc \in {"none", "inspect"}
      /\ tierd' = "recovering" => row.state # "placed"
      /\ ko.state = "cutover_in_progress" => tierd' = "down"
  <2>1. wrote \in Nat BY LogConstants DEF KillInv, TypeInv, KernelType
  <2>2. CASE Kill
    BY <2>1, <2>2 DEF Kill, Gone, Idle, NoRecovery
  <2>3. CASE Start
    <3>1. tierd = "down" /\ UNCHANGED <<plans, wk>> BY <2>3 DEF Start, recoverRest
    <3>2. plans = <<>> /\ \A w \in Workers : wk[w].pc = "idle"
      BY Zenon, <3>1 DEF KillInv, QueueInv, Busy
    <3>3. \A w \in Workers : wk[w].wseq <= wrote BY DEF KillInv, WorkInv, Work
    <3>4. rv'.pc \in {"none", "inspect"} BY <2>3 DEF Start, NoRecovery
    <3> QED BY <2>3, <3>1, <3>2, <3>3, <3>4 DEF Start, NoCommand
  <2> QED BY <2>2, <2>3
<1>2. QueueInv'
  <2>1. DOMAIN plans' = {} BY <1>1
  <2> QED BY <1>1, <2>1 DEF QueueInv, Busy
<1>3. HereInv' BY Zenon, <1>0 DEF KillInv, HereInv, Current
<1>4. PlaceInv' BY <1>0 DEF KillInv, PlaceInv, OnlyAt
<1>5. CutInv' BY <1>0, <1>1 DEF KillInv, CutInv
<1>6. OwnInv'
  <2>1. DOMAIN plans' = {} BY <1>1
  <2> QED BY Zenon, <1>0, <1>1, <2>1 DEF KillInv, OwnInv, Busy
<1>7. WorkInv' BY <1>0, <1>1 DEF WorkInv, Work, Holds, Before, After
<1>8. RecInv' BY <1>0, <1>1 DEF RecInv
<1> QED BY <1>2, <1>3, <1>4, <1>5, <1>6, <1>7, <1>8 DEF Settled

\* Recovery removes the copy that is not authoritative, then settles the
\* kernel, then the row.
LEMMA RecoverSettled ==
  ASSUME KillInv, TypeInv', LockInv', RecoverStep \/ RecoverFails
  PROVE  Settled'
<1>0. /\ tierd = "recovering" /\ UNCHANGED <<plans, nseq, wk, mlog>>
      /\ rv.pc # "none"
  <2>1. rv.pc # "none" /\ UNCHANGED <<plans, nseq, wk, mlog>>
    BY ZenonT(60) DEF RecoverStep, RecoverInspect, Warm, RecoverRemove,
       RecoverAck, RecoverSettle, RecoverFails, GiveUp, recoverRest
  <2> QED BY <2>1 DEF KillInv, LockInv
<1>1. /\ plans = <<>> /\ DOMAIN plans = {}
      /\ \A w \in Workers : wk[w].pc = "idle" /\ wk[w].wseq <= wrote
  BY <1>0 DEF KillInv, QueueInv, Busy, WorkInv, Work
<1>2. row.state # "placed" /\ ko.state # "cutover_in_progress"
  BY <1>0 DEF KillInv, RecInv, CutInv
<1>3. HereInv /\ PlaceInv /\ OwnInv /\ RecInv BY Zenon DEF KillInv
<1>4. /\ ko \in Inodes /\ ko.tier \in Tiers /\ ko.intended \in Tiers
      /\ ko.state \in States /\ row \in RowSet
  BY DEF KillInv, TypeInv, KernelType, Inodes, TierdType, RowSet
<1>5. ASSUME tierd' \in {"recovering", "up"}, wrote' = wrote PROVE QueueInv' /\ WorkInv'
  <2>1. QueueInv'
    BY Zenon, <1>0, <1>1, <1>5 DEF QueueInv, Busy
  <2>2. WorkInv'
    BY <1>0, <1>1, <1>5 DEF WorkInv, Work, Holds, Before, After
  <2> QED BY <2>1, <2>2
<1>6. ASSUME GiveUp, UNCHANGED <<mounted, ko, name, wrote>> PROVE Settled'
  <2>1. tierd' = "up" /\ rv' = NoRecovery /\ row' = row
    BY Zenon, <1>6 DEF GiveUp
  <2>2. HereInv' BY Zenon, <1>3, <1>6 DEF HereInv, Current
  <2>3. PlaceInv' BY <1>3, <1>6, <2>1 DEF PlaceInv, OnlyAt
  <2>4. CutInv' BY Zenon, <1>2, <1>6 DEF CutInv
  <2>5. OwnInv' BY <1>0, <1>3, <1>6, <2>1 DEF OwnInv, Busy
  <2>6. RecInv' BY <2>1 DEF RecInv, NoRecovery
  <2> QED BY <1>5, <1>6, <2>1, <2>2, <2>3, <2>4, <2>5, <2>6 DEF Settled
<1>7. CASE RecoverInspect /\ RecoverValid
  <2> DEFINE o == IF ko.tier = Recorded.dst THEN Recorded.src ELSE Recorded.dst
  <2>1. /\ UNCHANGED <<mounted, ko, name, wrote, tierd, row>>
        /\ rv' = [pc |-> "remove", keep |-> ko.tier, other |-> o,
                  state |-> ko.state, seq |-> ko.seq]
    BY <1>3, <1>7 DEF RecoverInspect, kernelVars, HereInv
  <2>2. o # ko.tier BY Zenon, <1>7 DEF RecoverValid
  <2>3. ko.state \in Uncut => o = ko.intended
    <3> SUFFICES ASSUME ko.state \in Uncut PROVE o = ko.intended
      OBVIOUS
    <3>1. ko.seq = row.seq /\ ko.tier = Recorded.src /\ ko.tier # Recorded.dst
      BY <1>7 DEF RecoverValid, Uncut, PreCutover
    <3>2. o = Recorded.dst BY Zenon, <3>1
    <3>3. /\ ko.seq \in 1 .. MaxPlans /\ mlog[ko.seq].dst = ko.intended
          /\ (row.intended # NoTier => row.intended = ko.intended)
      BY Zenon, <1>3, <3>1 DEF OwnInv, Uncut, PreCutover
    <3>4. ko.seq \in DOMAIN mlog
      BY <3>3 DEF KillInv, TypeInv, TierdType
    <3> HIDE DEF o
    <3> QED BY <3>1, <3>2, <3>3, <3>4 DEF Recorded
  <2>4. ko.state = "switched" => o = row.cur
    <3> SUFFICES ASSUME ko.state = "switched" PROVE o = row.cur
      OBVIOUS
    <3>1. row.intended = ko.tier BY <1>3 DEF PlaceInv
    <3>2. row.intended # NoTier BY <1>4, <3>1, ZeroTier
    <3>3. Recorded.src = row.cur /\ Recorded.dst = ko.tier
      BY Zenon, <3>1, <3>2 DEF Recorded
    <3> QED BY <3>3
  <2> HIDE DEF o
  <2>5. RecInv' BY Zenon, <1>2, <2>1, <2>2, <2>3, <2>4 DEF RecInv
  <2>6. HereInv' BY Zenon, <1>3, <2>1 DEF HereInv, Current
  <2>7. PlaceInv' BY <1>3, <2>1 DEF PlaceInv, OnlyAt
  <2>8. CutInv' BY Zenon, <1>2, <2>1 DEF CutInv
  <2>9. OwnInv' BY Zenon, <1>0, <1>3, <2>1 DEF OwnInv, Busy
  <2> QED BY Zenon, <1>0, <1>5, <2>1, <2>5, <2>6, <2>7, <2>8, <2>9 DEF Settled
<1>8. CASE RecoverInspect /\ ~RecoverValid
  BY Zenon, <1>6, <1>8 DEF RecoverInspect, kernelVars
<1>9. CASE RecoverRemove
  <2>1. /\ rv.pc = "remove" /\ WriteName(rv.other, Absent)
        /\ rv' = [rv EXCEPT !.pc = "ack"] /\ UNCHANGED <<tierd, row>>
    BY <1>9 DEF RecoverRemove
  <2>2. rv.other \in Tiers /\ rv.other # ko.tier /\ "pc" \in DOMAIN rv
    BY <1>3, <2>1 DEF KillInv, TypeInv, TierdType, RecInv
  <2>3. /\ rv'.pc = "ack" /\ rv'.other = rv.other /\ rv'.keep = rv.keep
        /\ rv'.state = rv.state
    BY <2>1, <2>2
  <2>4. /\ name'[rv.other] = Absent
        /\ \A u \in Tiers \ {rv.other} : name'[u] = name[u]
        /\ ko'.state = ko.state /\ ko'.tier = ko.tier
        /\ ko'.intended = ko.intended /\ ko'.seq = ko.seq
        /\ HereInv'
        /\ UNCHANGED <<mounted, wrote>>
    BY Zenon, <2>1, <2>2, NameEffect
  <2>5. \A t \in Tiers : name[t].kind = "absent" => name'[t].kind = "absent"
    BY <2>4 DEF Absent
  <2>6. PlaceInv'
    BY <1>3, <2>1, <2>4, <2>5 DEF PlaceInv, OnlyAt
  <2>7. CutInv' BY <1>2, <2>4 DEF CutInv
  <2>8. OwnInv' BY <1>0, <1>3, <2>1, <2>4 DEF OwnInv, Busy
  <2>9. RecInv'
    <3>1. name'[rv.other].kind = "absent" BY <2>4 DEF Absent
    <3> QED BY <1>2, <1>3, <2>1, <2>3, <2>4, <3>1 DEF RecInv
  <2> QED BY <1>0, <1>5, <2>1, <2>4, <2>6, <2>7, <2>8, <2>9 DEF Settled
<1>10. CASE RecoverAck
  <2>1. /\ rv.pc = "ack" /\ rv' = [rv EXCEPT !.pc = "settle"]
        /\ UNCHANGED <<tierd, row>>
    BY Zenon, <1>10 DEF RecoverAck
  <2>2. /\ ko'.state = "placed" /\ ko'.tier = ko.tier
        /\ HereInv'
        /\ UNCHANGED <<mounted, name, wrote>>
    <3>1. CASE rv.state = "placed" /\ UNCHANGED kernelVars
      <4>1. ko.state = "placed" BY <1>3, <2>1, <3>1 DEF RecInv
      <4> QED BY <1>3, <3>1, <4>1 DEF kernelVars, HereInv, Current
    <3>2. CASE \E S : Acknowledge(S, rv.seq) BY Zenon, <3>2, AckEffect
    <3> QED BY Zenon, <1>10, <3>1, <3>2 DEF RecoverAck, CompleteAccept, RollbackAccept
  <2>3. rv'.pc = "settle" /\ rv'.keep = rv.keep /\ rv'.other = rv.other
    BY <2>1 DEF KillInv, TypeInv, TierdType
  <2>4. /\ rv.keep = ko.tier /\ rv.other # ko.tier
        /\ rv.state = ko.state /\ name[rv.other].kind = "absent"
        /\ (ko.state \in Uncut => rv.other = ko.intended)
        /\ (ko.state = "switched" => rv.other = row.cur)
    BY <1>3, <2>1 DEF RecInv
  <2>5. PlaceInv'
    <3>1. OnlyAt({ko.tier})
      BY <1>2, <1>3, <1>4, <2>4 DEF PlaceInv, OnlyAt, Uncut, PreCutover, States
    <3>2. ko.tier # row.cur => row.state = "moving" /\ row.intended = ko.tier
      BY Zenon, <1>2, <1>3, <1>4 DEF PlaceInv, Uncut, PreCutover, States
    <3>3. OnlyAt({ko.tier})' BY Zenon, <2>2, <3>1 DEF OnlyAt
    <3> QED BY Zenon, <2>1, <2>2, <3>2, <3>3 DEF PlaceInv, Uncut, PreCutover
  <2>6. CutInv' /\ OwnInv' BY <2>2 DEF CutInv, OwnInv
  <2>7. RecInv' BY Zenon, <1>2, <2>1, <2>2, <2>3, <2>4 DEF RecInv
  <2> QED BY <1>0, <1>5, <2>1, <2>2, <2>5, <2>6, <2>7 DEF Settled
<1>11. CASE RecoverSettle
  <2>1. UNCHANGED <<mounted, ko, name, wrote>> BY Zenon, <1>11 DEF RecoverSettle, kernelVars
  <2>2. rv.pc = "settle" /\ rv.keep = ko.tier /\ ko.state = "placed"
    BY Zenon, <1>3, <1>11 DEF RecoverSettle, RecInv
  <2>3. /\ row' = [row EXCEPT !.state = "placed", !.intended = NoTier,
                              !.cur = ko.tier]
        /\ tierd' = "up" /\ rv' = NoRecovery
    BY <1>3, <1>11, <2>2 DEF RecoverSettle, HereInv
  <2>4. row'.state = "placed" /\ row'.cur = ko.tier
    BY Zenon, <1>4, <2>3 DEF RowSet
  <2>5. HereInv' BY Zenon, <1>3, <2>1 DEF HereInv, Current
  <2>6. PlaceInv'
    BY Zenon, <1>3, <2>1, <2>2, <2>4 DEF PlaceInv, OnlyAt, Uncut, PreCutover
  <2>7. CutInv' /\ OwnInv' BY <2>1, <2>2 DEF CutInv, OwnInv
  <2>8. RecInv' BY Zenon, <2>3 DEF RecInv, NoRecovery
  <2> QED BY <1>5, <2>1, <2>3, <2>5, <2>6, <2>7, <2>8 DEF Settled
<1>12. CASE RecoverFails
  BY Zenon, <1>6, <1>12 DEF RecoverFails, kernelVars
<1>13. ~Warm BY <1>3 DEF Warm, HereInv
<1> QED BY <1>7, <1>8, <1>9, <1>10, <1>11, <1>12, <1>13 DEF RecoverStep

\* The pool is mounted with its one file placed, and tierd has not started.
LEMMA InitSettled == Init => Settled
<1> SUFFICES ASSUME Init PROVE Settled
  OBVIOUS
<1>2. PICK t \in Tiers :
        /\ ko = Inode("placed", t, t, 0)
        /\ name = [u \in Tiers |-> IF u = t THEN [kind |-> "whole",
                                        data |-> {}, oid |-> "own"]
                                    ELSE Absent]
        /\ row = [state |-> "placed", cur |-> t, intended |-> NoTier,
                   seq |-> 0]
  BY Zenon DEF Init
<1>3. /\ mounted /\ wrote = 0 /\ plans = <<>> /\ rv = NoRecovery
      /\ wk = [w \in Workers |-> Idle] /\ tierd \in {"up", "down"}
  BY Zenon DEF Init
<1>4. /\ ko.state = "placed" /\ ko.tier = t /\ ko.here /\ ~ko.alien /\ ko.linked
      /\ row.state = "placed" /\ row.cur = t /\ ko.writes = 0
  BY <1>2 DEF Inode
<1>5. name[t].kind = "whole" /\ name[t].data = {}
      /\ \A u \in Tiers \ {t} : name[u].kind = "absent"
  BY <1>2 DEF Absent
<1>6. \A w \in Workers : wk[w].pc = "idle" /\ wk[w].wseq = 0
  BY <1>3 DEF Idle
<1>7. QueueInv BY <1>3, <1>6 DEF QueueInv, Busy
<1>8. HereInv
  <2>1. 1 .. wrote = {} BY <1>3
  <2> QED BY <1>3, <1>4, <1>5, <2>1 DEF HereInv, Current
<1>9. PlaceInv BY <1>4, <1>5 DEF PlaceInv, OnlyAt, Uncut, PreCutover
<1>10. CutInv /\ OwnInv BY Zenon, <1>4 DEF CutInv, OwnInv
<1>11. WorkInv BY <1>3, <1>6 DEF WorkInv, Work, Holds, Before, After
<1>12. RecInv BY <1>3 DEF RecInv, NoRecovery
<1> QED BY <1>7, <1>8, <1>9, <1>10, <1>11, <1>12 DEF Settled

\* Every step of a worker keeps the invariant.
LEMMA WorkerSettled ==
  ASSUME KillInv, TypeInv', LockInv', NEW w \in Workers, WorkerStep(w)
  PROVE  Settled'
<1>1. CASE MoveCutover(w)
  <2>1. \/ UNCHANGED kernelVars /\ Goto(w, "refused")
        \/ CutoverBegin(wk[w].plan.seq, wk[w].wseq) /\ Goto(w, "cutting")
    BY <1>1 DEF MoveCutover
  <2> QED BY Zenon, <1>1, <2>1, PcOnly, CutoverSettled
<1>2. CASE ~MoveCutover(w)
  BY ZenonT(60), <1>2, PcOnly, InspectSettled, IntentSettled, MovePlanSettled,
     CopySettled, EndSettled, SourceSettled, CompleteSettled DEF WorkerStep
<1> QED BY <1>1, <1>2

\* With kills of tierd as the only restarts, no step of the pool breaks the
\* invariant.
LEMMA NextSettled ==
  ASSUME KillOnly, KillInv, TypeInv', LockInv', [Next]_vars
  PROVE  Settled'
<1>1. ~Shutdown /\ ~HostCrash /\ ~PoolUnmount
  BY DEF KillOnly, Shutdown, HostCrash, PoolUnmount, Counted
<1>2. ~Exit BY DEF Exit, KillInv, QueueInv
<1>3. ~PoolMount BY DEF PoolMount, Mount, KillInv, HereInv
<1>4. CASE UNCHANGED vars
  <2>1. UNCHANGED <<mounted, ko, name, wrote, tierd, plans, nseq, wk, row, mlog, rv>>
    BY Zenon, <1>4 DEF vars, kernelVars, tierdVars
  <2>2. QueueInv' BY Zenon, <2>1, QueueKept DEF KillInv
  <2>3. HereInv' /\ PlaceInv'
    BY <2>1 DEF KillInv, HereInv, PlaceInv, Current, OnlyAt
  <2>4. CutInv' /\ RecInv' BY Zenon, <2>1 DEF KillInv, CutInv, RecInv
  <2>5. WorkInv' BY Zenon, <2>1, WorkKept DEF KillInv, WorkInv
  <2>6. OwnInv' BY Zenon, <2>1 DEF KillInv, OwnInv, Busy
  <2> QED BY <2>2, <2>3, <2>4, <2>5, <2>6 DEF Settled
<1> QED
  BY ZenonT(60), <1>1, <1>2, <1>3, <1>4, PlanSettled, WorkerSettled,
     ReplySettled, KillSettled, KernelSettled, RecoverSettled DEF Next

\* Users' writes are numbered in order, and nothing takes one back.
LEMMA WroteGrows ==
  ASSUME KillOnly, KillInv, [Next]_vars
  PROVE  wrote' = wrote \/ wrote' = wrote + 1
<1>1. ~Shutdown /\ ~HostCrash /\ ~PoolUnmount
  BY DEF KillOnly, Shutdown, HostCrash, PoolUnmount, Counted
<1>2. ~PoolMount BY DEF PoolMount, Mount, KillInv, HereInv
<1>3. CASE \E w \in Workers : WorkerStep(w)
  <2>1. PICK w \in Workers : WorkerStep(w) BY <1>3
  <2> QED BY ZenonT(60), <2>1 DEF WorkerStep, WorkerInspect, PersistIntent,
     MovePlan, MovePlanRefused, CopyStart, CopyDone, Verify, InspectStable, CopyFails,
     MoveCutover, RemoveDestination, Abort, RemoveSource, SyncSource,
     MoveComplete, CleanupFails, Finalize, kernelVars, PlanAccept, WriteName,
     CutoverBegin, CompleteAccept, RollbackAccept, Acknowledge
<1>4. CASE CutoverSucceeds \/ CutoverFails
  BY Zenon, <1>4 DEF CutoverSucceeds, CutoverFails, CutoverSwitch, CutoverUndo
<1>5. CASE KernelStep
  BY <1>5 DEF KernelStep, FlushRecord, PathIndexRebuild, InstantiateOne,
     PathLookup, UserWrite
<1>6. CASE RecoverStep \/ RecoverFails
  BY ZenonT(60), <1>6 DEF RecoverStep, RecoverFails, RecoverInspect, Warm,
     RecoverRemove, RecoverAck, RecoverSettle, kernelVars, WriteName,
     CompleteAccept, RollbackAccept, Acknowledge, PathLookup
<1>7. CASE Kill \/ Exit \/ Start \/ (\E dst \in Tiers : PlanPool(dst))
           \/ UNCHANGED vars
  BY Zenon, <1>7 DEF Kill, Exit, Start, PlanPool, vars, kernelVars
<1> QED
  BY ZenonT(60), <1>1, <1>2, <1>3, <1>4, <1>5, <1>6, <1>7 DEF Next
=============================================================================
