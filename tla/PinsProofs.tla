----------------------------- MODULE PinsProofs -----------------------------
(***************************************************************************)
(* The pins of a file, for any uses, tiers, links and failures: the        *)
(* inductive invariant PinsInv and what follows from it.                   *)
(***************************************************************************)
EXTENDS Pins, FiniteSetTheorems, TLAPS

\* The objects, jobs and rows there are.
ObjType == [tier : Tiers, dest : Tiers,
            state : {"placed", "planned", "failed", "switched"},
            by : {"other", "lun"}]
JobType == [at : Stopping \cup {"idle", "cleanup", "down"},
            src : Tiers, dst : Tiers]
RowType == [tier : Tiers, state : {"placed", "moving", "failed"}]

\* The types the proofs need.
PinTypes ==
  /\ use \in Uses
  /\ pin \in {"none", "lease", "lun", "hardlink"}
  /\ obj \in ObjType
  /\ lease \in [Conns -> {"none", "taken", "held", "unpinned", "breaking",
                          "dropped"}]
  /\ target \in {"live", "stopped"}
  /\ job \in JobType
  /\ row \in RowType

\* Initially every variable has its type.
LEMMA InitPinTypes == Init => PinTypes
BY DEF Init, PinTypes, ObjType, JobType, RowType

\* Commands on links and leases keep the types.
LEMMA FileStepTypes ==
  PinTypes /\ (Link \/ Unlink \/ (\E c \in Conns : SmbStep(c))
               \/ (\E w \in Conns \cup {"local"} : Write(w)) \/ OperatorPin)
    => PinTypes'
BY DEF PinTypes, Link, Unlink, SmbStep, TakeLease, SetLeasePin, DropLease,
       ClearLeasePin, FanotifyEvent, SmbdDies, Write, OperatorPin, Broken,
       EventPin, SetPin, ClearPin, Leased, kvars, lvars, svars

\* Movements of ordinary files keep the types.
LEMMA MoveStepTypes == PinTypes /\ (Plan \/ Switch \/ Settle) => PinTypes'
<1> USE DEF ObjType, kvars, lvars, svars
<1>1. ASSUME PinTypes, Plan PROVE PinTypes'
  BY <1>1 DEF PinTypes, Plan, MovePlan
<1>2. ASSUME PinTypes, Switch PROVE PinTypes'
  BY Zenon, <1>2 DEF PinTypes, Switch, MoveCutover, Signal, ClearPin
<1>3. ASSUME PinTypes, Settle PROVE PinTypes'
  BY <1>3 DEF PinTypes, Settle, Settled
<1> QED BY <1>1, <1>2, <1>3

\* The preparation of a LUN movement keeps the types.
LEMMA LunPrepareTypes ==
  PinTypes /\ (LunStop \/ LunClear \/ LunBuild \/ LunRepin \/ LunResume)
    => PinTypes'
BY DEF PinTypes, JobType, RowType, Stopping, LunStop, LunClear, LunBuild, LunRepin, LunResume,
       At, Goto, ClearPin, SetPin, kvars, lvars, svars

\* The movement of a LUN keeps the types.
LEMMA LunMoveTypes ==
  PinTypes /\ (LunAdmit \/ LunPlan \/ LunCopy \/ LunCutover \/ LunVerify)
    => PinTypes'
<1> USE DEF PinTypes, At, Goto, kvars, lvars, svars
<1>1. ASSUME PinTypes, LunAdmit PROVE PinTypes'
  BY <1>1 DEF LunAdmit, JobType, Stopping, RowType
<1>2. ASSUME PinTypes, LunPlan PROVE PinTypes'
  <2>1. obj' \in ObjType BY <1>2 DEF LunPlan, MovePlan, CanMove, ObjType, JobType
  <2>2. job' \in JobType BY Zenon, <1>2 DEF LunPlan, JobType, Stopping
  <2>3. row' \in RowType BY <1>2 DEF LunPlan, ObjType, JobType, RowType
  <2> QED BY <1>2, <2>1, <2>2, <2>3 DEF LunPlan
<1>3. ASSUME PinTypes, LunCopy PROVE PinTypes'
  BY <1>3 DEF LunCopy, JobType, Stopping
<1>4. ASSUME PinTypes, LunCutover PROVE PinTypes'
  BY <1>4 DEF LunCutover, MoveCutover, Signal, ClearPin, JobType, Stopping, RowType, ObjType
<1>5. ASSUME PinTypes, LunVerify PROVE PinTypes'
  BY <1>5 DEF LunVerify, FailAfterSwitch, JobType, Stopping, RowType
<1> QED BY <1>1, <1>2, <1>3, <1>4, <1>5

\* So do its end, tierd's restart and the operator's.
LEMMA LunEndTypes ==
  PinTypes /\ (LunServe \/ LunCleanup \/ LunBack \/ LunBackServe \/ TierdDies
               \/ TierdStarts \/ OperatorStart \/ Instantiate)
    => PinTypes'
<1> USE DEF PinTypes, At, Goto, kvars, lvars, svars
<1>1. ASSUME PinTypes, LunServe PROVE PinTypes'
  BY <1>1 DEF LunServe, FailAfterSwitch, JobType, Stopping, RowType
<1>2. ASSUME PinTypes, LunCleanup PROVE PinTypes'
  <2>1. obj' \in ObjType BY Zenon, <1>2 DEF LunCleanup, Settled, ObjType, RowType
  <2>2. job' \in JobType BY <1>2 DEF LunCleanup, JobType, Stopping
  <2>3. row' \in RowType BY <1>2 DEF LunCleanup, ObjType, JobType, RowType
  <2> QED BY <1>2, <2>1, <2>2, <2>3 DEF LunCleanup
<1>3. ASSUME PinTypes, LunBack PROVE PinTypes'
  BY <1>3 DEF LunBack, JobType, Stopping, RowType
<1>4. ASSUME PinTypes, LunBackServe PROVE PinTypes'
  BY <1>4 DEF LunBackServe, JobType, Stopping, RowType
<1>5. ASSUME PinTypes, TierdDies PROVE PinTypes'
  BY <1>5 DEF TierdDies, JobType, Stopping
<1>6. ASSUME PinTypes, TierdStarts PROVE PinTypes'
  <2>1. obj' \in ObjType BY <1>6 DEF TierdStarts, Settled, ObjType, RowType
  <2>2. job' \in JobType BY <1>6 DEF TierdStarts, JobType, Stopping
  <2>3. row' \in RowType BY <1>6 DEF TierdStarts, ObjType, JobType, RowType
  <2> QED BY <1>6, <2>1, <2>2, <2>3 DEF TierdStarts
<1>7. ASSUME PinTypes, OperatorStart PROVE PinTypes'
  BY <1>7 DEF OperatorStart
<1>8. ASSUME PinTypes, Instantiate PROVE PinTypes'
  BY <1>8 DEF Instantiate, Settled, ObjType
<1> QED BY <1>1, <1>2, <1>3, <1>4, <1>5, <1>6, <1>7, <1>8

\* Every step keeps the types.
LEMMA NextPinTypes == PinTypes /\ [Next]_vars => PinTypes'
<1>1. ASSUME PinTypes, UNCHANGED vars PROVE PinTypes'
  BY <1>1 DEF PinTypes, vars, kvars, svars, lvars
<1> QED BY <1>1, FileStepTypes, MoveStepTypes, LunPrepareTypes, LunMoveTypes,
           LunEndTypes DEF Next, LunStep

-----------------------------------------------------------------------------
(* The invariant. *)

\* Initially the invariant holds.
LEMMA InitPinsInv ==
  ASSUME MaxLinks \in Nat \ {0}
  PROVE  Init => PinsInv
BY DEF Init, PinsInv, LunGuarded, Stopping

\* Movements, links and the Samba module keep the invariant.
LEMMA FilePinsInv ==
  ASSUME MaxLinks \in Nat \ {0}, PinTypes, PinsInv,
         \/ Plan \/ Switch \/ Settle \/ Link \/ Unlink
         \/ \E c \in Conns : SmbStep(c)
         \/ \E w \in Conns \cup {"local"} : Write(w)
  PROVE  PinsInv'
<1> USE DEF PinTypes, ObjType, JobType, PinsInv, LunGuarded, Stopping,
            kvars, svars, lvars
<1>1. CASE Plan BY <1>1 DEF Plan, MovePlan, CanMove
<1>2. CASE Switch BY <1>2 DEF Switch, MoveCutover, Signal, ClearPin
<1>3. CASE Settle BY <1>3 DEF Settle, Settled
<1>4. CASE Link BY <1>4 DEF Link, SetPin
<1>5. CASE Unlink BY <1>5 DEF Unlink, ClearPin
<1>6. ASSUME NEW c \in Conns, SmbStep(c) PROVE PinsInv'
  <2>1. CASE TakeLease(c) BY <2>1 DEF TakeLease
  <2>2. CASE SetLeasePin(c) BY <2>2 DEF SetLeasePin, SetPin
  <2>3. CASE DropLease(c) BY <2>3 DEF DropLease
  <2>4. CASE ClearLeasePin(c) BY <2>4 DEF ClearLeasePin, ClearPin
  <2>5. CASE FanotifyEvent(c) BY <2>5 DEF FanotifyEvent, Broken, Leased, EventPin, ClearPin
  <2>6. CASE SmbdDies(c) BY <2>6 DEF SmbdDies
  <2> QED BY <1>6, <2>1, <2>2, <2>3, <2>4, <2>5, <2>6 DEF SmbStep
<1>7. ASSUME NEW w \in Conns \cup {"local"}, Write(w) PROVE PinsInv'
  BY <1>7 DEF Write
<1> QED BY Zenon, <1>1, <1>2, <1>3, <1>4, <1>5, <1>6, <1>7

\* The preparation of a LUN movement keeps the invariant.
LEMMA PreparePinsInv ==
  ASSUME PinTypes, PinsInv,
         LunStop \/ LunClear \/ LunBuild \/ LunRepin \/ LunResume
  PROVE  PinsInv'
<1> USE DEF PinTypes, ObjType, JobType, PinsInv, LunGuarded, Stopping,
            At, Goto, kvars, svars, lvars
<1>1. CASE LunStop BY <1>1 DEF LunStop
<1>2. CASE LunClear BY <1>2 DEF LunClear, ClearPin
<1>3. CASE LunBuild BY <1>3 DEF LunBuild
<1>4. CASE LunRepin BY <1>4 DEF LunRepin, SetPin
<1>5. CASE LunResume BY <1>5 DEF LunResume
<1> QED BY <1>1, <1>2, <1>3, <1>4, <1>5

\* Its movement keeps the invariant.
LEMMA MovePinsInv ==
  ASSUME PinTypes, PinsInv,
         LunAdmit \/ LunPlan \/ LunCopy \/ LunCutover \/ LunVerify
  PROVE  PinsInv'
<1> USE DEF PinTypes, ObjType, JobType, PinsInv, LunGuarded, Stopping,
            At, Goto, kvars, svars, lvars
<1>1. CASE LunAdmit BY <1>1 DEF LunAdmit
<1>2. CASE LunPlan BY <1>2 DEF LunPlan, MovePlan, CanMove
<1>3. CASE LunCopy BY <1>3 DEF LunCopy
<1>4. CASE LunCutover BY Zenon, <1>4 DEF LunCutover, MoveCutover, Signal, ClearPin
<1>5. CASE LunVerify BY <1>5 DEF LunVerify, FailAfterSwitch, Visible
<1> QED BY <1>1, <1>2, <1>3, <1>4, <1>5

\* Its end keeps the invariant.
LEMMA EndPinsInv ==
  ASSUME PinTypes, PinsInv,
         LunServe \/ LunCleanup \/ LunBack \/ LunBackServe
  PROVE  PinsInv'
<1> USE DEF PinTypes, ObjType, JobType, PinsInv, LunGuarded, Stopping,
            At, Goto, kvars, svars, lvars
<1>1. CASE LunServe BY <1>1 DEF LunServe, FailAfterSwitch
<1>2. CASE LunCleanup BY Zenon, <1>2 DEF LunCleanup, Settled
<1>3. CASE LunBack BY <1>3 DEF LunBack, Visible
<1>4. CASE LunBackServe BY <1>4 DEF LunBackServe
<1> QED BY <1>1, <1>2, <1>3, <1>4

\* Restarts of tierd and the operator keep the invariant.
LEMMA RestartPinsInv ==
  ASSUME MaxLinks \in Nat \ {0}, PinTypes, PinsInv,
         TierdDies \/ TierdStarts \/ OperatorPin \/ OperatorStart
         \/ Instantiate
  PROVE  PinsInv'
<1> USE DEF PinTypes, ObjType, JobType, PinsInv, LunGuarded, Stopping,
            At, Goto, kvars, svars, lvars
<1>1. CASE TierdDies BY <1>1 DEF TierdDies
<1>2. CASE TierdStarts BY Zenon, <1>2 DEF TierdStarts, Settled
<1>3. CASE OperatorPin BY <1>3 DEF OperatorPin, SetPin
<1>4. CASE OperatorStart
  <2>1. "lun" \in use BY <1>4, UsesAssumption DEF OperatorStart
  <2> QED BY Zenon, <1>4, <2>1 DEF OperatorStart
<1>5. CASE Instantiate
  <2>1. 1 \in 1..MaxLinks /\ ~(1 > 1) OBVIOUS
  <2>2. nlink' = 1 /\ pin' = "none" /\ obj'.state = "placed"
    BY <1>5 DEF Instantiate, Settled
  <2> QED BY Zenon, <1>5, <2>1, <2>2 DEF Instantiate
<1> QED BY <1>1, <1>2, <1>3, <1>4, <1>5

\* Every step keeps the invariant.
LEMMA NextPinsInv ==
  ASSUME MaxLinks \in Nat \ {0}, PinTypes, PinsInv, [Next]_vars
  PROVE  PinsInv'
<1>1. CASE UNCHANGED vars
  BY <1>1 DEF PinsInv, LunGuarded, vars, kvars, svars, lvars
<1> QED BY <1>1, FilePinsInv, PreparePinsInv, MovePinsInv, EndPinsInv,
           RestartPinsInv DEF Next, LunStep

\* The types and the invariant hold for ever.
LEMMA PinsAlways ==
  ASSUME MaxLinks \in Nat \ {0}
  PROVE  Spec => [](PinTypes /\ PinsInv)
<1>1. Init => PinTypes /\ PinsInv BY InitPinTypes, InitPinsInv
<1>2. (PinTypes /\ PinsInv) /\ [Next]_vars => (PinTypes /\ PinsInv)'
  BY NextPinTypes, NextPinsInv
<1> QED BY <1>1, <1>2, PTL DEF Spec

\* PinsInv for any uses, tiers, links and connections and every choice of
\* failures.
THEOREM PinsInvHolds ==
  ASSUME MaxLinks \in Nat \ {0}
  PROVE  Spec => []PinsInv
BY PinsAlways, PTL

\* A live target sits on a file the kernel shows as pinned, whichever calls of
\* PrepareStoppedLUNMovementPlan, Worker.execute and recoverObject fail,
\* wherever tierd is killed and whoever else pins the file; a failed re-pin and
\* an eviction while the target is stopped are the only exceptions.
THEOREM LunGuardedHolds ==
  ASSUME MaxLinks \in Nat \ {0}
  PROVE  Spec => []LunGuarded
<1>1. PinTypes /\ PinsInv => LunGuarded BY DEF PinsInv
<1> QED BY <1>1, PinsAlways, PTL

\* A file with several names is pinned (smoothfs_link, smoothfs_unlink).
THEOREM LinkSetPinnedHolds ==
  ASSUME MaxLinks \in Nat \ {0}
  PROVE  Spec => []LinkSetPinned
<1>1. PinTypes /\ PinsInv => LinkSetPinned BY DEF PinsInv, LinkSetPinned
<1> QED BY <1>1, PinsAlways, PTL

\* MOVE_CUTOVER, forced or not, never moves the file under a live target that
\* is not one of the exceptions.
THEOREM LunNotMovedHolds ==
  ASSUME MaxLinks \in Nat \ {0}
  PROVE  Spec => LunNotMoved
<1>1. ASSUME PinTypes, PinsInv, [Next]_vars, target = "live", ~bare
      PROVE  obj'.tier = obj.tier
  <2> USE <1>1 DEF PinTypes, ObjType, kvars, svars, lvars
  <2>1. CASE Plan BY <2>1 DEF Plan, MovePlan
  <2>2. CASE Switch BY <2>2 DEF Switch, MoveCutover, PinsInv
  <2>3. CASE Settle BY <2>3 DEF Settle, Settled
  <2>4. CASE LunPlan BY <2>4 DEF LunPlan, MovePlan, CanMove
  <2>5. CASE LunCutover BY <2>5 DEF LunCutover, PinsInv, At, Stopping
  <2>6. CASE LunCleanup BY Zenon, <2>6 DEF LunCleanup, Settled
  <2>7. CASE TierdStarts BY Zenon, <2>7 DEF TierdStarts, Settled
  <2>8. CASE Link \/ Unlink \/ OperatorPin \/ OperatorStart \/ TierdDies
    BY Zenon, <2>8 DEF Link, Unlink, OperatorPin, OperatorStart, TierdDies
  <2>9. CASE \E c \in Conns : SmbStep(c)
    BY <2>9 DEF SmbStep, TakeLease, SetLeasePin, DropLease, ClearLeasePin,
                FanotifyEvent, SmbdDies
  <2>10. CASE \E w \in Conns \cup {"local"} : Write(w) BY Zenon, <2>10 DEF Write
  <2>11. CASE LunStop \/ LunClear \/ LunBuild \/ LunRepin \/ LunResume
    BY Zenon, <2>11 DEF LunStop, LunClear, LunBuild, LunRepin, LunResume
  <2>12. CASE LunAdmit \/ LunCopy \/ LunVerify \/ LunServe \/ LunBack
              \/ LunBackServe
    BY <2>12 DEF LunAdmit, LunCopy, LunVerify, LunServe, LunBack, LunBackServe
  <2>13. CASE UNCHANGED vars BY <2>13 DEF vars
  <2>14. CASE Instantiate BY <2>14 DEF Instantiate
  <2> QED BY <2>1, <2>2, <2>3, <2>4, <2>5, <2>6, <2>7, <2>8, <2>9, <2>10,
             <2>11, <2>12, <2>13, <2>14 DEF Next, LunStep
<1>2. PinTypes /\ PinsInv /\ [Next]_vars
        => [target = "live" /\ ~bare => obj'.tier = obj.tier]_vars
  BY <1>1
<1> QED BY <1>2, PinsAlways, PTL DEF Spec, LunNotMoved

-----------------------------------------------------------------------------
(* The rest of the type invariant.                                         *)

\* The pending events of a watcher are a sequence of writers.
QueueType == queue \in [Conns -> Seq(Writers)]

\* Queues stay sequences of writers.
LEMMA NextQueueType == QueueType /\ [Next]_vars => QueueType'
<1> SUFFICES ASSUME QueueType, [Next]_vars PROVE QueueType' OBVIOUS
<1>1. CASE UNCHANGED queue BY <1>1 DEF QueueType
<1>2. ASSUME NEW c \in Conns, FanotifyEvent(c) PROVE QueueType'
  BY <1>2 DEF FanotifyEvent, QueueType
<1>3. ASSUME NEW c \in Conns, SmbdDies(c) PROVE QueueType'
  BY <1>3 DEF SmbdDies, QueueType
<1>4. ASSUME NEW w \in Conns \cup {"local"}, Write(w) PROVE QueueType'
  <2>1. PICK lost \in SUBSET Conns : queue' = Notified(w, lost)
    BY <1>4 DEF Write
  <2> QED BY <2>1 DEF QueueType, Notified, Writers
<1>5. ASSUME NEW c \in Conns, SmbStep(c) PROVE QueueType'
  BY Zenon, <1>1, <1>2, <1>3, <1>5
     DEF SmbStep, TakeLease, SetLeasePin, DropLease, ClearLeasePin, kvars
<1>6. CASE Plan \/ Switch \/ Settle \/ Link \/ Unlink \/ TierdDies \/ TierdStarts
           \/ OperatorPin \/ OperatorStart \/ Instantiate \/ UNCHANGED vars
  BY Zenon, <1>1, <1>6 DEF Plan, Switch, Settle, Link, Unlink, TierdDies,
     TierdStarts, OperatorPin, OperatorStart, Instantiate, vars, svars
<1>7. CASE LunStep
  BY Zenon, <1>1, <1>7 DEF LunStep, LunStop, LunClear, LunBuild, LunRepin,
     LunResume, LunAdmit, LunPlan, LunCopy, LunCutover, LunVerify, LunServe,
     LunCleanup, LunBack, LunBackServe, svars
<1> QED BY <1>4, <1>5, <1>6, <1>7 DEF Next

\* No event is pending twice: what keeps the queues finite.
Distinct(q) == \A i, j \in 1..Len(q) : q[i] = q[j] => i = j

\* What TypeOK says beyond the types above, in inductive form.
RestTypes ==
  /\ nlink \in 1..MaxLinks
  /\ obj.state = "placed" => obj.dest = obj.tier
  /\ moved \in [Conns -> BOOLEAN]
  /\ bare \in BOOLEAN
  /\ \A c \in Conns : Distinct(queue[c])

\* An event is added to a queue that does not have it yet.
LEMMA NotifiedDistinct ==
  ASSUME QueueType, NEW w \in Writers, NEW lost, queue' = Notified(w, lost),
         \A c \in Conns : Distinct(queue[c])
  PROVE  \A c \in Conns : Distinct(queue'[c])
<1> TAKE c \in Conns
<1>1. queue[c] \in Seq(Writers) /\ Distinct(queue[c]) BY DEF QueueType
<1>2. CASE c \in lost \/ w \in Pending(c) BY <1>1, <1>2 DEF Notified
<1>3. CASE ~(c \in lost \/ w \in Pending(c))
  <2>1. queue'[c] = Append(queue[c], w) BY <1>3 DEF Notified
  <2>2. Len(queue'[c]) = Len(queue[c]) + 1 /\ queue'[c][Len(queue[c]) + 1] = w
        /\ Len(queue[c]) \in Nat
    BY <1>1, <2>1
  <2>3. \A i \in 1..Len(queue[c]) : queue'[c][i] = queue[c][i]
    BY <1>1, <2>1
  <2>4. \A i \in 1..Len(queue[c]) : queue[c][i] # w
    BY Zenon, <1>3 DEF Pending
  <2>5. ASSUME NEW i \in 1..Len(queue'[c]), NEW j \in 1..Len(queue'[c]),
               queue'[c][i] = queue'[c][j]
        PROVE  i = j
    <3>1. \A k \in 1..Len(queue'[c]) : k \in 1..Len(queue[c]) \/ k = Len(queue[c]) + 1
      BY <2>2
    <3> QED BY Zenon, <1>1, <2>2, <2>3, <2>4, <2>5, <3>1 DEF Distinct
  <2> QED BY Zenon, <2>5 DEF Distinct
<1> QED BY <1>2, <1>3

\* The head of a queue without repetitions leaves one without.
LEMMA TailDistinct ==
  ASSUME NEW q \in Seq(Writers), q # <<>>, Distinct(q)
  PROVE  Distinct(Tail(q))
<1>1. /\ Len(q) \in Nat
      /\ Len(Tail(q)) = Len(q) - 1
      /\ \A i \in 1..Len(q) - 1 : Tail(q)[i] = q[i + 1]
  OBVIOUS
<1> QED BY <1>1 DEF Distinct

\* A queue of different writers is no longer than there are writers.
LEMMA DistinctShort ==
  ASSUME IsFiniteSet(Conns), NEW q \in Seq(Writers), Distinct(q)
  PROVE  Len(q) <= Cardinality(Writers)
<1>1. IsFiniteSet(Writers)
  <2>1. IsFiniteSet(Conns \cup {"local"}) BY Zenon, FS_AddElement
  <2>2. IsFiniteSet((Conns \cup {"local"}) \cup {"tierd"})
    BY Zenon, <2>1, FS_AddElement
  <2>3. Writers = (Conns \cup {"local"}) \cup {"tierd"} BY Zenon DEF Writers
  <2> QED BY <2>2, <2>3
<1>2. Len(q) \in Nat /\ q \in [1..Len(q) -> Writers] OBVIOUS
<1>3. q \in Injection(1..Len(q), Writers) BY Zenon, <1>2
     DEF Injection, IsInjective, Distinct
<1>4. Cardinality(1..Len(q)) <= Cardinality(Writers) BY <1>1, <1>3, FS_Injection
<1>5. Cardinality(1..Len(q)) = Len(q) BY <1>2, FS_Interval
<1> QED BY <1>4, <1>5

\* Every step keeps the rest of the types.
LEMMA NextRestTypes ==
  ASSUME MaxLinks \in Nat \ {0}, PinTypes, QueueType, RestTypes, [Next]_vars
  PROVE  RestTypes'
<1>1. nlink' \in 1..MaxLinks
  <2>1. CASE Link BY <2>1 DEF Link, RestTypes
  <2>2. CASE Unlink BY <2>2 DEF Unlink, RestTypes
  <2>3. ASSUME nlink' = nlink PROVE nlink' \in 1..MaxLinks BY <2>3 DEF RestTypes
  <2>4. CASE Plan \/ Switch \/ Settle \/ (\E c \in Conns : SmbStep(c))
             \/ (\E w \in Conns \cup {"local"} : Write(w)) \/ OperatorPin
             \/ OperatorStart \/ TierdDies \/ TierdStarts \/ UNCHANGED vars
    BY Zenon, <2>3, <2>4 DEF Plan, Switch, Settle, SmbStep, TakeLease,
       SetLeasePin, DropLease, ClearLeasePin, FanotifyEvent, SmbdDies, Write,
       OperatorPin, OperatorStart, TierdDies, TierdStarts, vars, kvars
  <2>5. CASE LunStep
    BY Zenon, <2>3, <2>5 DEF LunStep, LunStop, LunClear, LunBuild, LunRepin,
       LunResume, LunAdmit, LunPlan, LunCopy, LunCutover, LunVerify, LunServe,
       LunCleanup, LunBack, LunBackServe, kvars
  <2>6. CASE Instantiate BY <2>6 DEF Instantiate
  <2> QED BY <2>1, <2>2, <2>4, <2>5, <2>6 DEF Next
<1>2. obj'.state = "placed" => obj'.dest = obj'.tier
  <2>1. ASSUME obj' = obj PROVE obj'.state = "placed" => obj'.dest = obj'.tier
    BY <2>1 DEF RestTypes
  <2>2. ASSUME obj' = Settled PROVE obj'.dest = obj'.tier
    BY <2>2 DEF Settled, PinTypes, ObjType
  <2>3. ASSUME NEW d, NEW f, NEW b, MovePlan(d, f, b) PROVE obj'.state # "placed"
    BY <2>3 DEF MovePlan
  <2>4. ASSUME MoveCutover PROVE obj'.state # "placed"
    BY <2>4 DEF MoveCutover, PinTypes, ObjType
  <2>5. CASE Plan \/ Switch \/ Settle
    BY Zenon, <2>2, <2>3, <2>4, <2>5 DEF Plan, Switch, Settle
  <2>6. CASE LunCutover
    BY <2>1, <2>4, <2>6 DEF LunCutover, PinTypes, ObjType
  <2>7. CASE Link \/ Unlink \/ (\E c \in Conns : SmbStep(c))
             \/ (\E w \in Conns \cup {"local"} : Write(w)) \/ OperatorPin
             \/ OperatorStart \/ TierdDies \/ TierdStarts \/ Instantiate
             \/ UNCHANGED vars
    BY Zenon, <2>1, <2>2, <2>7 DEF Link, Unlink, SmbStep, TakeLease,
       SetLeasePin, DropLease, ClearLeasePin, FanotifyEvent, SmbdDies, Write,
       OperatorPin, OperatorStart, TierdDies, TierdStarts, Instantiate, vars,
       kvars
  <2>8. CASE LunStop \/ LunClear \/ LunBuild \/ LunRepin \/ LunResume
             \/ LunAdmit \/ LunPlan \/ LunCopy \/ LunVerify \/ LunServe
             \/ LunCleanup \/ LunBack \/ LunBackServe
    BY Zenon, <2>1, <2>2, <2>3, <2>8 DEF LunStop, LunClear, LunBuild, LunRepin,
       LunResume, LunAdmit, LunPlan, LunCopy, LunVerify, LunServe, LunCleanup,
       LunBack, LunBackServe, kvars
  <2> QED BY <2>5, <2>6, <2>7, <2>8 DEF Next, LunStep
<1>3. moved' \in [Conns -> BOOLEAN] /\ \A c \in Conns : Distinct(queue'[c])
  <2> DEFINE Goal == moved' \in [Conns -> BOOLEAN]
                     /\ \A c \in Conns : Distinct(queue'[c])
  <2>1. moved \in [Conns -> BOOLEAN] /\ \A c \in Conns : Distinct(queue[c])
    BY DEF RestTypes
  <2>2. ASSUME UNCHANGED <<moved, queue>> PROVE Goal BY <2>1, <2>2
  <2>3. ASSUME MoveCutover, UNCHANGED queue PROVE Goal
    BY Zenon, <2>1, <2>3 DEF MoveCutover
  <2>4. CASE Switch BY <2>3, <2>4 DEF Switch
  <2>5. CASE LunCutover BY <2>2, <2>3, <2>5 DEF LunCutover
  <2>6. ASSUME NEW w \in Conns \cup {"local"}, Write(w) PROVE Goal
    <3>1. PICK lost \in SUBSET Conns : queue' = Notified(w, lost)
      BY <2>6 DEF Write
    <3>2. moved' = moved /\ w \in Writers BY <2>6 DEF Write, Writers
    <3> QED BY <2>1, <3>1, <3>2, NotifiedDistinct
  <2>7. ASSUME NEW c \in Conns, SmbStep(c) PROVE Goal
    <3>1. CASE TakeLease(c) \/ SetLeasePin(c) \/ ClearLeasePin(c)
      BY Zenon, <2>2, <3>1 DEF TakeLease, SetLeasePin, ClearLeasePin
    <3>2. CASE DropLease(c) BY <2>1, <3>2 DEF DropLease
    <3>3. CASE FanotifyEvent(c)
      <4>1. moved' \in [Conns -> BOOLEAN] BY Zenon, <2>1, <3>3 DEF FanotifyEvent
      <4>2. /\ queue[c] \in Seq(Writers) /\ queue[c] # <<>>
            /\ queue' = [queue EXCEPT ![c] = Tail(queue[c])]
        BY <3>3 DEF FanotifyEvent, QueueType
      <4>3. Distinct(Tail(queue[c])) BY <2>1, <4>2, TailDistinct
      <4> QED BY <2>1, <4>1, <4>2, <4>3 DEF QueueType
    <3>4. CASE SmbdDies(c)
      <4>1. Distinct(<<>>) BY DEF Distinct
      <4> QED BY <2>1, <3>4, <4>1 DEF SmbdDies, QueueType
    <3> QED BY <2>7, <3>1, <3>2, <3>3, <3>4 DEF SmbStep
  <2>8. CASE Plan \/ Settle \/ Link \/ Unlink \/ TierdDies \/ TierdStarts
             \/ OperatorPin \/ OperatorStart \/ Instantiate \/ UNCHANGED vars
    BY Zenon, <2>2, <2>8 DEF Plan, Settle, Link, Unlink, TierdDies, TierdStarts,
       OperatorPin, OperatorStart, Instantiate, vars, svars
  <2>9. CASE LunStop \/ LunClear \/ LunBuild \/ LunRepin \/ LunResume
             \/ LunAdmit \/ LunPlan \/ LunCopy \/ LunVerify \/ LunServe
             \/ LunCleanup \/ LunBack \/ LunBackServe
    BY Zenon, <2>2, <2>9 DEF LunStop, LunClear, LunBuild, LunRepin, LunResume,
       LunAdmit, LunPlan, LunCopy, LunVerify, LunServe, LunCleanup, LunBack,
       LunBackServe, svars
  <2> QED BY <2>4, <2>5, <2>6, <2>7, <2>8, <2>9 DEF Next, LunStep
<1>4. bare' \in BOOLEAN
  <2>1. CASE UNCHANGED bare BY Zenon, <2>1 DEF RestTypes
  <2>2. CASE Instantiate \/ LunRepin BY Zenon, <2>2 DEF Instantiate, LunRepin
  <2>3. CASE Plan \/ Switch \/ Settle \/ Link \/ Unlink
             \/ (\E c \in Conns : SmbStep(c))
             \/ (\E w \in Conns \cup {"local"} : Write(w)) \/ OperatorPin
             \/ OperatorStart \/ TierdDies \/ TierdStarts \/ UNCHANGED vars
    BY Zenon, <2>1, <2>3 DEF Plan, Switch, Settle, Link, Unlink, SmbStep,
       TakeLease, SetLeasePin, DropLease, ClearLeasePin, FanotifyEvent,
       SmbdDies, Write, OperatorPin, OperatorStart, TierdDies, TierdStarts,
       vars, lvars
  <2>4. CASE LunStop \/ LunClear \/ LunBuild \/ LunResume \/ LunAdmit
             \/ LunPlan \/ LunCopy \/ LunCutover \/ LunVerify \/ LunServe
             \/ LunCleanup \/ LunBack \/ LunBackServe
    BY Zenon, <2>1, <2>4 DEF LunStop, LunClear, LunBuild, LunResume, LunAdmit,
       LunPlan, LunCopy, LunCutover, LunVerify, LunServe, LunCleanup, LunBack,
       LunBackServe
  <2> QED BY <2>2, <2>3, <2>4 DEF Next, LunStep
<1> QED BY Zenon, <1>1, <1>2, <1>3, <1>4 DEF RestTypes

\* All the types hold for ever.
LEMMA TypesAlways ==
  ASSUME MaxLinks \in Nat \ {0}
  PROVE  Spec => [](PinTypes /\ QueueType /\ RestTypes)
<1>1. Init => PinTypes /\ QueueType /\ RestTypes
  <2>1. Distinct(<<>>) BY DEF Distinct
  <2>2. Init => bare \in BOOLEAN BY Zenon DEF Init
  <2>3. Init => QueueType /\ RestTypes
    BY <2>1, <2>2 DEF Init, QueueType, RestTypes
  <2> QED BY <2>3, InitPinTypes
<1>2. PinTypes /\ QueueType /\ RestTypes /\ [Next]_vars
        => (PinTypes /\ QueueType /\ RestTypes)'
  BY NextPinTypes, NextQueueType, NextRestTypes
<1> QED BY <1>1, <1>2, PTL DEF Spec

\* Every variable has its type, a placed object has no other tier in mind and
\* the pending events of a watcher are bounded by the processes there are,
\* however the uses meet (Notified merges events of one process).
THEOREM TypeOKHolds ==
  ASSUME MaxLinks \in Nat \ {0}, IsFiniteSet(Conns)
  PROVE  Spec => []TypeOK
<1>1. PinTypes /\ QueueType /\ RestTypes => TypeOK
  <2> SUFFICES ASSUME PinTypes, QueueType, RestTypes PROVE TypeOK OBVIOUS
  <2>1. \A c \in Conns : queue[c] \in Seq(Writers)
                         /\ Len(queue[c]) <= Cardinality(Writers)
    BY DistinctShort DEF QueueType, RestTypes
  <2>2. job \in [at : {"idle", "clear", "build", "repin", "resume", "admit",
                       "plan", "copy", "cutover", "verify", "serve", "cleanup",
                       "back", "backserve", "down"},
                 src : Tiers, dst : Tiers]
    BY DEF PinTypes, JobType, Stopping
  <2> QED BY <2>1, <2>2 DEF TypeOK, PinTypes, RestTypes, ObjType, RowType
<1> QED BY <1>1, TypesAlways, PTL

-----------------------------------------------------------------------------
(* The lease pin, with one connection. *)

\* Every step keeps LeaseGuarded when there is one connection.
LEMMA NextLeaseGuarded ==
  ASSUME NEW c, Conns = {c}, PinTypes, PinsInv, RestTypes, LeaseGuarded,
         [Next]_vars
  PROVE  LeaseGuarded'
<1> SUFFICES ASSUME use' = {"smb"}, lease'[c] = "held", ~moved'[c]
             PROVE  pin' # "none"
  BY DEF LeaseGuarded
<1>1. use = {"smb"}
  BY Zenon DEF Next, Plan, Switch, Settle, Link, Unlink, SmbStep, TakeLease,
     SetLeasePin, DropLease, ClearLeasePin, FanotifyEvent, SmbdDies, Write,
     LunStep, LunStop, LunClear, LunBuild, LunRepin, LunResume, LunAdmit,
     LunPlan, LunCopy, LunCutover, LunVerify, LunServe, LunCleanup, LunBack,
     LunBackServe, TierdDies, TierdStarts, OperatorPin, OperatorStart,
     Instantiate, vars
<1>2. "lun" \notin use /\ "link" \notin use /\ "operator" \notin use BY <1>1
<1>3. ASSUME UNCHANGED <<lease, moved, pin>> PROVE pin' # "none"
  BY <1>1, <1>3 DEF LeaseGuarded
<1>4. ASSUME MoveCutover, UNCHANGED lease PROVE FALSE
  BY <1>4 DEF MoveCutover, Leased
<1>5. CASE Switch BY <1>4, <1>5 DEF Switch
<1>6. CASE SmbStep(c)
  <2>1. CASE TakeLease(c) BY <2>1 DEF TakeLease, PinTypes
  <2>2. CASE SetLeasePin(c) BY <2>2 DEF SetLeasePin, SetPin, PinTypes
  <2>3. CASE DropLease(c) BY <2>3 DEF DropLease, PinTypes
  <2>4. CASE ClearLeasePin(c) BY <2>4 DEF ClearLeasePin, PinTypes
  <2>5. CASE FanotifyEvent(c)
    <3>1. lease[c] = "held" /\ Head(queue[c]) = c
      BY <2>5 DEF FanotifyEvent, Broken, Leased, PinTypes
    <3>2. pin' = pin BY <2>5, <3>1 DEF FanotifyEvent, EventPin
    <3>3. ~moved[c] BY <2>5, <3>1 DEF FanotifyEvent, Leased, RestTypes
    <3> QED BY <1>1, <3>1, <3>2, <3>3 DEF LeaseGuarded
  <2>6. CASE SmbdDies(c) BY <2>6 DEF SmbdDies, PinTypes
  <2> QED BY <1>6, <2>1, <2>2, <2>3, <2>4, <2>5, <2>6 DEF SmbStep
<1>7. ~(Link \/ Unlink \/ OperatorPin)
  BY <1>2 DEF Link, Unlink, OperatorPin, PinsInv
<1>8. ~(LunStop \/ LunClear \/ LunBuild \/ LunRepin \/ LunResume \/ LunAdmit
        \/ LunPlan \/ LunCopy \/ LunCutover \/ LunVerify \/ LunServe \/ LunBack
        \/ LunBackServe)
  BY <1>2 DEF LunStop, LunClear, LunBuild, LunRepin, LunResume, LunAdmit,
     LunPlan, LunCopy, LunCutover, LunVerify, LunServe, LunBack, LunBackServe,
     At, PinsInv, Stopping
<1>9. ASSUME NEW w \in Conns \cup {"local"}, Write(w) PROVE pin' # "none"
  BY <1>3, <1>9 DEF Write, kvars
<1>10. CASE Plan \/ Settle \/ TierdDies \/ TierdStarts \/ OperatorStart
            \/ LunCleanup \/ UNCHANGED vars
  BY <1>3, <1>10 DEF Plan, Settle, TierdDies, TierdStarts, OperatorStart,
     LunCleanup, vars, kvars, svars
<1>11. ~Instantiate BY DEF Instantiate, svars
<1> QED BY <1>5, <1>6, <1>7, <1>8, <1>9, <1>10, <1>11 DEF Next, LunStep

\* With one connection, a lease whose pin was written keeps a file that only
\* Samba uses pinned (smoothfs_linux_setlease, smoothfs_fanotify_event) until
\* smbd is told to give it up or the file is switched, through own writes, lost
\* events, failing calls and deaths.
THEOREM LeaseGuardedHolds ==
  ASSUME MaxLinks \in Nat \ {0}, NEW c, Conns = {c}
  PROVE  Spec => []LeaseGuarded
<1>1. Init => LeaseGuarded BY DEF Init, LeaseGuarded
<1>2. /\ PinTypes /\ PinsInv /\ PinTypes /\ QueueType /\ RestTypes
      /\ LeaseGuarded /\ [Next]_vars
      => LeaseGuarded'
  BY NextLeaseGuarded
<1> QED BY <1>1, <1>2, PinsAlways, TypesAlways, PTL DEF Spec

=============================================================================
