--------------------------- MODULE MoverInvariants ---------------------------
(***************************************************************************)
(* The inductive invariants of Mover: the types, the row as a lock, and    *)
(* what holds of a pool whose service may be killed at any point.          *)
(***************************************************************************)
EXTENDS Mover

\* The plans planPool makes, and where a record may say that a file is.
PlanSet == [src: Tiers, dst: Tiers, seq: 1 .. MaxPlans]
Places == Tiers \union {NoTier}
ReplayRecords == [chosen: Places, fallback: Places, normalized: BOOLEAN,
                  state: States, intended: Tiers]
Inodes == [here: BOOLEAN, state: States, tier: Tiers, intended: Tiers,
           seq: 0 .. MaxPlans, writes: Nat, wseq: Nat, linked: BOOLEAN, alien: BOOLEAN]

\* Types of the kernel's state.
KernelType ==
    /\ mounted \in BOOLEAN
    /\ ko \in Inodes
    /\ name \in [Tiers -> Copies] /\ disk \in [Tiers -> Copies]
    /\ last \in Records \union {NoRecord} /\ tail \in Seq(Records)
    /\ pindex \in Tiers \union {NoEntry, NoIndex}
    /\ rec \in ReplayRecords
    /\ wrote \in 0 .. MaxWrites

\* A worker that is not idle has a plan.
WorkersType ==
    /\ wk \in [Workers -> [pc: WorkerPcs, plan: PlanSet \union {NoPlan},
                           wseq: Nat]]
    /\ \A w \in Workers : wk[w].pc # "idle" => wk[w].plan \in PlanSet

\* Types of tierd's state: recovery knows the tiers it keeps and removes.
TierdType ==
    /\ tierd \in {"up", "closing", "down", "recovering"}
    /\ plans \in Seq(PlanSet)
    /\ planned \in 0 .. MaxPlans /\ nseq \in 0 .. planned
    /\ WorkersType
    /\ row \in [state: {"placed", "moving", "failed"}, cur: Tiers,
                intended: Places, seq: 0 .. MaxPlans]
    /\ mlog \in [1 .. MaxPlans -> PlanSet \union {NoPlan}]
    /\ rv \in [pc: {"none", "inspect", "remove", "ack", "settle"},
               keep: Places, other: Places, state: States, seq: 0 .. MaxPlans]
    /\ rv.pc \in {"remove", "ack", "settle"} =>
          rv.keep \in Tiers /\ rv.other \in Tiers

TypeInv == KernelType /\ TierdType

RowSet == [state: {"placed", "moving", "failed"}, cur: Tiers,
           intended: Places, seq: 0 .. MaxPlans]
-----------------------------------------------------------------------------
\* The fields of tierd's records that the argument reads.
LockShape ==
    /\ DOMAIN wk = Workers
    /\ \A w \in Workers : "pc" \in DOMAIN wk[w]
    /\ "state" \in DOMAIN row
    /\ "pc" \in DOMAIN rv

\* A worker that holds the object holds the row, one at a time; no worker runs
\* before recovery has ended.
LockInv ==
    /\ LockShape
    /\ OneMover
    /\ \A w \in Workers : Holds(w) => row.state = "moving"
    /\ tierd \in {"down", "recovering"} =>
          \A w \in Workers : wk[w].pc = "idle"
    /\ rv.pc # "none" => tierd = "recovering"
-----------------------------------------------------------------------------
\* tierd may be killed at any point; the pool stays mounted and the host up.
KillOnly == Restarts \subseteq {"kill"}

\* A worker with a plan.
Busy(w) == wk[w].pc # "idle"
\* The kernel's states before the switch that recovery rolls back.
Uncut == PreCutover \union {"failed"}
\* No tier outside S names a copy.
OnlyAt(S) == \A t \in Tiers \ S : name[t].kind = "absent"
\* Where a worker is between MOVE_PLAN and the switch, and after it.
Before == {"copy", "copying", "verify", "stable", "cutover", "cutting", "refused"}
After == {"switched", "sync", "complete"}

\* Every plan in the queue or at a worker has a sequence number of its own,
\* and none outlives the process.
QueueInv ==
    /\ tierd # "closing"
    /\ tierd # "up" => plans = <<>> /\ \A w \in Workers : ~Busy(w)
    /\ \A i \in DOMAIN plans :
          plans[i].seq <= nseq /\ plans[i].src # plans[i].dst
    /\ \A w \in Workers : Busy(w) =>
          wk[w].plan.seq <= nseq /\ wk[w].plan.src # wk[w].plan.dst
    /\ \A i, j \in DOMAIN plans : plans[i].seq = plans[j].seq => i = j
    /\ \A i \in DOMAIN plans, w \in Workers :
          Busy(w) => plans[i].seq # wk[w].plan.seq
    /\ \A v, w \in Workers :
          Busy(v) /\ Busy(w) /\ wk[v].plan.seq = wk[w].plan.seq => v = w

\* The object stays in core, where every write is counted, and its
\* authoritative file holds them all.
HereInv ==
    /\ mounted /\ ko.here /\ ~ko.alien /\ ko.linked /\ ko.writes = wrote
    /\ Current(name[ko.tier])

\* Where copies are and what the row says, in each state of the kernel: a
\* second copy exists only at the other end of the movement the row records.
PlaceInv ==
    /\ ko.state = "placed" =>
          /\ OnlyAt({ko.tier})
          /\ ko.tier # row.cur => row.state = "moving" /\ row.intended = ko.tier
    /\ ko.state \in Uncut \union {"cutover_in_progress"} =>
          /\ OnlyAt({ko.tier, ko.intended})
          /\ ko.intended # ko.tier /\ ko.tier = row.cur
    /\ ko.state = "switched" =>
          OnlyAt({ko.tier, row.cur}) /\ ko.tier # row.cur
    /\ ko.state \in {"cutover_in_progress", "switched"} =>
          row.state = "moving" /\ row.intended = ko.intended /\ row.seq = ko.seq
    /\ ko.state = "switched" => ko.intended = ko.tier
    /\ row.state = "placed" => ko.state = "placed"

\* The cutover in progress expects the writes its destination holds.
CutInv ==
    ko.state = "cutover_in_progress" =>
        /\ (ko.wseq = wrote /\ name[ko.intended].kind = "whole") =>
              name[ko.intended].data = 1 .. wrote
        /\ tierd # "recovering"
        /\ tierd = "up" => \E w \in Workers : wk[w].pc = "cutting"

\* The sequence number of a movement the kernel has accepted is in nobody
\* else's hands, and row and log agree about its destination.
OwnInv ==
    ko.state # "placed" =>
        /\ ko.seq \in 1 .. MaxPlans
        /\ mlog[ko.seq].dst = ko.intended
        /\ ko.seq = row.seq /\ row.intended # NoTier =>
              row.intended = ko.intended
        /\ \A w \in Workers : Busy(w) => ko.seq <= nseq
        /\ \A i \in DOMAIN plans : plans[i].seq # ko.seq /\ ko.seq <= nseq
        /\ \A w \in Workers : wk[w].pc \in {"intent", "plan"} =>
              wk[w].plan.seq # ko.seq

\* What a worker may rely on at each step of execute: before the switch its
\* plan is the kernel's movement and the source is authoritative; after it the
\* destination is, and only then the source's copy goes.
Work(w) ==
    LET p == wk[w].plan
        pc == wk[w].pc
    IN
    /\ wk[w].wseq <= wrote
    /\ Holds(w) => row.intended = p.dst /\ row.seq = p.seq
    /\ pc = "plan" => mlog[p.seq] = p
    /\ pc \in {"plan", "abort"} =>
          ko.state # "switched" /\ (ko.state = "placed" => ko.tier = row.cur)
    /\ pc \in Before => ko.seq = p.seq /\ ko.intended = p.dst
    /\ pc \in {"copy", "copying", "verify", "stable", "cutover"} =>
          ko.state = "plan_accepted"
    /\ pc = "cutting" => ko.state = "cutover_in_progress"
    /\ pc = "refused" => ko.state \in Uncut
    /\ pc \in {"copying", "verify", "stable", "cutover", "cutting"} =>
          p.src = ko.tier
    /\ pc \in {"verify", "stable", "cutover"} =>
          (wk[w].wseq = wrote /\ name[p.dst].kind = "whole" =>
              name[p.dst].data = 1 .. wrote)
    /\ pc \in After => /\ ko.seq = p.seq /\ ko.state = "switched"
                       /\ ko.tier = p.dst /\ row.cur = p.src
    /\ pc \in {"sync", "complete"} => name[p.src].kind = "absent"
    /\ pc = "finalize" => ko.state = "placed" /\ ko.tier = p.dst

WorkInv == \A w \in Workers : Work(w)

\* What recovery removes is not authoritative, and is the movement's other end.
RecInv ==
    /\ tierd = "recovering" => row.state # "placed"
    /\ rv.pc \in {"remove", "ack", "settle"} =>
          rv.keep = ko.tier /\ rv.other # ko.tier
    /\ rv.pc \in {"remove", "ack"} =>
          /\ rv.state = ko.state
          /\ ko.state \in Uncut => rv.other = ko.intended
          /\ ko.state = "switched" => rv.other = row.cur
    /\ rv.pc = "ack" => name[rv.other].kind = "absent"
    /\ rv.pc = "settle" => ko.state = "placed"

\* The inductive invariant.
KillInv ==
    /\ TypeInv /\ LockInv
    /\ QueueInv /\ HereInv /\ PlaceInv /\ CutInv /\ OwnInv /\ WorkInv /\ RecInv

\* What a step has to keep, besides the types and the lock.
Settled == QueueInv /\ HereInv /\ PlaceInv /\ CutInv /\ OwnInv /\ WorkInv
           /\ RecInv
=============================================================================
