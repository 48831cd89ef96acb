-------------------------------- MODULE Pins --------------------------------
(***************************************************************************)
(* The one pin_state byte of an object and everybody who writes it: the    *)
(* Samba VFS module (trusted.smoothfs.lease, vfs_smoothfs.c), the movement *)
(* of a LUN backing file (trusted.smoothfs.lun, lun_plan.go, worker.go),   *)
(* hard links (inode.c), and the movement commands that read it when they  *)
(* plan and clear it when they switch (movement.c).  The movement itself   *)
(* is abstracted to its kernel states; Movement.tla has the detail.        *)
(***************************************************************************)
EXTENDS Naturals, Sequences, FiniteSets

CONSTANTS Conns,        \* smbd processes, one per client connection
          Tiers,        \* tiers of the pool
          Uses,         \* what the file is used for, one element per behaviour
          Faults,       \* what may happen: "io", a call fails; "kill", a process
                        \* dies; "overflow", an event is lost; "evict", the
                        \* inode of an unused file is dropped and read again
          MaxLinks      \* bound on the link count

\* The uses: exported by Samba, backing a LUN, hard linked, and an operator
\* who sets the pin of a LUN and starts its target by hand.
ASSUME UsesAssumption ==
  /\ Uses \subseteq SUBSET {"smb", "lun", "link", "operator"}
  /\ \A u \in Uses : "operator" \in u => "lun" \in u

VARIABLES
  use,      \* the element of Uses of this behaviour
  pin,      \* si->pin_state
  nlink,    \* si->nlink_observed
  obj,      \* current_tier, intended_tier and movement_state in the kernel,
            \* and whose movement it is (transaction_seq)
  lease,    \* per smbd: its kernel lease and where it is in linux_setlease
  queue,    \* per smbd: pending fanotify events, by the process they name
  moved,    \* per smbd: history, switched under its lease and not told yet
  target,   \* the LIO target on the file
  job,      \* the LUN movement: its step, source and destination
  row,      \* current_tier_id and movement_state of the row
  bare      \* history: a stopped LUN lost its pin to a failed re-pin or to an
            \* eviction of its inode

kvars == <<pin, nlink, obj>>
svars == <<lease, queue, moved>>
lvars == <<target, job, row, bare>>
vars == <<use, kvars, svars, lvars>>

Writers == Conns \cup {"local", "tierd"}

May(f) == f \in Faults

-----------------------------------------------------------------------------
(* The kernel side of the byte. *)

\* Faulty variant of CanMove: force overrides every pin.
CanMoveForced(force) ==
  /\ pin = "none" \/ force
  /\ nlink <= 1

CanMove(force) ==
  /\ pin = "none" \/ (force /\ pin = "lease")
  /\ nlink <= 1

\* The result of writing 1 to trusted.smoothfs.<own>: EBUSY leaves the byte.
SetPin(own) == IF pin = "none" THEN own ELSE pin

\* The result of removing the attribute: another owner's pin stays.
ClearPin(own) == IF pin = own THEN "none" ELSE pin

Pending(c) == {queue[c][i] : i \in 1..Len(queue[c])}

\* The FS_MODIFY of a write by w reaches the watchers of all connections but
\* lost; a pending event of the same process and file absorbs it.  A watcher
\* whose queue overflowed gets an event without a descriptor and drops it.
Notified(w, lost) ==
  [c \in Conns |-> IF c \in lost \/ w \in Pending(c) THEN queue[c]
                   ELSE Append(queue[c], w)]

\* The lease-break signal at the end of a cutover.  fsnotify_inode carries no
\* path, so a watcher that marks the mount is not among those it notifies: no
\* queue changes.
Signal == pin' = ClearPin("lease")

\* An smbd in one of these states has a kernel lease it was not told to give
\* up; it is "unpinned" when the attribute could not be written.
Leased == {"taken", "held", "unpinned"}

MovePlan(d, force, by) ==
  /\ obj.state = "placed"
  /\ d # obj.tier
  /\ CanMove(force)
  /\ obj' = [tier |-> obj.tier, dest |-> d, state |-> "planned", by |-> by]

MoveCutover ==
  /\ obj.state = "planned"
  /\ obj' = [obj EXCEPT !.state = "switched", !.tier = obj.dest]
  /\ Signal
  /\ moved' = [c \in Conns |-> moved[c] \/ lease[c] \in Leased]

\* Faulty variant of Settled: intended_tier is not reset.
SettledIntended == [obj EXCEPT !.state = "placed"]

\* MOVE_COMPLETE and MOVE_ROLLBACK.
Settled == [obj EXCEPT !.state = "placed", !.dest = obj.tier]

\* Movements of ordinary files, forced or not; a running LUN may be tried, a
\* quiesced one is left to its own movement.
Plan == \E d \in Tiers, force \in BOOLEAN :
  /\ "lun" \in use => target = "live"
  /\ MovePlan(d, force, "other")
  /\ UNCHANGED <<use, pin, nlink, svars, lvars>>

Switch == /\ obj.by = "other"
          /\ MoveCutover
          /\ UNCHANGED <<use, nlink, lease, queue, lvars>>

Settle == /\ obj.by = "other"
          /\ obj.state # "placed"
          /\ obj' = Settled
          /\ UNCHANGED <<use, pin, nlink, svars, lvars>>

-----------------------------------------------------------------------------
(* Hard links. *)

Link ==
  /\ "link" \in use
  /\ nlink < MaxLinks
  /\ nlink' = nlink + 1
  /\ pin' = SetPin("hardlink")
  /\ UNCHANGED <<use, obj, svars, lvars>>

\* Faulty variant of Unlink: the pin goes with the first name.
UnlinkClears ==
  /\ nlink > 1
  /\ nlink' = nlink - 1
  /\ pin' = ClearPin("hardlink")
  /\ UNCHANGED <<use, obj, svars, lvars>>

Unlink ==
  /\ nlink > 1
  /\ nlink' = nlink - 1
  /\ pin' = IF nlink' <= 1 THEN ClearPin("hardlink") ELSE pin
  /\ UNCHANGED <<use, obj, svars, lvars>>

-----------------------------------------------------------------------------
(* The Samba VFS module.  linux_setlease takes or drops the kernel lease   *)
(* first and writes the attribute afterwards; an smbd is single threaded,  *)
(* so it handles no event in between.                                      *)

Between(c) == lease[c] \in {"taken", "dropped"}

\* A write lease is granted to the only opener of the file.
TakeLease(c) ==
  /\ "smb" \in use
  /\ \A s \in Conns : lease[s] \in {"none", "dropped"}
  /\ lease[c] = "none"
  /\ lease' = [lease EXCEPT ![c] = "taken"]
  /\ UNCHANGED <<use, kvars, queue, moved, lvars>>

\* A failed setxattr is logged and the lease kept.
SetLeasePin(c) ==
  /\ lease[c] = "taken"
  /\ \/ /\ pin' = SetPin("lease")
        /\ lease' = [lease EXCEPT ![c] = "held"]
     \/ /\ May("io")
        /\ lease' = [lease EXCEPT ![c] = "unpinned"]
        /\ UNCHANGED pin
  /\ UNCHANGED <<use, nlink, obj, queue, moved, lvars>>

DropLease(c) ==
  /\ lease[c] \in {"held", "unpinned", "breaking"}
  /\ lease' = [lease EXCEPT ![c] = "dropped"]
  /\ moved' = [moved EXCEPT ![c] = FALSE]
  /\ UNCHANGED <<use, kvars, queue, lvars>>

ClearLeasePin(c) ==
  /\ lease[c] = "dropped"
  /\ \/ pin' = ClearPin("lease")
     \/ May("io") /\ UNCHANGED pin
  /\ lease' = [lease EXCEPT ![c] = "none"]
  /\ UNCHANGED <<use, nlink, obj, queue, moved, lvars>>

\* An event of our own process is ignored; any other breaks our lease.
Broken(c, w) ==
  IF w # c /\ lease[c] \in Leased THEN "breaking" ELSE lease[c]

\* Faulty variant of EventPin: events of the own process clear the pin too.
EventPinAlways(c, w) == ClearPin("lease")

EventPin(c, w) == IF w # c THEN ClearPin("lease") ELSE pin

FanotifyEvent(c) ==
  /\ ~Between(c)
  /\ queue[c] # <<>>
  /\ queue' = [queue EXCEPT ![c] = Tail(@)]
  /\ lease' = [lease EXCEPT ![c] = Broken(c, Head(queue[c]))]
  /\ moved' = [moved EXCEPT ![c] = @ /\ lease'[c] \in Leased]
  /\ pin' = EventPin(c, Head(queue[c]))
  /\ UNCHANGED <<use, nlink, obj, lvars>>

\* A write through the mount: by the holder of the lease, or by anybody once
\* the lease is gone.
Write(w) ==
  /\ "smb" \in use
  /\ \A c \in Conns \ {w} : lease[c] \in {"none", "dropped"}
  /\ w \in Conns => ~Between(w)
  /\ \E lost \in SUBSET Conns :
       /\ lost # {} => May("overflow")
       /\ queue' = Notified(w, lost)
  /\ UNCHANGED <<use, kvars, lease, moved, lvars>>

\* The kernel takes back the lease of a killed smbd, nobody its pin; its
\* client connects again.
SmbdDies(c) ==
  /\ May("kill")
  /\ lease[c] # "none"
  /\ lease' = [lease EXCEPT ![c] = "none"]
  /\ moved' = [moved EXCEPT ![c] = FALSE]
  /\ queue' = [queue EXCEPT ![c] = <<>>]
  /\ UNCHANGED <<use, kvars, lvars>>

-----------------------------------------------------------------------------
(* The movement of a LUN backing file: PrepareStoppedLUNMovementPlan       *)
(* ("clear" to "resume"), then Worker.execute with RePinLUN ("admit" on).  *)
(* The row keeps pin_lun all along.                                        *)

\* The steps of a LUN movement that run on a stopped target.
Stopping == {"clear", "build", "repin", "resume", "admit", "plan", "copy",
             "cutover", "verify", "serve", "back", "backserve"}

At(s) == job.at = s

Goto(s) == job' = [job EXCEPT !.at = s]

LunStop == \E d \in Tiers :
  /\ "lun" \in use
  /\ target = "live" /\ At("idle")
  /\ target' = "stopped"
  /\ job' = [at |-> "clear", src |-> row.tier, dst |-> d]
  /\ UNCHANGED <<use, kvars, svars, row, bare>>

LunClear ==
  /\ At("clear")
  /\ \/ pin' = ClearPin("lun") /\ Goto("build")
     \/ May("io") /\ Goto("resume") /\ UNCHANGED pin
  /\ UNCHANGED <<use, nlink, obj, svars, target, row, bare>>

\* What both the plan builder and the worker require of kernel and row.
Admissible ==
  /\ pin = "none"
  /\ row.state = "placed"
  /\ row.tier = job.src
  /\ obj.tier = row.tier
  /\ job.dst # row.tier

\* Faulty variant of LunBuild: a failed build goes on without the re-pin.
LunBuildBare ==
  /\ At("build")
  /\ \/ Admissible /\ Goto("admit")
     \/ (May("io") \/ ~Admissible) /\ Goto("resume")
  /\ UNCHANGED <<use, kvars, svars, target, row, bare>>

LunBuild ==
  /\ At("build")
  /\ \/ Admissible /\ Goto("admit")
     \/ (May("io") \/ ~Admissible) /\ Goto("repin")
  /\ UNCHANGED <<use, kvars, svars, target, row, bare>>

\* The fail-closed re-pin through the mount.  Its error, EBUSY for another
\* owner's pin included, is joined to the plan's and does not keep
\* PrepareStoppedLUNMovementPlan from resuming the target.
LunRepin ==
  /\ At("repin")
  /\ \/ pin' = SetPin("lun")
     \/ May("io") /\ UNCHANGED pin
  /\ bare' = (bare \/ pin' # "lun")
  /\ Goto("resume")
  /\ UNCHANGED <<use, nlink, obj, svars, target, row>>

LunResume ==
  /\ At("resume")
  /\ \/ target' = "live"
     \/ May("io") /\ UNCHANGED target
  /\ Goto("idle")
  /\ UNCHANGED <<use, kvars, svars, row, bare>>

\* execute up to persistIntent: a refused plan returns without a re-pin.
LunAdmit ==
  /\ At("admit")
  /\ \/ /\ Admissible /\ obj.state = "placed"
        /\ row' = [row EXCEPT !.state = "moving"]
        /\ Goto("plan")
     \/ /\ May("io") \/ ~Admissible \/ obj.state # "placed"
        /\ Goto("idle")
        /\ UNCHANGED row
  /\ UNCHANGED <<use, kvars, svars, target, bare>>

LunPlan ==
  /\ At("plan")
  /\ \/ MovePlan(job.dst, FALSE, "lun") /\ Goto("copy")
     \/ /\ May("io") \/ ~CanMove(FALSE) \/ obj.state # "placed"
        /\ Goto("back")
        /\ UNCHANGED obj
  /\ UNCHANGED <<use, pin, nlink, svars, target, row, bare>>

LunCopy ==
  /\ At("copy")
  /\ \/ Goto("cutover")
     \/ May("io") /\ Goto("back")
  /\ UNCHANGED <<use, kvars, svars, target, row, bare>>

LunCutover ==
  /\ At("cutover")
  /\ \/ MoveCutover /\ Goto("verify")
     \/ /\ May("io") /\ obj.state = "planned"
        /\ Goto("back")
        /\ obj' = [obj EXCEPT !.state = "failed"]
        /\ UNCHANGED <<pin, moved>>
     \/ /\ obj.state # "planned"
        /\ Goto("back")
        /\ UNCHANGED <<obj, pin, moved>>
  /\ UNCHANGED <<use, nlink, lease, queue, target, row, bare>>

\* failAfterSwitch.
FailAfterSwitch == /\ row' = [tier |-> job.dst, state |-> "failed"]
                   /\ Goto("idle")

\* Faulty variant of Visible: a successful setxattr is trusted.
VisibleTrusted(t) == TRUE

\* verifyLUNRePin and verifyLUNSourceRePin: the kernel shows the pin.
Visible(t) == pin = "lun" /\ obj.tier = t

\* verifyLUNDestination, setLUNPin(dstPath) and verifyLUNRePin.  The path is
\* that of the lower file: its attribute is not si->pin_state, and the kernel
\* module never reads it, so the byte stays as it is.
LunVerify ==
  /\ At("verify")
  /\ IF Visible(job.dst) THEN Goto("serve") /\ UNCHANGED row
                         ELSE FailAfterSwitch
  /\ UNCHANGED <<use, kvars, svars, target, bare>>

LunServe ==
  /\ At("serve")
  /\ \/ target' = "live" /\ Goto("cleanup") /\ UNCHANGED row
     \/ May("io") /\ FailAfterSwitch /\ UNCHANGED target
  /\ UNCHANGED <<use, kvars, svars, bare>>

LunCleanup ==
  /\ At("cleanup")
  /\ \/ /\ obj.state = "switched"
        /\ obj' = Settled
        /\ row' = [tier |-> job.dst, state |-> "placed"]
     \/ /\ May("io") \/ obj.state # "switched"
        /\ UNCHANGED <<obj, row>>
  /\ Goto("idle")
  /\ UNCHANGED <<use, pin, nlink, svars, target, bare>>

\* rollbackLUNBeforeSwitch: the target is resumed once the pin is visible.
LunBack ==
  /\ At("back")
  /\ IF Visible(job.src) THEN Goto("backserve") /\ UNCHANGED row
     ELSE Goto("idle") /\ row' = [row EXCEPT !.state = "failed"]
  /\ UNCHANGED <<use, kvars, svars, target, bare>>

LunBackServe ==
  /\ At("backserve")
  /\ \/ target' = "live"
     \/ May("io") /\ UNCHANGED target
  /\ row' = [row EXCEPT !.state = "failed"]
  /\ Goto("idle")
  /\ UNCHANGED <<use, kvars, svars, bare>>

TierdDies ==
  /\ May("kill")
  /\ job.at # "down"
  /\ "lun" \in use
  /\ Goto("down")
  /\ UNCHANGED <<use, kvars, svars, target, row, bare>>

\* recoverLive: settle what was interrupted and keep a failed row failed (the
\* attribute is again written to the lower file); what cannot be recovered stays.
TierdStarts ==
  /\ At("down")
  /\ Goto("idle")
  /\ \/ /\ row.state # "placed"
        /\ obj.by = "lun" \/ obj.state = "placed"
        /\ obj' = Settled
        /\ row' = [tier |-> obj.tier,
                   state |-> IF row.state = "failed" THEN "failed" ELSE "placed"]
     \/ /\ \/ row.state = "placed" \/ May("io")
           \/ obj.by = "other" /\ obj.state # "placed"
        /\ UNCHANGED <<obj, row>>
  /\ UNCHANGED <<use, pin, nlink, svars, target, bare>>

\* The operator: setfattr on the mount, and a start of the pinned target
\* while no movement runs.
OperatorPin ==
  /\ "operator" \in use
  /\ pin = "none"
  /\ pin' = SetPin("lun")
  /\ UNCHANGED <<use, nlink, obj, svars, lvars>>

OperatorStart ==
  /\ "operator" \in use
  /\ target = "stopped" /\ job.at \in {"idle", "down"}
  /\ pin = "lun"
  /\ target' = "live"
  /\ UNCHANGED <<use, kvars, svars, job, row, bare>>

\* The inode of a file nobody has open goes, with the cache or the mount, and
\* a later lookup makes a new one: smoothfs_alloc_inode knows neither pin nor
\* links nor movement, and the byte replay restores is one no record ever set.
Instantiate ==
  /\ May("evict")
  /\ target = "stopped"
  /\ \A c \in Conns : lease[c] = "none" /\ queue[c] = <<>>
  /\ pin' = "none"
  /\ nlink' = 1
  /\ obj' = Settled
  /\ bare' = (bare \/ job.at \in Stopping)
  /\ UNCHANGED <<use, svars, target, job, row>>

LunStep ==
  \/ LunStop \/ LunClear \/ LunBuild \/ LunRepin \/ LunResume
  \/ LunAdmit \/ LunPlan \/ LunCopy \/ LunCutover \/ LunVerify \/ LunServe
  \/ LunCleanup \/ LunBack \/ LunBackServe

Init ==
  /\ use \in Uses
  /\ pin = IF "lun" \in use THEN "lun" ELSE "none"
  /\ nlink = 1
  /\ \E t \in Tiers :
       /\ obj = [tier |-> t, dest |-> t, state |-> "placed", by |-> "other"]
       /\ job = [at |-> "idle", src |-> t, dst |-> t]
       /\ row = [tier |-> t, state |-> "placed"]
  /\ lease = [c \in Conns |-> "none"]
  /\ queue = [c \in Conns |-> <<>>]
  /\ moved = [c \in Conns |-> FALSE]
  /\ target = IF "lun" \in use THEN "live" ELSE "stopped"
  /\ bare = FALSE

SmbStep(c) ==
  \/ TakeLease(c) \/ SetLeasePin(c) \/ DropLease(c) \/ ClearLeasePin(c)
  \/ FanotifyEvent(c) \/ SmbdDies(c)

Next ==
  \/ Plan \/ Switch \/ Settle \/ Link \/ Unlink
  \/ \E c \in Conns : SmbStep(c)
  \/ \E w \in Conns \cup {"local"} : Write(w)
  \/ LunStep \/ TierdDies \/ TierdStarts \/ OperatorPin \/ OperatorStart
  \/ Instantiate

Spec == Init /\ [][Next]_vars

\* smbd's event loop runs: a started linux_setlease ends and pending events
\* are handled.
Fairness ==
  \A c \in Conns : /\ WF_vars(FanotifyEvent(c))
                   /\ WF_vars(SetLeasePin(c))
                   /\ WF_vars(ClearLeasePin(c))

FairSpec == Spec /\ Fairness

\* tierd carries a LUN movement through.
LunSpec == Spec /\ WF_vars(LunStep)

-----------------------------------------------------------------------------
(* Properties. *)

\* Every variable has its type, and a placed object (movement_complete and
\* movement_rollback) has no other tier in mind.
TypeOK ==
  /\ use \in Uses
  /\ pin \in {"none", "lease", "lun", "hardlink"}
  /\ nlink \in 1..MaxLinks
  /\ obj \in [tier : Tiers, dest : Tiers,
              state : {"placed", "planned", "failed", "switched"},
              by : {"other", "lun"}]
  /\ obj.state = "placed" => obj.dest = obj.tier
  /\ lease \in [Conns -> {"none", "taken", "held", "unpinned", "breaking",
                      "dropped"}]
  /\ \A c \in Conns : queue[c] \in Seq(Writers) /\ Len(queue[c]) <= Cardinality(Writers)
  /\ moved \in [Conns -> BOOLEAN]
  /\ target \in {"live", "stopped"}
  /\ job \in [at : {"idle", "clear", "build", "repin", "resume", "admit",
                    "plan", "copy", "cutover", "verify", "serve", "cleanup",
                    "back", "backserve", "down"},
              src : Tiers, dst : Tiers]
  /\ row \in [tier : Tiers, state : {"placed", "moving", "failed"}]
  /\ bare \in BOOLEAN

\* A lease whose pin was written, on a file that only Samba uses, keeps the
\* kernel from planning an unforced movement of the file, until smbd is told to
\* give it up: linux_setlease sets the pin, events of the own process leave it,
\* and only a switch under the lease takes it (a forced one, or one planned
\* before the lease).
LeaseGuarded ==
  use = {"smb"} =>
    \A c \in Conns : lease[c] = "held" => pin # "none" \/ moved[c]

\* A switch under a lease is followed by the break of the lease.
ForcedBreaks == \A c \in Conns : moved[c] ~> ~moved[c]

\* A live target sits on a file pinned in the kernel: through preparation,
\* failures, rollback, kill and recovery of tierd, an operator who repairs by
\* hand, and leases and links that others take.  Only a LUN that lost its pin
\* while stopped, because the fail-closed re-pin failed or because its inode
\* was evicted, is served without.
LunGuarded == target = "live" => pin = "lun" \/ bare

\* The file under a live target, unless served without its pin, never changes
\* tiers, not even by force.
LunNotMoved == [][target = "live" /\ ~bare => obj'.tier = obj.tier]_vars

\* No live target ever sits on a file without the LUN pin.
LunAlwaysPinned == target = "live" => pin = "lun"

\* A file that is neither leased nor a LUN is pinned as long as the kernel has
\* seen more than one name of it: link sets the pin and unlink keeps it until
\* one name is left.
LinkSetPinned == use = {"link"} /\ nlink > 1 => pin # "none"

\* The inductive invariant of the LUN and hard-link pins.  A LUN that did not
\* lose its pin has it wherever the next step may start the target, and the
\* movement in the kernel is the LUN's own.  A file that is only linked has the
\* hard-link pin exactly while it has several names.
PinsInv ==
  /\ LunGuarded
  /\ target = "live" => "lun" \in use
  /\ job.at \in Stopping => target = "stopped"
  /\ job.at \in Stopping => "lun" \in use
  /\ job.at \in {"clear", "resume", "serve", "backserve"} => pin = "lun" \/ bare
  /\ "lun" \in use => obj.by = "lun" \/ obj.state = "placed" \/ bare
  /\ use = {"link"} => /\ \A c \in Conns : lease[c] = "none"
                       /\ pin = (IF nlink > 1 THEN "hardlink" ELSE "none")
  /\ "link" \notin use => nlink = 1
  /\ nlink \in 1..MaxLinks

\* A quiesced LUN is served again when no call fails.
LunServed == (target = "stopped" /\ "lun" \in use) ~> target = "live"

=============================================================================
