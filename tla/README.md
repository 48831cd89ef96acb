# smoothfs: TLA+ models and proofs

smoothfs is a stacked filesystem (a Linux kernel module) that presents one
namespace over several storage tiers, and a Go control plane, tierd, that moves
files between the tiers while they are in use.  This directory holds TLA+
models of the parts of smoothfs whose correctness depends on the order of
events, the TLC runs that check them on small instances, and TLAPS proofs for
every instance.

## The system

| part | code | what matters about it here |
|---|---|---|
| data path | `src/src/smoothfs/file.c`, `lower.c`, `smoothfs.h` | operations enter an SRCU read section, test `movement_state`, and park on `cutover_wq` while a cutover runs; descriptors are reissued lazily by `cutover_gen` |
| movement commands | `movement.c` | MOVE_PLAN, MOVE_CUTOVER, MOVE_COMPLETE, MOVE_ROLLBACK; a cutover drops the inode lock while it drains writers |
| namespace | `inode.c`, `dir.c`, `compat.h`, parts of `super.c` | one tree shown over a tree per tier: create with spill, lookup across tiers, rename, unlink, rmdir, readdir |
| identity | `oid.c`, `export.c`, parts of `super.c` | the object id (OID), its deferred xattr, the cache from lower inode numbers to inodes, handles |
| placement log | `placement.c` | asynchronous append-only log, replayed and normalised at mount |
| range staging | `range_staging.c`, parts of `file.c` and `super.c` | staged byte ranges on the fastest tier, drained later, replayed at mount |
| pins | `xattr.c`, `movement.c`, `inode.c`, `samba-vfs/vfs_smoothfs.c` | one byte per inode that forbids movement, written by Samba leases, LUN movement and hard links |
| worker and recovery | `controlplane/worker.go`, `recovery*.go` | copy, verify, cutover, cleanup; settle interrupted rows at start |
| LUN movement | `controlplane/lun_*.go`, `worker.go` | stop the target, clear the pin, move, re-pin, resume |
| planner, heat | `controlplane/planner.go`, `heat.go` | which object moves where |
| service | `controlplane/service.go`, `reconcile.go`, `events.go`, `pools.go` | pool registration, subtree reconcile |
| transport, mount, sysfs | `netlink.c`, `client.go`, `super.c` | encoding and reporting |

tierd drives a movement over generic netlink: INSPECT, MOVE_PLAN, copy and
verify the lower file, MOVE_CUTOVER, unlink the source, MOVE_COMPLETE.  The
netlink family does not set `parallel_ops`, so commands exclude one another;
users' operations do not wait for them.

## Modules

`ObjectState` declares the state of one object: the fields of
`smoothfs_inode_info`, the backing files on the tiers, the tasks with one
descriptor each, and tierd's transaction (`mv`) and row (`db_tier`).  Bytes are
abstracted to the set of data changes a backing file holds; a backing file is a
number, so a name removed and created again is another file.

`DataPath` has the operations of the tasks, cut where the code can be
overtaken: entry, `srcu_read_lock`, the state check, the lower operation,
`note_data_change`, `srcu_read_unlock`.  The kinds differ in the order the code
does these things, which is the point: `write_iter` fetches its lower file
inside the section and counts the change after leaving it; `splice_write`,
`fallocate`, `remap` and `clone` fetch the file before entering and count before
leaving; `setattr` runs under the inode lock.  It also has the truncate rehome
and its drain, and the one lookup path that rewrites the placement of a live
inode (`LookupRetracks`).

`Movement` has the kernel's movement commands.  MOVE_CUTOVER is several steps:
start, drained or timed out, checks, swap of `lower_path`, publication of tier,
generation and state.  `MoveWorker` has `Worker.execute` and `recoverObject`;
any command may also be refused for a reason outside the model (a pin, a
hardlink, a quiesced pool).  `Cutover` composes the three and states the
properties; `AtomicObject` is the abstract specification the object must
implement.  `MCCutover` adds the symmetry of tasks for TLC.  Operators called
"faulty variant" are single bugs used to check that the properties can fail.

`PlacementLog` has what outlives the kernel's memory: per tier the file the
object's path names and what a crash may bring back of it, the placement log
(last record on disk, records behind it), the path index, and the replay
record a mount builds from them.  Its actions are the movement commands as
single steps, writeback, index rebuild, crash, unmount, mount, and the two ways
an inode comes back: by OID (`InstantiateOne`) and by path (`PathLookup`).
`Mover` adds tierd across restarts: planner queue, worker pool, row and
movement log, and recovery at start.  A step of a worker ends where a kill, a
shutdown or another worker can come in between; MOVE_CUTOVER is two steps, as
it runs on in the kernel when tierd dies.  Row states that recovery treats
alike are one (`moving`).  `MCMover` adds the symmetry of workers.

`RangeStaging` has one file whose buffered writes are staged on the fastest
tier: the base file and the stage file as functions from offsets to the number
of the write that produced the byte, the sidecar, what of each is on disk, the
range list and flags of the inode, the read cache, and the three mutexes
(`cml` = `cache_mutation_lock`, `rsl` = `range_staging_lock`, `rcl` =
`read_cache_lock`).  The storage mode, tier or cache, is chosen in `Init`: the
code is the same and differs in locking, in who drains and in the read cache.
Calls are cut where no common lock is held.  `hist` is a history variable: for
each write, what had returned before it began, so that "older" means what a
user can observe.  `MCRangeStaging` names the sets of operations that each
instance allows.

`Namespace` has the merged tree in tier mode.  `low[t][p]` is the object at path
`p` of tier `t`; `dc` is the dentry cache, whose positive entries are trusted;
`rel` is `si->rel_path`, which the path map is keyed by, and `pin` the inodes
`replay_pinned` holds.  A lookup has the code's three stages: the parent's own
lower directory, the path map, the scan over the tiers in the metadata mask.
Create and mkdir are the spill loop: tiers passed over, tiers that run out of
space after the parent chain was made, the tier the entry lands on.  Rename has
its three cases (one directory, across tiers, one tier), with the stale target
and the copies of a directory on other tiers.  `FlatNames` is the abstract
specification: one tree, as if there were one filesystem.  Four next-state
relations differ in what they add to the file operations: hard links, renames
of directories, a create overtaken by such a rename, the metadata gate.

`Identity` is about why an inode may be identified with its file, which
`Namespace` takes for granted.  `smoothfs_iget` is cut into its steps (cache
probe, xattr, pending queue, drain, mint, `iget_locked`); a lower inode is
`<<tier, number>>` and its number is reused once neither a name nor a path
reference keeps it.  Around it are the OID writeback queue and its worker,
unlink's forget, eviction, movement and the out-of-band mover with its
`forget_lower` poke, sync, crash, unmount, the background index scan, and
handles resolved through the index.  `seen`, `kept` and `twice` are history variables: the
OIDs a file was handed out under, the files a sync acknowledged, and the files
two overlapping igets have minted an OID for.

`Pins` has the one `pin_state` byte and everyone who writes it: smbd's
`linux_setlease` (the kernel lease first, the attribute afterwards) and its
fanotify watcher, the lease break at the end of a cutover, link and unlink, and
the LUN movement from `PrepareStoppedLUNMovementPlan` through `Worker.execute`,
rollback and recovery.  The movement itself is reduced to its kernel states.
`use`, chosen in `Init`, is the set of what the file is used for, and one byte
serves all of them.  `bare` is a history variable: the LUN lost its pin while its
target was stopped, because the fail-closed re-pin failed or because the inode
was evicted.  The row's own `pin_state` stays `pin_lun` all along and is left
out.

## Runs

The cutover runs use module `MCCutover` and small constants: two tasks, two or three
tiers, two data changes, one or two movements, and enough file numbers
for every copy.  Two tasks are enough for one to be waited for while the other
parks; two movements (`atomic`) reach an object that comes back to its first
tier; a third tier is needed for a lookup to miss on the parent's tier while
source and destination both exist.  `NoMemory` lets the allocation of the drain
context fail, so that the cutover waits without a timer: in `changes` it may, in
`live` it may not, as such a cutover need not return (`Cutover_x_note`).  Deadlock is not checked: when the bounds are used up
the system stops.  The mover runs use `MCMover` with two tiers, two writes, two
plans and one restart: one write falls before a restart and one after, two plans
give the duplicate plan and the second movement with a reused sequence number,
and one restart at every point of a movement is what the recovery code is written
for; two workers where they compete (`mover`), one where every kind of restart is
possible (`restarts`).

The staging run uses `MCRangeStaging` with two tasks, three offsets, two writes
over three extents (with a gap between them, touching, overlapping and
contained), one other call and one eviction, mount or crash.  A write, a
writer or drain that overtakes it, and one event that forgets memory are what
the code's locks and its sidecar are about.  The run also passes with every
extent of three offsets (2.3 million states).

The namespace run uses `MCNamespace` with two tiers, one directory, a file
outside and two inside it, and two and three objects per tier.  A directory
with copies on both tiers, a file in each copy and a third name are what lookup,
spill, rename over a target on another tier and rmdir distinguish; the objects
may run out, which is the full tier.  `HighWater = TRUE` lets the create policy
choose any tier, which includes the choices of the default policy.  The identity
run uses `MCIdentity` with two tasks, two names, one lower inode number on each
tier, two files, two OIDs, one movement and one crash or remount: the second file
takes the number of the first, the second OID is the one that must not be minted,
and two tasks are two igets of one file.  A file whose OID was lost in a crash
before the first flush may be there at the start.  It also passes with two
numbers on the fast tier (3.1 million states).  The pins run uses `MCPins` with
one connection, three tiers and up to three links, for a file that is leased,
linked, a LUN, or a LUN that is also linked or leased, with failing calls, killed
processes, overflowing event queues and evictions.

| run | what it shows |
|---|---|
| `changes` | writes, other changes and truncates with write staging against a movement: `Barrier`, `OwnedTransaction`, `SleepersHaveCutover`, and the inductive invariant `CutoverInv` |
| `live` | writes, other changes and reopens without write staging: `AuthoritativeNamed`, `SwitchPublishesNoted`, `CutoverInv` with the part about the copy, and under `Fairness` `CutoverReturns` and `ParkedProceeds` |
| `atomic` | truncates, reads through descriptors and untracked lookups over three tiers and two movements: the object refines `AtomicObject`; `ReadsSeeReturned`, `FdFollowsCutover` |
| `v_lower` | violated: a change that fetched its lower file before parking is applied to the replaced source |
| `mover` | two workers, duplicate plans, kills of tierd: `AuthoritativeCurrent`, `OneMover`, `PlacedAgrees` |
| `restarts` | kills, shutdowns, crashes and unmounts: `SwitchKeepsWrites`, for unmounts that do not fall between a worker's first INSPECT and its MOVE_PLAN (`Mover_x_remount`), and under `FairSpec` `StartCompletes` |
| `v_crash` | violated: a crash between switch and cleanup makes recovery remove the copy with the synced writes |
| `staging` | staged, base and direct writes, truncates, syncs, drains, reads, evictions, mounts and crashes: `NoOldBytes`, `RangesCanonical`, `BytesAccounted`, `SyncedOnBase`, `ReadsFresh` |
| `tiers` | files created, spilled, renamed and removed over two tiers with caches dropped at any time: `NamesTruthful`, `NamesComplete`, and the union of the trees refines `FlatNames`, whose rmdir may answer 0 and keep a directory that has entries on other tiers |
| `v_rmdir` | violated: an rmdir that succeeds leaves no entry on any tier |
| `identity` | evictions, deferred OID writes, reused inode numbers, movements, syncs and crashes: `IdentityUnique`, and, but for files two overlapping igets have minted for, `IdentityStable` and `CacheCurrent` |
| `pins` | leases, LUN movement and hard links with failing calls and killed processes: `LeaseGuarded`, `LunGuarded`, `LunNotMoved`, `LinkSetPinned`, and the inductive invariant `PinsInv` |

The violated properties say what the documentation says; `PROJECT.json` quotes
the lines.

## Further counterexamples

The configurations named `*_x_*.cfg` are not runs: TLC reports a violation in
each of them, and the hazard it belongs to is recorded in `PROJECT.json`.  They
show where the passing runs stop because the code does not go further.  The
restarts of `Mover_v_crash`, a run, can be replaced likewise: a shutdown of tierd
or an orderly unmount loses the synced copy without a crash.

| configuration | what its counterexample shows |
|---|---|
| `Cutover_x_note` | a write counted after its SRCU section is missing from the published copy; with the kind or the failing allocation its comment names the cutover never returns |
| `Cutover_x_open` | a descriptor opened during the publication stays on the source; with the kind its comment names, a mapping made during the drain survives the switch |
| `Cutover_x_abort` | a worker's abort removes the file a truncate rehome made; with the property its comment names, a worker copies the stale original after a rehome |
| `Cutover_x_retrack` | an untracked lookup orphans a transaction; its comment names the sleeper, the barrier and the authoritative name it also breaks |
| `Cutover_x_rehome` | a rehome drain unlinks the live file after the object moved back |
| `Mover_x_duplicate` | a stale duplicate plan leaves a row that recovery refuses for good |
| `Mover_x_remount` | a remount between a worker's first INSPECT and its MOVE_PLAN starts `write_seq` anew, and the switch loses a write |
| `RangeStaging_x_cache` | a replica filled between a staged write and its drain stays valid with the old bytes |
| `RangeStaging_x_crash` | after a crash, unsynced or already drained staged bytes hide synced ones |
| `RangeStaging_x_tier` | in tier mode an evicted inode forgets its staged ranges; its comments name the truncate, fsync, sidecar and size variants |
| `Namespace_x_dirs` | an inode below a renamed directory keeps its old path, and a lookup of that path finds it; with the property its comment names, a rename replaces a directory with entries on another tier |
| `Namespace_x_links` | so does a removed name of a hard-linked file; `SpecGate` shows what a closed metadata gate hides |
| `Namespace_x_race` | a create overtaken by a rename of its parent directory is made under the old name |
| `Identity_x_links` | a link made during a movement, or forgotten by an eviction, is split from its file |
| `Identity_x_index` | the scan mints a second OID for a file whose OID is pending, and a handle leads to another file |
| `Identity_x_race` | two inodes on one lower file, each with an OID of its own, when two igets of it overlap |
| `Pins_x_leases` | another connection's watcher removes the pin of a held lease (`vfs_smoothfs.c:249`; the comment at 18-20 has the pin follow the lease) |
| `Pins_x_break` | the signal of a switch under a lease carries no path (`movement.c:673`), so the watcher, which marks the mount, never sees it: the pin goes and the client keeps its lease |
| `Pins_x_repin` | the fail-closed re-pin fails and the target is resumed all the same (`lun_plan.go:151`); with the specification its comment names, the worker re-pins the lower file (`worker.go:299`), the kernel never shows it, and the target stays stopped |

## Fairness

In `Cutover` fairness is weak fairness of the steps of a task that needs only
the CPU, and of the cutover call (whose timer fires).  The lower filesystem's
I/O (`ApplyChange`), signals, users and tierd get none.  In `Mover` it is of the
end of a cutover (its drain has a timer), of resolving an OID that has a
recovery record (the command does it), of tierd's start (the service manager)
and of recovery, which is sequential code without waits of its own; planner,
workers, writeback and restarts get none.  In `Pins` only counterexamples use
fairness: `Pins_x_break` of smbd's event loop (a `linux_setlease` that began
ends, and pending events are handled), the variant of `Pins_x_repin` of tierd,
which carries a LUN movement through.

## Proofs

The proofs hold for every value of the constants that satisfies the assumptions
named here; the runs check the same formulas on the instances above.

`CutoverProofs`, for any constants satisfying `ConstantsAssumption`: type
correctness, and without untracked lookups `Barrier`, `OwnedTransaction` and
`SleepersHaveCutover`.  `Barrier` alone is not inductive: it needs that
from the flip of `movement_state` until publication every task past the check
is one the grace period waits for (`BarrierInv`), which in turn needs the shape
of operations in progress (`OpInv`) and that nobody else leaves
CUTOVER_IN_PROGRESS: `OwnerInv` says the kernel is in a cutover exactly while the
call runs, and that a setattr owns the inode lock.

`CopyProofs`, without write staging and untracked lookups: `AuthoritativeNamed`
and `SwitchPublishesNoted`, whose published changes are those counted when the
cutover compared `write_seq`.  `PlaceInv` ties tierd's source and destination to the
kernel's placement in each phase, and `CopyInv` says the copy holds every
counted change as long as `write_seq` has not moved since the first INSPECT.
With write staging both theorems are false of the code (`Cutover_x_abort`).

It also proves `FdFollowsCutover` without concurrent opens, and the conjunction
`CutoverInv`, in which each part is conditional on its assumption.  `FdInv`
bounds every descriptor's generation by the inode's.  `Cutover_x_retrack` and `Cutover_x_open` are why the assumptions are
needed.

`AtomicProofs`, for setattr, read and open without write staging (`Locked`): the
refinement of `AtomicObject`, where the abstract contents are `data[lower]` and
the finished changes `returned`.  `AtomicInv` says that the object holds only
the counted changes and those a running setattr has applied, and that a finished
copy holds nothing else; a publication is then a stuttering step, because
`CopyInv` gives the other inclusion.  Writes and mappings are left out because
the code does not keep the promise for them (`Cutover_x_note`,
`Cutover_x_open`).

For setattr and read alone it proves `ReadsSeeReturned`.  `ReadInv` says that the
file tierd is copying to is one no task can have open, as every movement ends
with the other names removed and so begins by creating a new file; and that a
descriptor of the current generation holds every change that has returned.  With
concurrent opens the latter does not follow (`Cutover_x_open`).

`MoverInvariants` states the invariants of `Mover`, and `WorkerProofs`,
`KillProofs` and `MoverProofs`, which extend one another, prove them for any
number of tiers, workers, plans, writes and restarts.  Whatever the restarts,
`TypeOK` and `OneMover` hold; the latter from `LockInv`: the row is `moving`
while a worker is past `persistIntent`, and no worker runs before recovery has
ended.

Where the only restart is a kill of tierd (`KillOnly`, as in run `mover`; the
pool stays mounted), `AuthoritativeCurrent`, `PlacedAgrees` and
`SwitchKeepsWrites` hold.  None of them is inductive.  A kill leaves behind
whatever a worker had done so far, so the invariant `KillInv` has to say, for
each state of the kernel, which tiers may name a copy and what row and movement
log say then (`PlaceInv`, `OwnInv`); for each step of a worker, what the copy
holds as long as `write_seq` has not moved (`Work`); for a cutover that outlives
tierd, that its destination holds the writes it expects (`CutInv`); for each
step of recovery, which tier it keeps (`RecInv`); and that no two plans in
queue or workers share a sequence number (`QueueInv`), so that a stale duplicate
plan is refused.  `WorkerProofs` has the steps up to the copy, `KillProofs` the
cutover, the cleanup, the kill and the recovery.  TLC agrees: with
`INVARIANT KillInv`, three tiers, two workers, two writes, two plans and one kill,
`MCMover` has 673,425 states.  With an unmount, a shutdown or a crash the first two
properties are false of the code (`Mover_v_crash`); `SwitchKeepsWrites` is false
only with a remount between INSPECT and MOVE_PLAN (`Mover_x_remount`), and is
model-checked for the other restarts (run `restarts`).

`PinsProofs`, for any uses of a file, faults, connections and links: `LunGuarded`
and `LunNotMoved`, but for a LUN that is `bare`, and `LinkSetPinned`, all from
`PinsInv`, which says at which steps of a LUN movement the pin is set and whose
movement the kernel runs.  With a single connection also `LeaseGuarded`, from the
events pending at smbd; `Pins_x_leases` is why the assumption is needed, and
`Pins_x_repin` why `bare` is.  That a watcher's queue is bounded, a part of
`TypeOK`, follows from `Notified`, which never has two events of one process
pending.

The refinement of `FlatNames`, liveness, and the safety properties of `RangeStaging`, `Namespace`
and `Identity` are model-checked only: liveness under fairness is beyond the
prover, and what these modules compute over range lists, paths and queues needs
induction over data, which it does not support.

## Not modelled

- Planner and heat choose which object moves where.  `Mover` lets a plan come
  for any tier at any time, so their choice matters to no property.
- Pool registration and reconcile are database bookkeeping; the transaction
  numbers registration hands out are in `Mover`.
- Message encoding, mount options, sysfs, statfs and the layout of handles carry
  data and take no decision the properties depend on.
  `smoothfs_movement_abort` has no caller.
- `PlacementLog` and `Mover`: every SQL write is taken to be durable; inode
  eviction, a torn log tail and the branch of `Recover` that has no kernel client
  are left out; the re-writes of the row between two worker states only restate
  it and are not separate steps.
- `RangeStaging`: a crash keeps or loses the unsynced bytes of the base file as a
  whole, and a page of the stage file has its last contents or none; mappings,
  splice and llseek (which drain first, or refuse), `sync_fs`, failing unlinks,
  short staged writes and unreadable sidecars are left out.  Range staging and
  movement are not composed.
- `Namespace`: RENAME_EXCHANGE and RENAME_WHITEOUT, attributes, and the recovery
  index a mount builds.  In cache mode the namespace is the base tree alone.
- `Identity`: run `identity` keeps hard links and movements apart (`Pinned`), as
  the documentation promises and `Identity_x_links` shows the code does not
  enforce; movements go to the slower tier only, and the background scan and
  `get_parent` are in `Identity_x_index` and `Identity_x_race`.  The end of a
  drain and the second read of the xattr are one step.  Recovery after a crash is
  folded into the mount.
- `Pins`: a watcher that could not be started; shared leases.  Ordinary
  movements of a LUN file are tried only while its target is live.
