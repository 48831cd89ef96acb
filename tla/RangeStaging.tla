---------------------------- MODULE RangeStaging ----------------------------
(***************************************************************************)
(* Staged byte ranges of one file (file.c, range_staging.c, the drain of   *)
(* super.c): buffered writes go to a stage file on the fastest tier, reads *)
(* overlay them on the base file, a drain copies them back, and a sidecar  *)
(* lets the next mount find them again.  Tier and cache mode share the     *)
(* code and differ in locks, drains and the read cache.                    *)
(*                                                                         *)
(* Bytes are the number of the write they came from.  A drain, a write and *)
(* a read are cut where they hold no common lock: base file, flag and size *)
(* are read and written without range_staging_lock.                        *)
(***************************************************************************)
EXTENDS Integers, SequencesExt, FiniteSetsExt

CONSTANTS
    Tasks,
    Ops,          \* the operations that happen, each with the mount's mode
    N,            \* bound: offsets of the file
    Spans,        \* bound: the extents that writes cover
    MaxWrites,    \* bound: writes and truncates
    MaxCalls,     \* bound: other operations
    MaxEvents     \* bound: evictions, mounts and crashes

ASSUME StagingConstants ==
    /\ N \in Nat \ {0} /\ MaxWrites \in Nat /\ MaxCalls \in Nat /\ MaxEvents \in Nat
    /\ \A r \in Spans : r.start \in Nat /\ r.end \in 1 .. N /\ r.start < r.end

VARIABLES
    mode,         \* storage mode of the mount
    active,       \* the base tier is in write_staging_drain_active_tier_mask
    base, bdisk,  \* the lower file; what of it is on disk
    stage,        \* range-<oid>.stage: the file; whether its directory entry
                  \* is on disk, and which file the one on disk names
    meta, mdisk,  \* range-<oid>.meta; what of it is on disk
    ino,          \* smoothfs_inode_info
    replica,      \* read cache: chunks and the write_seq they are valid for
    lock,         \* owners of the three mutexes
    tk,           \* tasks: step, operation, extent, number of the write, where
                  \* a drain returns to and what it has left; history: the
                  \* writes returned before, what a read has seen, whether
                  \* neither a drain nor the read cache met it
    bytes,        \* range_staged_bytes
    hist          \* history: which write returned before which began

diskVars == <<base, bdisk, stage, meta, mdisk>>
memVars == <<mode, active, ino, replica, bytes>>
vars == <<diskVars, memVars, lock, tk, hist>>

Offsets == 0 .. N - 1
Hole == -1
Eof == -2
Writes == 1 .. MaxWrites
Vals == {Hole, 0} \union Writes

NoFile == <<>>
EmptyFile == [o \in Offsets |-> Eof]
NoMeta == <<[start |-> 0, end |-> 0]>>
Nobody == "nobody"

Extent(s, e) == [start |-> s, end |-> e]
Span(r) == r.start .. r.end - 1
Covered(rs) == UNION {Span(rs[i]) : i \in DOMAIN rs}
Total(rs) == FoldLeft(LAMBDA n, r : n + r.end - r.start, 0, rs)

Free == [cml |-> Nobody, rsl |-> Nobody, rcl |-> Nobody]
Idle == [pc |-> "idle", op |-> "none", lo |-> 0, hi |-> 0, id |-> 0,
         ret |-> "idle", rest |-> <<>>, known |-> {}, seen |-> Eof,
         clean |-> TRUE]

Inode(rs) == [staged |-> rs # <<>>, ranges |-> rs, size |-> base.size, seq |-> 0,
              pinned |-> mode = "cache" /\ rs # <<>>]
NoReplica == [seq |-> 0, data |-> [o \in {} |-> 0]]

Init ==
    /\ mode \in {"cache", "tier"} /\ active = (mode = "cache")
    /\ base = [data |-> [o \in Offsets |-> IF o = 0 THEN 0 ELSE Hole], size |-> 1]
    /\ bdisk = base
    /\ stage = [file |-> NoFile, linked |-> TRUE, old |-> NoFile]
    /\ meta = NoMeta /\ mdisk = NoMeta
    /\ ino = Inode(<<>>) /\ replica = NoReplica
    /\ lock = Free /\ tk = [t \in Tasks |-> Idle]
    /\ bytes = 0
    /\ hist = [next |-> 1, calls |-> 0, events |-> 0, done |-> {Hole, 0}, synced |-> {0},
               before |-> [w \in 0 .. MaxWrites |-> {Hole}],
               span |-> [w \in 0 .. MaxWrites |-> IF w = 0 THEN {0} ELSE {}]]
-----------------------------------------------------------------------------
(* Calls.                                                                  *)

Has(k) == <<mode, k>> \in Ops
Changes == {"stage", "append", "sync", "base", "direct", "truncate"}
Mutators == Changes \union {"chmod"}

\* Cache mode takes cache_mutation_lock around every change of the file.
Begin(t, k) ==
    /\ tk[t].pc = "idle" /\ Has(k)
    /\ mode = "cache" /\ k \in Mutators => lock.cml = Nobody
    /\ lock' = IF mode = "cache" /\ k \in Mutators THEN [lock EXCEPT !.cml = t]
                                                   ELSE lock
    /\ IF k \in Changes
       THEN /\ hist.next <= MaxWrites
            /\ hist' = [hist EXCEPT !.next = @ + 1,
                                    !.before[hist.next] = hist.done]
       ELSE /\ hist.calls < MaxCalls
            /\ hist' = [hist EXCEPT !.calls = @ + 1]

Called(t, k, lo, hi, pc, ret) ==
    tk' = [tk EXCEPT ![t] = [Idle EXCEPT !.pc = pc, !.op = k, !.lo = lo, !.hi = hi,
             !.ret = ret, !.known = hist.done,
             !.id = IF k \in Changes THEN hist.next ELSE 0]]

Goto(t, pc) == tk' = [tk EXCEPT ![t].pc = pc]
Unlocked(t) == [m \in DOMAIN lock |-> IF lock[m] = t THEN Nobody ELSE lock[m]]
Holding(m, t) == lock' = [lock EXCEPT ![m] = t]

\* The call ends: with an error its change was not acknowledged.
Fail(t) == tk' = [tk EXCEPT ![t] = Idle] /\ lock' = Unlocked(t) /\ UNCHANGED hist
Return(t, synced) ==
    /\ tk' = [tk EXCEPT ![t] = Idle]
    /\ lock' = Unlocked(t)
    /\ hist' = [hist EXCEPT !.done = @ \union {tk[t].id}, !.synced = @ \union synced]

\* write_iter up to the choice of its path: a direct write is refused while
\* ranges are staged, another one that is not staged drains them first.
WriteCall(t) ==
    \E k \in Changes \ {"truncate"}, r \in Spans :
        /\ k = "append" => r.start = 0
        /\ k = "direct" => ~ino.staged
        /\ Begin(t, k)
        /\ Called(t, k, r.start, r.end, IF k \in {"stage", "append", "sync"} THEN "stage"
                                        ELSE IF ino.staged THEN "drain" ELSE "recheck",
                  "recheck")
        /\ UNCHANGED <<diskVars, memVars>>

\* setattr: begin_data_change drains in cache mode only.  In tier mode a
\* truncate to nothing moves the file to the fastest tier (see DataPath).
SetattrCall(t) ==
    \E k \in {"truncate", "chmod"}, lo \in Offsets :
        /\ k = "chmod" => lo = 0
        /\ k = "truncate" /\ mode = "tier" => lo > 0
        /\ Begin(t, k)
        /\ Called(t, k, lo, N,
                  IF mode = "cache" /\ ino.staged THEN "drain" ELSE "attr", "attr")
        /\ UNCHANGED <<diskVars, memVars>>

\* Faulty variant: fsync leaves the staged ranges to the background drain.
FsyncCallOnly(t) ==
    /\ Begin(t, "fsync")
    /\ Called(t, "fsync", 0, 0, "fsync", "fsync")
    /\ UNCHANGED <<diskVars, memVars>>

FsyncCall(t) ==
    /\ Begin(t, "fsync")
    /\ Called(t, "fsync", 0, 0, IF mode = "cache" THEN "drain" ELSE "fsync", "fsync")
    /\ UNCHANGED <<diskVars, memVars>>

\* The heat worker in cache mode; in tier mode a store to the drain mask.
DrainCall(t) ==
    /\ Begin(t, "drain")
    /\ Called(t, "drain", 0, 0, "drain", "idle")
    /\ active' \in IF mode = "cache" THEN {TRUE} ELSE BOOLEAN
    /\ UNCHANGED <<diskVars, mode, ino, replica, bytes>>

ReadCall(t) ==
    \E o \in Offsets :
        /\ Begin(t, "read") /\ Called(t, "read", o, o + 1, "check", "end")
        /\ UNCHANGED <<diskVars, memVars>>
-----------------------------------------------------------------------------
(* The paths of write_iter.                                                *)

\* Faulty variant: ranges that only touch are kept apart.
StageRecordApart(rs, start, end) ==
    LET Merge(a, r) ==
          IF a.after # <<>> \/ a.end <= r.start
          THEN [a EXCEPT !.after = Append(@, r)]
          ELSE IF a.start >= r.end THEN [a EXCEPT !.before = Append(@, r)]
          ELSE [a EXCEPT !.start = Min({@, r.start}), !.end = Max({@, r.end})]
        a == FoldLeft(Merge, [before |-> <<>>, after |-> <<>>,
                             start |-> start, end |-> end], rs)
    IN  a.before \o <<Extent(a.start, a.end)>> \o a.after

\* smoothfs_range_stage_record_locked: one pass over the sorted list.
StageRecord(rs, start, end) ==
    LET Merge(a, r) ==
          IF a.after # <<>> \/ a.end < r.start
          THEN [a EXCEPT !.after = Append(@, r)]
          ELSE IF a.start > r.end THEN [a EXCEPT !.before = Append(@, r)]
          ELSE [a EXCEPT !.start = Min({@, r.start}), !.end = Max({@, r.end})]
        a == FoldLeft(Merge, [before |-> <<>>, after |-> <<>>,
                             start |-> start, end |-> end], rs)
    IN  a.before \o <<Extent(a.start, a.end)>> \o a.after

\* A file after a write of [lo, hi): what lies before it and after the old end
\* reads as zeros.
Written(f, lo, hi, w) ==
    [o \in Offsets |-> IF o \in lo .. hi - 1 THEN w
                       ELSE IF f[o] = Eof /\ o < hi THEN Hole ELSE f[o]]

StageFile == IF stage.file = NoFile THEN EmptyFile ELSE stage.file

\* Faulty variant: the inode is not held while it has staged ranges.
PinnedNever == ino.pinned

\* Cache mode holds the inode while it has staged ranges.
Pinned == mode = "cache"

\* Faulty variant: the length of the write is counted.
GrowthOfWrite(old, new, lo, hi) == hi - lo

Growth(old, new, lo, hi) == Total(new) - Total(old)

\* range_stage_write up to persist, under range_staging_lock.
StageWrite(t) ==
    /\ tk[t].pc = "stage" /\ lock.rsl = Nobody
    /\ LET lo == IF tk[t].op = "append" THEN ino.size ELSE tk[t].lo
           hi == lo + tk[t].hi - tk[t].lo
           rs == StageRecord(ino.ranges, lo, hi)
       IN  /\ hi <= N
           /\ stage' = [stage EXCEPT !.file = Written(StageFile, lo, hi, tk[t].id),
                                     !.linked = @ /\ stage.file # NoFile]
           /\ ino' = [ino EXCEPT !.ranges = rs, !.staged = TRUE, !.pinned = Pinned,
                                 !.size = Max({@, hi})]
           /\ bytes' = bytes + Growth(ino.ranges, rs, lo, hi)
           /\ hist' = [hist EXCEPT !.span[tk[t].id] = lo .. hi - 1]
    /\ Holding("rsl", t) /\ Goto(t, "persist")
    /\ UNCHANGED <<base, bdisk, meta, mdisk, mode, active, replica>>

\* -ENOSPC on the fastest tier: cache mode drains and writes to the base.
StageFull(t) ==
    /\ tk[t].pc = "stage" /\ lock.rsl = Nobody
    /\ IF mode = "cache"
       THEN /\ tk' = [tk EXCEPT ![t].pc = "drain", ![t].ret = "base"]
            /\ UNCHANGED <<lock, hist>>
       ELSE Fail(t)
    /\ UNCHANGED <<diskVars, memVars>>

\* smoothfs_range_staging_persist: written aside, fsynced, renamed.
Persist(t) ==
    /\ tk[t].pc = "persist"
    /\ meta' = ino.ranges
    /\ Holding("rsl", Nobody) /\ Goto(t, "note")
    /\ UNCHANGED <<base, bdisk, stage, mdisk, memVars, hist>>

\* Cache mode keeps the ranges and reports the error; tier mode ignores it.
PersistFails(t) ==
    /\ tk[t].pc = "persist" /\ Has("lostmeta")
    /\ IF mode = "cache"
       THEN Fail(t) /\ ino' = [ino EXCEPT !.seq = @ + 1]
       ELSE Goto(t, "note") /\ Holding("rsl", Nobody) /\ UNCHANGED <<ino, hist>>
    /\ UNCHANGED <<diskVars, mode, active, replica, bytes>>

\* After the drain nobody may have staged again.
Recheck(t) ==
    /\ tk[t].pc = "recheck"
    /\ IF ino.staged THEN Fail(t) ELSE Goto(t, "base") /\ UNCHANGED <<lock, hist>>
    /\ UNCHANGED <<diskVars, memVars>>

BaseWrite(t) ==
    /\ tk[t].pc = "base"
    /\ LET lo == IF tk[t].op = "append" THEN base.size ELSE tk[t].lo
           hi == lo + tk[t].hi - tk[t].lo
       IN  /\ hi <= N
           /\ base' = [data |-> [o \in Offsets |-> IF o \in lo .. hi - 1 THEN tk[t].id
                                                   ELSE base.data[o]],
                       size |-> Max({base.size, hi})]
           /\ hist' = [hist EXCEPT !.span[tk[t].id] = lo .. hi - 1]
    /\ Goto(t, "note")
    /\ UNCHANGED <<bdisk, stage, meta, mdisk, memVars, lock>>

\* The end of write_iter; cache mode makes a synchronous write durable.
Acknowledge(t) ==
    IF mode = "cache" /\ tk[t].op = "sync"
    THEN tk' = [tk EXCEPT ![t].pc = "drain", ![t].ret = "fsync"]
         /\ UNCHANGED <<lock, hist>>
    ELSE Return(t, {})

Note(t) ==
    /\ tk[t].pc = "note"
    /\ ino' = [ino EXCEPT !.seq = @ + 1]
    /\ IF ino.staged THEN Acknowledge(t) ELSE Goto(t, "size") /\ UNCHANGED <<lock, hist>>
    /\ UNCHANGED <<diskVars, mode, active, replica, bytes>>

SetSize(t) ==
    /\ tk[t].pc = "size"
    /\ ino' = [ino EXCEPT !.size = base.size]
    /\ Acknowledge(t)
    /\ UNCHANGED <<diskVars, mode, active, replica, bytes>>
-----------------------------------------------------------------------------
(* setattr, fsync                                                          *)

\* notify_change on the lower, copy_attrs, and the count if the size changed.
Setattr(t) ==
    /\ tk[t].pc = "attr"
    /\ IF tk[t].op = "truncate"
       THEN /\ base' = [data |-> [o \in Offsets |-> IF o >= tk[t].lo THEN tk[t].id
                                                    ELSE base.data[o]],
                        size |-> tk[t].lo]
            /\ ino' = [ino EXCEPT !.size = tk[t].lo, !.seq = @ + 1]
            /\ tk' = [tk EXCEPT ![t] = Idle] /\ lock' = Unlocked(t)
            /\ hist' = [hist EXCEPT !.done = @ \union {tk[t].id},
                                    !.span[tk[t].id] = tk[t].lo .. N - 1]
       ELSE /\ ino' = [ino EXCEPT !.size = base.size]
            /\ Return(t, {})
            /\ UNCHANGED base
    /\ UNCHANGED <<bdisk, stage, meta, mdisk, mode, active, replica, bytes>>

Fsync(t) ==
    /\ tk[t].pc = "fsync"
    /\ bdisk' = base
    /\ Return(t, tk[t].known \union {tk[t].id})
    /\ UNCHANGED <<base, stage, meta, mdisk, memVars>>
-----------------------------------------------------------------------------
(* smoothfs_write_staging_drain_one_range, under range_staging_lock        *)

\* To where the drain was called.
Back(t) == IF tk[t].ret = "idle" THEN Idle
           ELSE [tk[t] EXCEPT !.pc = tk[t].ret, !.rest = <<>>]

Drain(t) ==
    /\ tk[t].pc = "drain" /\ lock.rsl = Nobody
    /\ IF ino.staged /\ active
       THEN /\ Holding("rsl", t)
            /\ tk' = [tk EXCEPT ![t].pc = "copy", ![t].rest = ino.ranges]
       ELSE tk' = [tk EXCEPT ![t] = Back(t)] /\ UNCHANGED lock
    /\ UNCHANGED <<diskVars, memVars, hist>>

\* One range; a stage file that ends early is -EIO.
DrainCopy(t) ==
    /\ tk[t].pc = "copy" /\ tk[t].rest # <<>>
    /\ LET r == Head(tk[t].rest)
           got == {o \in Span(r) : \A p \in r.start .. o : stage.file[p] # Eof}
       IN  /\ base' = [data |-> [o \in Offsets |-> IF o \in got THEN stage.file[o]
                                                   ELSE base.data[o]],
                       size |-> Max({base.size} \union {o + 1 : o \in got})]
           /\ IF got = Span(r)
              THEN /\ tk' = [tk EXCEPT ![t].rest = Tail(@)]
                   /\ UNCHANGED <<lock, hist>>
              ELSE Fail(t)
    /\ UNCHANGED <<bdisk, stage, meta, mdisk, memVars>>

DrainFails(t) ==
    /\ tk[t].pc = "copy" /\ Fail(t)
    /\ UNCHANGED <<diskVars, memVars>>

\* fsync of the base file and its directories
DrainSync(t) ==
    /\ tk[t].pc = "copy" /\ tk[t].rest = <<>>
    /\ bdisk' = base
    /\ Goto(t, "clear")
    /\ UNCHANGED <<base, stage, meta, mdisk, memVars, lock, hist>>

\* Faulty variant: the drained bytes are subtracted from both totals at once.
DrainedTwice == 2 * Total(ino.ranges)

Drained == Total(ino.ranges)

\* Stage and sidecar are unlinked, not synced, before the lock is released.
DrainClear(t) ==
    /\ tk[t].pc = "clear"
    /\ ino' = [ino EXCEPT !.staged = FALSE, !.ranges = <<>>, !.pinned = FALSE]
    /\ stage' = [file |-> NoFile, linked |-> FALSE,
                 old |-> IF stage.linked THEN stage.file ELSE stage.old]
    /\ meta' = NoMeta
    /\ bytes' = bytes - Drained
    /\ Holding("rsl", Nobody)
    /\ tk' = [u \in Tasks |-> IF u = t THEN Back(t)
                              ELSE [tk[u] EXCEPT !.clean = @ /\ tk[u].op # "read"]]
    /\ UNCHANGED <<base, bdisk, mdisk, mode, active, replica, hist>>
-----------------------------------------------------------------------------
(* read_iter of one offset; direct reads are refused while staged.         *)

ReadCheck(t) ==
    /\ tk[t].pc = "check"
    /\ tk' = IF ino.staged THEN [tk EXCEPT ![t].pc = "lower"]
             ELSE IF mode = "cache" THEN [tk EXCEPT ![t].pc = "cached"]
             ELSE [tk EXCEPT ![t].pc = "end", ![t].seen = base.data[tk[t].lo]]
    /\ UNCHANGED <<diskVars, memVars, lock, hist>>

\* range_stage_read_iter: the lower is read without range_staging_lock ...
ReadLower(t) ==
    /\ tk[t].pc = "lower"
    /\ tk' = IF tk[t].lo >= ino.size THEN [tk EXCEPT ![t].pc = "end"]
             ELSE [tk EXCEPT ![t].pc = "overlay", ![t].seen = base.data[tk[t].lo]]
    /\ UNCHANGED <<diskVars, memVars, lock, hist>>

\* The bytes of f at o with the staged ranges on top; a short stage file leaves
\* what was there.
Overlay(f, rs, o, v) == IF o \in Covered(rs) /\ f[o] # Eof THEN f[o] ELSE v

\* Faulty variant: a range that begins where the read begins is passed over.
ReadOverlayShort(t) ==
    /\ tk[t].pc = "overlay" /\ lock.rsl = Nobody
    /\ tk' = [tk EXCEPT ![t].pc = "end",
         ![t].seen = Overlay(StageFile, SelectSeq(ino.ranges,
                       LAMBDA r : r.start < tk[t].lo), tk[t].lo, @)]
    /\ UNCHANGED <<diskVars, memVars, lock, hist>>

\* ... and overlaid under it.
ReadOverlay(t) ==
    /\ tk[t].pc = "overlay" /\ lock.rsl = Nobody
    /\ tk' = [tk EXCEPT ![t].pc = "end",
                        ![t].seen = Overlay(StageFile, ino.ranges, tk[t].lo, @)]
    /\ UNCHANGED <<diskVars, memVars, lock, hist>>

\* cached_read_iter: replicas of another write_seq are dropped first.
Valid == IF replica.seq = ino.seq THEN replica
                                  ELSE [NoReplica EXCEPT !.seq = ino.seq]

ReadCached(t) ==
    /\ tk[t].pc = "cached" /\ lock.rcl = Nobody
    /\ replica' = Valid
    /\ IF tk[t].lo \in DOMAIN Valid.data
       THEN tk' = [tk EXCEPT ![t].pc = "end", ![t].clean = FALSE,
                             ![t].seen = Valid.data[tk[t].lo]] /\ UNCHANGED lock
       ELSE Goto(t, "fill") /\ Holding("rcl", t)
    /\ UNCHANGED <<diskVars, mode, active, ino, bytes, hist>>

ReadFill(t) ==
    /\ tk[t].pc = "fill"
    /\ LET o == tk[t].lo
           v == base.data[o]
       IN  IF o >= base.size THEN Goto(t, "end") /\ UNCHANGED replica
           ELSE /\ tk' = [tk EXCEPT ![t].pc = "end", ![t].seen = v]
                /\ replica' \in {replica, [replica EXCEPT
                       !.data = [p \in DOMAIN @ \union {o} |->
                                   IF p = o THEN v ELSE @[p]]]}
    /\ Holding("rcl", Nobody)
    /\ UNCHANGED <<diskVars, mode, active, ino, bytes, hist>>

ReadEnds(t) ==
    /\ tk[t].pc = "end" /\ Fail(t)
    /\ UNCHANGED <<diskVars, memVars>>
-----------------------------------------------------------------------------
(* Eviction, mounts and crashes.                                           *)

Quiet == \A t \in Tasks : tk[t].pc = "idle"

\* What happens besides the calls of tasks.
Event(k) == Has(k) /\ hist.events < MaxEvents

\* evict_inode drops the list; the sidecar stays.
Evict ==
    /\ Event("evict") /\ Quiet /\ ~ino.pinned
    /\ ino' = Inode(<<>>) /\ replica' = NoReplica
    /\ hist' = [hist EXCEPT !.events = @ + 1]
    /\ UNCHANGED <<diskVars, mode, active, lock, tk, bytes>>

\* range_replay_one; i_size comes from the base file.
Replay(m, f) == IF m = NoMeta \/ f = NoFile THEN <<>> ELSE m

\* Unmount and mount.  In cache mode the unmount drains ...
RemountDrained ==
    /\ Event("remount") /\ Quiet /\ mode = "cache" /\ ino.staged
    /\ \A o \in Covered(ino.ranges) : stage.file[o] # Eof
    /\ base' = [data |-> [o \in Offsets |->
                           Overlay(stage.file, ino.ranges, o, base.data[o])],
                size |-> Max({base.size} \union {o + 1 : o \in Covered(ino.ranges)})]
    /\ bdisk' = base'
    /\ stage' = [file |-> NoFile, linked |-> FALSE,
                 old |-> IF stage.linked THEN stage.file ELSE stage.old]
    /\ meta' = NoMeta
    /\ ino' = [Inode(<<>>) EXCEPT !.size = base'.size] /\ replica' = NoReplica
    /\ bytes' = 0
    /\ hist' = [hist EXCEPT !.events = @ + 1]
    /\ UNCHANGED <<mdisk, mode, active, lock, tk>>

\* ... and what it could not drain, or did not in tier mode, is replayed.
Remount ==
    /\ Event("remount") /\ Quiet
    /\ ino' = Inode(Replay(meta, stage.file)) /\ replica' = NoReplica
    /\ bytes' = Total(ino'.ranges)
    /\ active' = (mode = "cache")
    /\ hist' = [hist EXCEPT !.events = @ + 1]
    /\ UNCHANGED <<diskVars, mode, lock, tk>>

\* The stage file the directory on disk names, if of its pages, which nobody
\* syncs, those of P were written back.
DiskStage(P) ==
    LET f == IF stage.linked THEN stage.file ELSE stage.old
    IN  IF f = NoFile THEN NoFile
        ELSE [o \in Offsets |-> IF o \in P THEN f[o]
                                ELSE IF \E p \in P : p > o /\ f[p] # Eof THEN Hole
                                ELSE Eof]

\* What was not synced of the base file survives or not.  Writes from before
\* the crash count as older than those after it.
Crash(P) ==
    /\ Event("crash")
    /\ base' \in {base, bdisk} /\ bdisk' = base'
    /\ stage' = [file |-> DiskStage(P), linked |-> TRUE, old |-> NoFile]
    /\ meta' = mdisk
    /\ ino' = [Inode(Replay(mdisk, DiskStage(P))) EXCEPT !.size = base'.size]
    /\ bytes' = Total(ino'.ranges)
    /\ replica' = NoReplica /\ active' = (mode = "cache")
    /\ lock' = Free /\ tk' = [t \in Tasks |-> Idle]
    /\ hist' = [hist EXCEPT !.events = @ + 1, !.synced = {},
                            !.done = {Hole} \union 0 .. hist.next - 1,
                            !.span = [w \in DOMAIN @ |-> {}]]
    /\ UNCHANGED <<mdisk, mode>>

\* The fastest tier commits the directory of stage and sidecar; only a crash
\* tells.
DirCommit ==
    /\ Event("crash") /\ (~stage.linked \/ mdisk # meta)
    /\ stage' = [stage EXCEPT !.linked = TRUE, !.old = NoFile]
    /\ mdisk' = meta
    /\ UNCHANGED <<base, bdisk, meta, memVars, lock, tk, hist>>

Call(t) == WriteCall(t) \/ SetattrCall(t) \/ FsyncCall(t) \/ DrainCall(t) \/ ReadCall(t)

Step(t) ==
    \/ StageWrite(t) \/ StageFull(t) \/ Persist(t) \/ PersistFails(t)
    \/ Recheck(t) \/ BaseWrite(t) \/ Note(t) \/ SetSize(t) \/ Setattr(t) \/ Fsync(t)
    \/ Drain(t) \/ DrainCopy(t) \/ DrainFails(t) \/ DrainSync(t) \/ DrainClear(t)
    \/ ReadCheck(t) \/ ReadLower(t) \/ ReadOverlay(t) \/ ReadCached(t) \/ ReadFill(t)
    \/ ReadEnds(t)

Next ==
    \/ \E t \in Tasks : Call(t) \/ Step(t)
    \/ Evict \/ RemountDrained \/ Remount \/ DirCommit
    \/ \E P \in SUBSET Offsets : Crash(P)

Spec == Init /\ [][Next]_vars
-----------------------------------------------------------------------------
\* Types of files, inode and locks; range_staged_bytes never goes below zero.
TypeOK ==
    /\ base.data \in [Offsets -> Vals] /\ base.size \in 0 .. N
    /\ stage.file \in [Offsets -> Vals \union {Eof}] \union {NoFile}
    /\ ino.size \in 0 .. N /\ ino.seq \in Nat /\ bytes \in Nat
    /\ lock \in [DOMAIN Free -> Tasks \union {Nobody}]

\* v was replaced at o by a write of S that began after v had returned.
Replaced(v, o, S) == \E w \in S \ {Hole} : o \in hist.span[w] /\ v \in hist.before[w]

View(o) == Overlay(StageFile, ino.ranges, o, base.data[o])

\* Whatever mixture of staged, direct and base writes, truncates, drains,
\* failures, evictions and mounts happened: the merged view never shows bytes
\* older than a write that has returned.
NoOldBytes == \A o \in Offsets : ~Replaced(View(o), o, hist.done)

\* The list of staged ranges is sorted and coalesced, and not empty exactly
\* while range_staged is set: record_locked, overlay and drain rely on it.
RangesCanonical ==
    /\ ino.staged = (ino.ranges # <<>>)
    /\ \A i \in DOMAIN ino.ranges :
         /\ ino.ranges[i].start < ino.ranges[i].end
         /\ i > 1 => ino.ranges[i - 1].end < ino.ranges[i].start

\* range_staged_bytes is the size of the staged ranges: overlapping writes,
\* drains and replays never make it drift.
BytesAccounted == bytes = Total(ino.ranges)

\* What was written before an fsync or by a synchronous write is on the disk of
\* the base tier, or something newer is, once the call has returned.
SyncedOnBase == \A o \in Offsets : ~Replaced(bdisk.data[o], o, hist.synced)

\* A read that neither meets a drain nor the read cache returns nothing older
\* than the writes that had returned when it began.
ReadsFresh ==
    \A t \in Tasks : tk[t].op = "read" /\ tk[t].pc = "end" /\ tk[t].clean
        => ~Replaced(tk[t].seen, tk[t].lo, tk[t].known)

\* While nothing changes the file, a replica the read cache takes for valid
\* holds the bytes of the base file.
ReplicaCurrent ==
    Quiet /\ ~ino.staged /\ replica.seq = ino.seq
        => \A o \in DOMAIN replica.data : replica.data[o] = base.data[o]

\* The size shown to reads and appends reaches the end of the staged ranges.
SizeCovers == \A o \in Covered(ino.ranges) : o < ino.size

\* What a crash would leave shows nothing older than what was synced.
SyncedRecoverable ==
    \A P \in SUBSET Offsets :
        LET rs == Replay(mdisk, DiskStage(P))
        IN  \A o \in Offsets :
              ~Replaced(Overlay(DiskStage(P), rs, o, bdisk.data[o]), o, hist.synced)
=============================================================================
