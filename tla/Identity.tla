------------------------------ MODULE Identity ------------------------------
(***************************************************************************)
(* Object identity.  Every file has an object id (OID), minted when the    *)
(* file is first seen and stored in an xattr of the lower file by a        *)
(* deferred writeback queue; the inode number, the NFS handle and the      *)
(* placement state hang on it.  smoothfs_iget turns a lower inode into an  *)
(* in-core one: through the (tier, lower inode number) cache, the xattr or *)
(* the pending queue, or by minting.  A lower inode number is free again   *)
(* as soon as no name and no path reference keeps the lower inode.         *)
(*                                                                         *)
(* A lower inode is a pair <<tier, number>>.  file[k] is the file whose    *)
(* bytes it holds (the two copies of a movement hold the same file), and   *)
(* seen[f] is the set of OIDs under which file f has been handed out.      *)
(***************************************************************************)
EXTENDS Integers, FiniteSets, SequencesExt

CONSTANTS
    Keys,           \* bound: the lower inodes <<tier, number>>, tier 0 fastest
    Names,          \* names of the pool
    Tasks,          \* tasks that may run smoothfs_iget at the same time
    Promotions,     \* whether files are moved to a faster tier too
    NFiles,         \* bound: files ever created
    NOids,          \* bound: OIDs ever minted
    NCrashes,       \* bound: crashes and remounts
    NMoves          \* bound: movements

ASSUME IdentityAssumption ==
    /\ IsFiniteSet(Keys) /\ \A k \in Keys : k[1] \in {0, 1}
    /\ Promotions \in BOOLEAN
    /\ {NFiles, NOids, NCrashes, NMoves} \subseteq Nat

VARIABLES
    name,           \* name[n]: the lower inodes at n, at most one per tier
    file,           \* file[k]: the file lower inode k holds
    xat,            \* xat[k]: its trusted.smoothfs.oid
    safe,           \* the lower inodes whose xattr a crash cannot undo
    pend, flight,   \* oid_wb_pending, and the entries the worker took
    core,           \* core[o]: lower_path of the in-core inode of OID o
    nlo,            \* nlo[o]: its nlink_observed, bounded below by 0
    dent,           \* dent[n]: the inode of the dentry of name n
    lmap,           \* lower_ino_map: lmap[k] lists the entries under key k
    task,           \* the running smoothfs_iget calls
    job,            \* the movement in progress
    index,          \* the OID-to-path index: absent, written or loaded
    minted, made,   \* OIDs minted and files created so far
    seen,           \* seen[f]: the OIDs file f was handed out under
    gone,           \* files whose last link was removed
    kept,           \* files whose identity a sync_fs has acknowledged
    twice,          \* files two overlapping igets have minted for
    crashes, moves

lowerVars == <<name, file, xat, safe>>
queueVars == <<pend, flight>>
coreVars  == <<core, nlo, dent, lmap>>
ghostVars == <<seen, gone, kept, twice>>
countVars == <<minted, made, crashes, moves>>
vars == <<lowerVars, queueVars, coreVars, task, job, index, ghostVars,
          countVars>>

Files  == 1 .. NFiles
Oids   == 1 .. NOids
NoFile == 0
NoOid  == 0
NoKey  == <<>>
NoTask == [pc |-> "idle"]
NoJob  == [pc |-> "none", oid |-> NoOid]
NoName == ""

Tier(k) == k[1]

-----------------------------------------------------------------------------
(* Lower inodes and the writeback queue.                                   *)

\* The names of lower inode k; none means i_nlink = 0.
Links(nm, k) == {n \in Names : k \in nm[n]}

\* The copy of n a cold lookup finds: the parent's own tree, then the others.
Found(n) == CHOOSE k \in name[n] : \A j \in name[n] : Tier(k) <= Tier(j)

\* The copy of n on the tier of k.
OnTierOf(k, n) == {j \in name[n] : Tier(j) = Tier(k)}

\* Faulty variant of Referenced: a queued OID takes no reference on the path.
UnpinnedQueue(k) ==
    \/ \E o \in Oids : core[o] = k
    \/ \E t \in Tasks : task[t] # NoTask /\ task[t].key = k

\* A path reference keeps the lower inode and with it its number.
Referenced(k) ==
    \/ \E o \in Oids : core[o] = k
    \/ \E i \in DOMAIN pend : pend[i].key = k
    \/ \E i \in DOMAIN flight : flight[i].key = k
    \/ \E t \in Tasks : task[t] # NoTask /\ task[t].key = k

\* The lower filesystem frees an inode without names and references.
LowerFree(k) ==
    /\ file[k] # NoFile /\ Links(name, k) = {} /\ ~Referenced(k)
    /\ file' = [file EXCEPT ![k] = NoFile]
    /\ xat' = [xat EXCEPT ![k] = NoOid]
    /\ safe' = safe \ {k}
    /\ UNCHANGED <<name, queueVars, coreVars, task, job, index, ghostVars,
                   countVars>>

\* The oldest entry of lower inode k in queue q.
WbPeek(q, k) ==
    LET I == {i \in DOMAIN q : q[i].key = k}
    IN  IF I = {} THEN NoOid
        ELSE q[CHOOSE i \in I : \A j \in I : i <= j].oid

\* What flushing queue q leaves in the xattrs: XATTR_CREATE never replaces.
Flushed(q) ==
    [k \in Keys |-> IF xat[k] = NoOid THEN WbPeek(q, k) ELSE xat[k]]

\* The worker takes the whole pending list.
WbSplice ==
    /\ flight = <<>> /\ pend # <<>>
    /\ flight' = pend /\ pend' = <<>>
    /\ UNCHANGED <<lowerVars, coreVars, task, job, index, ghostVars, countVars>>

\* The worker writes one xattr; EEXIST is ignored.
WbWrite ==
    /\ flight # <<>>
    /\ xat' = Flushed(<<Head(flight)>>)
    /\ flight' = Tail(flight)
    /\ UNCHANGED <<name, file, safe, pend, coreVars, task, job, index,
                   ghostVars, countVars>>

\* smoothfs_oid_wb_forget: an unlinked file needs no OID xattr.
WbForget(nm, k) ==
    IF Links(nm, k) # {} THEN pend ELSE SelectSeq(pend, LAMBDA e : e.key # k)

-----------------------------------------------------------------------------
(* The lower_ino_map.  Equal keys are not refused by the hash table, and   *)
(* which of them a lookup meets is not defined.                            *)

\* The map after an entry under k was looked up and removed.
MapRemove(k) ==
    IF lmap[k] = <<>> THEN {lmap}
    ELSE {[lmap EXCEPT ![k] = RemoveAt(@, i)] : i \in DOMAIN lmap[k]}

MapInsert(m, k, o) == [m EXCEPT ![k] = Append(@, o)]

-----------------------------------------------------------------------------
(* smoothfs_iget, in the steps between which other tasks may run.          *)

Started(n, k, want, fresh) ==
    [pc |-> "probe", name |-> n, key |-> k, oid |-> NoOid, want |-> want,
     fresh |-> fresh, await |-> {}]

\* A name is looked up or changed by one task at a time: d_alloc_parallel
\* and the directory lock.
Quiet(n) == \A t \in Tasks : task[t] # NoTask => task[t].name # n

Queued == {pend[i].oid : i \in DOMAIN pend}
              \cup {flight[i].oid : i \in DOMAIN flight}

\* Hand out the inode of OID o for task t.  A lookup that found the file on a
\* slower tier records it there, which persists the OID first; a create does
\* not (record_log of smoothfs_track_placed).
Return(t, o, co) ==
    LET k == task[t].key
        f == file[k]
    IN  /\ core' = co
        /\ xat' = IF /\ Tier(k) # 0 /\ xat[co[o]] = NoOid
                     /\ task[t].name \in Names /\ ~task[t].fresh
                  THEN [xat EXCEPT ![co[o]] = o] ELSE xat
        /\ dent' = IF task[t].name \in Names
                   THEN [dent EXCEPT ![task[t].name] = o] ELSE dent
        /\ seen' = IF f \in gone THEN seen ELSE [seen EXCEPT ![f] = @ \cup {o}]
        /\ task' = [task EXCEPT ![t] = NoTask]

Goto(t, pc) == task' = [task EXCEPT ![t].pc = pc]
AfterMap(t) == IF task[t].fresh THEN "mint" ELSE "read"

\* The cached upper inode o really stands on lower inode k.
Backs(o, k) == core[o] = k

\* The fast path: the cache entry, ilookup, and the check of its backing.  An
\* entry that points at another file's inode is dropped.
IgetProbe(t) ==
    /\ task[t].pc = "probe"
    /\ LET k == task[t].key
           miss == Goto(t, AfterMap(t)) /\ UNCHANGED <<core, dent, xat, seen>>
       IN  \/ /\ \A i \in DOMAIN lmap[k] : core[lmap[k][i]] = NoKey
              /\ miss /\ UNCHANGED lmap
           \/ \E i \in DOMAIN lmap[k] :
                 /\ core[lmap[k][i]] # NoKey
                 /\ IF Backs(lmap[k][i], k)
                    THEN Return(t, lmap[k][i], core) /\ UNCHANGED lmap
                    ELSE miss /\ lmap' \in MapRemove(k)
    /\ UNCHANGED <<name, file, safe, queueVars, nlo, job, index, gone, kept,
                   twice, countVars>>

\* smoothfs_read_oid_xattr.
IgetRead(t) ==
    /\ task[t].pc = "read"
    /\ task' = [task EXCEPT
                    ![t].oid = xat[task[t].key],
                    ![t].pc = IF xat[task[t].key] = NoOid THEN "peek"
                              ELSE "get"]
    /\ UNCHANGED <<lowerVars, queueVars, coreVars, job, index, ghostVars,
                   countVars>>

\* Faulty variant of IgetPeek: a missing xattr means a new file.
MintAtOnce(t) ==
    /\ task[t].pc = "peek"
    /\ Goto(t, "mint")
    /\ UNCHANGED <<lowerVars, queueVars, coreVars, job, index, ghostVars,
                   countVars>>

\* No xattr: the OID may be pending, or in the hands of the worker.
IgetPeek(t) ==
    /\ task[t].pc = "peek"
    /\ LET o == WbPeek(pend, task[t].key) IN
       task' = [task EXCEPT
                    ![t].oid = o,
                    ![t].pc = IF o = NoOid THEN "drain" ELSE "get",
                    ![t].await = IF o = NoOid THEN Queued ELSE {}]
    /\ UNCHANGED <<lowerVars, queueVars, coreVars, job, index, ghostVars,
                   countVars>>

\* smoothfs_oid_wb_drain returned: what was queued then is written.
IgetDrained(t) ==
    /\ task[t].pc = "drain" /\ task[t].await \cap Queued = {}
    /\ LET o == xat[task[t].key] IN
       task' = [task EXCEPT ![t].oid = o, ![t].await = {},
                            ![t].pc = IF o = NoOid THEN "mint" ELSE "get"]
    /\ UNCHANGED <<lowerVars, queueVars, coreVars, job, index, ghostVars,
                   countVars>>

\* Another iget of the same lower inode is past its look at the queue and will
\* not meet what this one is about to queue.
Overlapped(t) ==
    \E u \in Tasks \ {t} :
        /\ task[u] # NoTask /\ task[u].key = task[t].key
        /\ task[u].pc \in {"drain", "mint"}

\* smoothfs_alloc_oid and smoothfs_oid_wb_queue.
IgetMint(t) ==
    /\ task[t].pc = "mint" /\ minted < NOids
    /\ minted' = minted + 1
    /\ pend' = Append(pend, [key |-> task[t].key, oid |-> minted + 1])
    /\ task' = [task EXCEPT ![t].pc = "get", ![t].oid = minted + 1]
    /\ twice' = IF Overlapped(t) THEN twice \cup {file[task[t].key]} ELSE twice
    /\ UNCHANGED <<lowerVars, flight, coreVars, job, index, seen, gone, kept,
                   made, crashes, moves>>

\* iget_locked: a cached inode of that OID is returned as it is, a new one
\* takes the caller's lower path and a cache entry.
IgetLocked(t) ==
    /\ task[t].pc = "get"
    /\ LET o == task[t].oid
           k == task[t].key
       IN  IF core[o] # NoKey
           THEN Return(t, o, core) /\ UNCHANGED <<nlo, lmap>>
           ELSE /\ Return(t, o, [core EXCEPT ![o] = k])
                /\ nlo' = [nlo EXCEPT ![o] = 1]
                /\ lmap' = MapInsert(lmap, k, o)
    /\ UNCHANGED <<name, file, safe, queueVars, job, index, gone, kept, twice,
                   countVars>>

-----------------------------------------------------------------------------
(* Names.                                                                  *)

Idle(t) == task[t] = NoTask

\* A cold lookup of n.
Lookup(t, n) ==
    /\ Idle(t) /\ Quiet(n) /\ dent[n] = NoOid /\ name[n] # {}
    /\ task' = [task EXCEPT ![t] = Started(n, Found(n), NoOid, FALSE)]
    /\ UNCHANGED <<lowerVars, queueVars, coreVars, job, index, ghostVars,
                   countVars>>

\* smoothfs_get_parent: an iget of a linked lower inode under no name's lock.
\* What is just being created has no child yet that could ask.
GetParent(t, k) ==
    /\ Idle(t) /\ Links(name, k) # {}
    /\ \A u \in Tasks : ~Idle(u) /\ task[u].key = k => ~task[u].fresh
    /\ task' = [task EXCEPT ![t] = Started(NoName, k, NoOid, FALSE)]
    /\ UNCHANGED <<lowerVars, queueVars, coreVars, job, index, ghostVars,
                   countVars>>

\* A create makes the lower file, which may take a freed number, and igets it.
Create(t, n, k) ==
    /\ Idle(t) /\ Quiet(n) /\ dent[n] = NoOid /\ name[n] = {}
    /\ made < NFiles /\ file[k] = NoFile
    /\ made' = made + 1
    /\ name' = [name EXCEPT ![n] = {k}]
    /\ file' = [file EXCEPT ![k] = made + 1]
    /\ task' = [task EXCEPT ![t] = Started(n, k, NoOid, TRUE)]
    /\ UNCHANGED <<xat, safe, queueVars, coreVars, job, index, ghostVars,
                   minted, crashes, moves>>

\* Faulty variant of Counted: a new link is counted twice.
CountedTwice(o) == nlo[o] + 2

Counted(o) == nlo[o] + 1

\* Bound: two inodes of one file can drive one's count up without end.
MaxObserved == Cardinality(Names) + 1

\* smoothfs_link_inner: both names on the lower filesystem of the file.
Link(n, m) ==
    LET o == dent[n] IN
    /\ o # NoOid /\ nlo[o] < MaxObserved /\ core[o] \in name[n]
    /\ Quiet(m) /\ dent[m] = NoOid /\ name[m] = {}
    /\ name' = [name EXCEPT ![m] = {core[o]}]
    /\ dent' = [dent EXCEPT ![m] = o]
    /\ nlo' = [nlo EXCEPT ![o] = Counted(o)]
    /\ UNCHANGED <<file, xat, safe, queueVars, core, lmap, task, job, index,
                   ghostVars, countVars>>

\* smoothfs_unlink_inner removes the inode's own copy, if it is still there.
Unlink(n) ==
    LET o  == dent[n]
        k  == core[o]
        nm == [name EXCEPT ![n] = @ \ {k}]
    IN  /\ o # NoOid /\ Quiet(n)
        /\ name' = nm
        /\ pend' = WbForget(nm, k)
        /\ dent' = [dent EXCEPT ![n] = NoOid]
        /\ nlo' = [nlo EXCEPT ![o] = IF @ > 0 THEN @ - 1 ELSE 0]
        /\ gone' = IF Links(nm, k) = {} THEN gone \cup {file[k]} ELSE gone
        /\ UNCHANGED <<file, xat, safe, flight, core, lmap, task, job, index,
                       seen, kept, twice, countVars>>

\* The dentry cache gives up a name.
DropDentry(n) ==
    /\ dent[n] # NoOid
    /\ dent' = [dent EXCEPT ![n] = NoOid]
    /\ UNCHANGED <<lowerVars, queueVars, core, nlo, lmap, task, job, index,
                   ghostVars, countVars>>

EvictMap(k) == MapRemove(k)

\* smoothfs_evict_inode: an inode nobody uses leaves core, and with it its
\* link count and its movement state.  An iget that knows its OID holds no
\* reference to it before iget_locked.
Evict(o) ==
    /\ core[o] # NoKey /\ \A n \in Names : dent[n] # o
    /\ lmap' \in EvictMap(core[o])
    /\ core' = [core EXCEPT ![o] = NoKey]
    /\ nlo' = [nlo EXCEPT ![o] = 0]
    /\ job' = IF job.oid = o THEN [job EXCEPT !.oid = NoOid] ELSE job
    /\ UNCHANGED <<lowerVars, queueVars, dent, task, index, ghostVars,
                   countVars>>

-----------------------------------------------------------------------------
(* Movement as the names and identities see it (module Cutover has the     *)
(* writes, module Mover the control plane).  job.oid is the inode in which *)
(* the movement state is; an eviction forgets it.                          *)

\* smoothfs_can_move lets the plan pass and the worker copies to the same
\* name on the destination tier.
MoveCopy(o, n, k) ==
    LET src == core[o] IN
    /\ job = NoJob /\ moves < NMoves
    /\ src # NoKey /\ src \in name[n] /\ dent[n] = o /\ nlo[o] <= 1
    /\ file[k] = NoFile /\ Tier(k) # Tier(src) /\ OnTierOf(k, n) = {}
    /\ Tier(k) < Tier(src) => Promotions
    /\ moves' = moves + 1
    /\ name' = [name EXCEPT ![n] = @ \cup {k}]
    /\ file' = [file EXCEPT ![k] = file[src]]
    /\ job' = [pc |-> "copy", oid |-> o, name |-> n, src |-> src, dst |-> k]
    /\ UNCHANGED <<xat, safe, queueVars, coreVars, task, index, ghostVars,
                   minted, made, crashes>>

\* Faulty variant of CutoverMap: the source's entry stays in the map.
SourceStays(src, dst, o) == {MapInsert(lmap, dst, o)}

\* The source's number may be reused at once, so its entry goes first.
CutoverMap(src, dst, o) == {MapInsert(m, dst, o) : m \in MapRemove(src)}

\* smoothfs_movement_cutover finds the inode still in the movement, the copy
\* at the inode's path, and no other identity on it.  The path is that of the
\* newest dentry, or the recorded one; a link made during the movement has no
\* copy as long as its dentry lives.
MoveCutover ==
    /\ job.pc = "copy" /\ job.oid # NoOid /\ core[job.oid] = job.src
    /\ job.dst \in name[job.name] /\ xat[job.dst] \in {NoOid, job.oid}
    /\ dent[job.name] = job.oid \/ file[job.src] \notin gone
    /\ \A n \in Names : dent[n] = job.oid => n = job.name
    /\ xat' = [xat EXCEPT ![job.dst] = job.oid]
    /\ safe' = safe \cup {job.dst}
    /\ lmap' \in CutoverMap(job.src, job.dst, job.oid)
    /\ core' = [core EXCEPT ![job.oid] = job.dst]
    /\ job' = [job EXCEPT !.pc = "switched"]
    /\ UNCHANGED <<name, file, queueVars, nlo, dent, task, index, ghostVars,
                   countVars>>

\* The copy, a check or the cutover fails: the worker removes its copy.
MoveAbort ==
    /\ job.pc = "copy"
    /\ name' = [name EXCEPT ![job.name] = @ \ OnTierOf(job.dst, job.name)]
    /\ job' = NoJob
    /\ UNCHANGED <<file, xat, safe, queueVars, coreVars, task, index,
                   ghostVars, countVars>>

\* The worker removes the source by its path and acknowledges.
MoveCleanup ==
    /\ job.pc = "switched"
    /\ name' = [name EXCEPT ![job.name] = @ \ OnTierOf(job.src, job.name)]
    /\ job' = NoJob
    /\ UNCHANGED <<file, xat, safe, queueVars, coreVars, task, index,
                   ghostVars, countVars>>

\* An out-of-band mover copies a file with its identity, removes the source
\* and owes a poke of forget_lower.
OutOfBandMove(n, k) ==
    LET src == Found(n) IN
    /\ job = NoJob /\ moves < NMoves
    /\ Cardinality(name[n]) = 1 /\ xat[src] # NoOid
    /\ Links(name, src) = {n}
    /\ file[k] = NoFile /\ Tier(k) # Tier(src)
    /\ moves' = moves + 1
    /\ name' = [name EXCEPT ![n] = {k}]
    /\ file' = [file EXCEPT ![k] = file[src]]
    /\ xat' = [xat EXCEPT ![k] = xat[src]]
    /\ safe' = safe \cup {k}
    /\ job' = [pc |-> "poke", oid |-> NoOid, src |-> src]
    /\ UNCHANGED <<queueVars, coreVars, task, index, ghostVars, minted, made,
                   crashes>>

\* forget_lower: the inode cached for the old number is pointed at the copy
\* its name has on another tier; one without name or copy is left to Evict.
ForgetLower ==
    LET k == job.src IN
    /\ job.pc = "poke"
    /\ job' = NoJob
    /\ \/ /\ \A i \in DOMAIN lmap[k], n \in Names :
                 dent[n] = lmap[k][i] => name[n] = OnTierOf(k, n)
          /\ UNCHANGED <<core, lmap>>
       \/ \E i \in DOMAIN lmap[k], n \in Names :
             LET o == lmap[k][i]
                 new == CHOOSE j \in name[n] \ OnTierOf(k, n) : TRUE
             IN  /\ dent[n] = o /\ name[n] # OnTierOf(k, n)
                 /\ IF Tier(core[o]) # Tier(k)
                    THEN lmap' \in MapRemove(k) /\ UNCHANGED core
                    ELSE /\ lmap' \in CutoverMap(k, new, o)
                         /\ core' = [core EXCEPT ![o] = new]
    /\ UNCHANGED <<lowerVars, queueVars, nlo, dent, task, index, ghostVars,
                   countVars>>

-----------------------------------------------------------------------------
(* Durability, mount and the path index.                                   *)

SyncQueue == pend

\* smoothfs_sync_fs drains the OID queue, then syncs the lower filesystems.
SyncFs ==
    /\ flight = <<>>
    /\ xat' = Flushed(SyncQueue)
    /\ pend' = SelectSeq(pend, LAMBDA e : ~Contains(SyncQueue, e))
    /\ safe' = {k \in Keys : xat'[k] # NoOid}
    /\ kept' = {f \in Files : seen[f] # {}}
    /\ UNCHANGED <<name, file, flight, coreVars, task, job, index, seen, gone,
                   twice, countVars>>

NoCore == [o \in Oids |-> NoKey]
NoMap  == [k \in Keys |-> <<>>]
NoDent == [n \in Names |-> NoOid]

\* What tierd's recovery leaves of an interrupted movement (module Mover).
Recovered ==
    IF job.pc \in {"copy", "switched"}
    THEN [name EXCEPT ![job.name] =
             @ \ OnTierOf(IF job.pc = "copy" THEN job.dst ELSE job.src,
                          job.name)]
    ELSE name

\* Everything in memory is gone and the index, if written, is read.
Mounted ==
    /\ crashes < NCrashes /\ crashes' = crashes + 1
    /\ name' = Recovered
    /\ pend' = <<>> /\ flight' = <<>>
    /\ core' = NoCore /\ nlo' = [o \in Oids |-> 0]
    /\ dent' = NoDent /\ lmap' = NoMap
    /\ task' = [t \in Tasks |-> NoTask] /\ job' = NoJob
    /\ index' = [index EXCEPT !.state = IF @ = "absent" THEN @ ELSE "loaded"]
    /\ UNCHANGED <<file, gone, kept, twice, minted, made, moves>>

\* A crash loses the queue and any xattr that was not synced.  The files
\* whose identity no sync acknowledged may come back under another one.
Crash ==
    /\ Mounted
    /\ \E lost \in SUBSET (Keys \ safe) :
          xat' = [k \in Keys |-> IF k \in lost THEN NoOid ELSE xat[k]]
    /\ seen' = [f \in Files |-> IF f \in kept THEN seen[f] ELSE {}]
    /\ UNCHANGED safe

\* An unmount runs the worker once more (smoothfs_oid_wb_destroy).
Remount ==
    /\ Mounted
    /\ \A t \in Tasks : Idle(t)
    /\ xat' = Flushed(flight \o pend)
    /\ safe' = {k \in Keys : xat'[k] # NoOid}
    /\ UNCHANGED seen

\* The background rebuild reads, or mints and writes, the OID of one file.
ScanNode(n, k) ==
    LET o == IF xat[k] = NoOid THEN minted + 1 ELSE xat[k] IN
    /\ index.state = "absent" /\ k \in name[n] /\ o \in Oids
    /\ minted' = IF xat[k] = NoOid THEN minted + 1 ELSE minted
    /\ xat' = [xat EXCEPT ![k] = o]
    /\ index' = [index EXCEPT !.at[o] = IF @ = {} THEN {<<n, Tier(k)>>} ELSE @]
    /\ UNCHANGED <<name, file, safe, queueVars, coreVars, task, job,
                   ghostVars, made, crashes, moves>>

\* The scan is over and the index is written.
IndexWritten ==
    /\ index.state = "absent" /\ index' = [index EXCEPT !.state = "written"]
    /\ UNCHANGED <<lowerVars, queueVars, coreVars, task, job, ghostVars,
                   countVars>>

\* A handle of an OID that is not in core goes through the index: whatever is
\* at the recorded path is taken for the file (smoothfs_resolve_oid).
ResolveHandle(t, o) ==
    /\ Idle(t) /\ index.state = "loaded" /\ core[o] = NoKey
    /\ \E at \in index.at[o], k \in Keys :
          /\ k \in name[at[1]] /\ Tier(k) = at[2]
          /\ task' = [task EXCEPT ![t] = Started(NoName, k, o, FALSE)]
    /\ UNCHANGED <<lowerVars, queueVars, coreVars, job, index, ghostVars,
                   countVars>>

-----------------------------------------------------------------------------
\* The lower filesystems are empty, or hold one file, under one name or more,
\* whose OID was lost in a crash before the first flush.
Init ==
    /\ \E k \in Keys, ns \in SUBSET Names :
          /\ name = [n \in Names |-> IF n \in ns THEN {k} ELSE {}]
          /\ file = [j \in Keys |-> IF ns # {} /\ j = k THEN 1 ELSE NoFile]
          /\ made = IF ns = {} THEN 0 ELSE 1
    /\ xat = [k \in Keys |-> NoOid] /\ safe = {} /\ pend = <<>> /\ flight = <<>>
    /\ core = NoCore /\ nlo = [o \in Oids |-> 0]
    /\ dent = NoDent /\ lmap = NoMap
    /\ task = [t \in Tasks |-> NoTask] /\ job = NoJob
    /\ index = [state |-> "absent", at |-> [o \in Oids |-> {}]]
    /\ seen = [f \in Files |-> {}] /\ gone = {} /\ kept = {}
    /\ twice = {}
    /\ minted = 0 /\ crashes = 0 /\ moves = 0

Iget(t) ==
    \/ IgetProbe(t) \/ IgetRead(t) \/ IgetPeek(t)
    \/ IgetDrained(t) \/ IgetMint(t) \/ IgetLocked(t)

Move ==
    \/ \E o \in Oids, n \in Names, k \in Keys : MoveCopy(o, n, k)
    \/ MoveCutover \/ MoveAbort \/ MoveCleanup

OutOfBand ==
    \/ \E n \in Names, k \in Keys : name[n] # {} /\ OutOfBandMove(n, k)
    \/ ForgetLower

Base ==
    \/ \E t \in Tasks : Iget(t)
    \/ \E t \in Tasks, n \in Names : Lookup(t, n)
    \/ \E t \in Tasks, n \in Names, k \in Keys : Create(t, n, k)
    \/ \E n \in Names : Unlink(n) \/ DropDentry(n)
    \/ \E o \in Oids : Evict(o)
    \/ \E k \in Keys : LowerFree(k)
    \/ WbSplice \/ WbWrite \/ SyncFs \/ Crash \/ Remount

Linking == \E n, m \in Names : Link(n, m)

\* The contract's rule for hard links: a hard-linked file is not moved, and no
\* link is made to a file in movement.
Pinned == \A k \in Keys : Cardinality(Links(name, k)) <= 1

Next ==
    \/ Base \/ OutOfBand
    \/ job.pc \in {"none", "poke"} /\ Linking
    \/ (job = NoJob => Pinned) /\ Move
Spec == Init /\ [][Next]_vars

\* The code as it is: nlink_observed is all that keeps the two apart.
NextBoth == Base \/ Linking \/ Move
SpecBoth == Init /\ [][NextBoth]_vars

\* With the background scan, and handles of files that are not in core.
NextIndex ==
    \/ Base \/ IndexWritten
    \/ \E n \in Names, k \in Keys : ScanNode(n, k)
    \/ \E t \in Tasks, o \in Oids : ResolveHandle(t, o)
SpecIndex == Init /\ [][NextIndex]_vars

\* With inodes taken outside the lock of their name.
NextRace == Base \/ \E t \in Tasks, k \in Keys : GetParent(t, k)
SpecRace == Init /\ [][NextRace]_vars

-----------------------------------------------------------------------------
\* Types.  A dentry pins its inode, and nlink_observed exceeds the number of
\* names only where a file has two inodes and a name counted up in the one was
\* counted down in the other.
TypeOK ==
    /\ name \in [Names -> SUBSET Keys]
    /\ file \in [Keys -> Files \cup {NoFile}]
    /\ xat \in [Keys -> Oids \cup {NoOid}]
    /\ core \in [Oids -> Keys \cup {NoKey}]
    /\ nlo \in [Oids -> 0 .. MaxObserved]
    /\ twice = {} => \A o \in Oids : nlo[o] <= Cardinality(Names)
    /\ dent \in [Names -> Oids \cup {NoOid}]
    /\ \A n \in Names : dent[n] # NoOid => core[dent[n]] # NoKey
    /\ seen \in [Files -> SUBSET Oids]
    /\ twice \subseteq Files

\* A file keeps its identity.  However evictions, cold lookups, the deferred
\* xattr writes, unlinks of one of its names, movements, remounts and, once a
\* syncfs has returned, crashes follow each other, smoothfs_iget hands a file
\* out under the OID it was first handed out under.  Two igets that both find
\* a file without OID, for two of its names, both mint one: smoothfs_iget holds
\* nothing between the look at the queue and the mint.  That file is excepted.
IdentityStable == \A f \in Files \ twice : Cardinality(seen[f]) <= 1

\* An identity stands for one file, although the lower filesystem gives the
\* inode number of a removed or moved file to the next one: smoothfs_iget
\* never hands two files out under one OID.
IdentityUnique ==
    \A f, g \in Files : f # g => seen[f] \cap seen[g] = {}

\* lower_ino_map follows the inodes through evictions, cutovers and
\* forget_lower: every entry names an inode in core that stands on the
\* entry's lower inode, and every inode in core has its entry.  A number that
\* is reused therefore never has an entry left from its former file.  Where
\* two igets have minted for one file the number has two entries, and the
\* first eviction may remove the other inode's.
CacheCurrent ==
    \/ twice # {}
    \/ /\ \A k \in Keys : \A i \in DOMAIN lmap[k] : core[lmap[k][i]] = k
       /\ \A o \in Oids : core[o] # NoKey => Contains(lmap[core[o]], o)

\* The names of a hard-linked file stay on one lower inode: smoothfs_can_move
\* refuses a file with more than one link.
HardlinksTogether ==
    job = NoJob =>
        \A n, m \in Names :
            (name[n] # {} /\ name[m] # {} /\ file[Found(n)] = file[Found(m)])
                => Found(n) = Found(m)

\* The mover never removes a file the user has not: a file that was created
\* and whose last link was not removed has a name.
NoFileLost ==
    \A f \in 1 .. made :
        f \in gone \/ \E k \in Keys : file[k] = f /\ Links(name, k) # {}

\* Before the cutover no inode stands on the mover's copy.
CopyInvisible == job.pc = "copy" => \A o \in Oids : core[o] # job.dst

\* A handle leads to no file that is known under another identity.
HandleTruthful ==
    \A t \in Tasks :
        ~Idle(t) => \/ task[t].want = NoOid
                    \/ seen[file[task[t].key]] \subseteq {task[t].want}

\* At most one inode in core stands on a lower inode.
OneInode ==
    \A o, p \in Oids : core[o] # NoKey /\ core[o] = core[p] => o = p
=============================================================================
