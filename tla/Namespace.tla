----------------------------- MODULE Namespace -----------------------------
(***************************************************************************)
(* The merged namespace of a pool in tier mode.  Every tier is a lower     *)
(* filesystem with a tree of its own, and smoothfs shows their union.  The *)
(* module models lookup, create, mkdir, mknod and symlink, unlink, rmdir,  *)
(* link and rename, with the two caches those operations read: the dentry  *)
(* cache, whose positive entries are trusted, and the map from a relative  *)
(* path to the in-core inode that was last placed there.                   *)
(*                                                                         *)
(* A lower object is a pair <<tier, number>>.  The smoothfs inode of an    *)
(* object is identified with it (module Identity is about why it may be).  *)
(* An in-core inode that has neither a recorded path nor a pin cannot be   *)
(* told from one that is not in core, so `rel' and `pin' are all there is. *)
(***************************************************************************)
EXTENDS Integers, FiniteSets, SequencesExt

CONSTANTS
    NTiers,         \* number of tiers, 0 the fastest
    DirPaths,       \* the directory names, as sequences of components
    FilePaths,      \* the names of regular files, devices and symlinks
    HighWater,      \* create_policy is the high-water one
    Nodes           \* bound: the lower objects, pairs <<tier, number>>

ASSUME NamespaceAssumption ==
    /\ NTiers \in Nat \ {0}
    /\ IsFiniteSet(Nodes) /\ \A n \in Nodes : n[1] \in 0 .. NTiers - 1
    /\ DirPaths \cap FilePaths = {}
    /\ \A p \in DirPaths \cup FilePaths :
          Len(p) > 0 /\ (Len(p) > 1 => Front(p) \in DirPaths)

VARIABLES
    low,            \* low[t][p]: the object at path p of tier t's tree
    dc,             \* dc[p]: the inode of the positive dentry at p
    rel,            \* rel[n]: si->rel_path, {} when unset
    pin,            \* the inodes with replay_pinned set
    mask,           \* the tiers metadata may be read from
    creating,       \* the create in progress, its parent locked
    answered        \* history: the directory of the rmdir that returned 0 in
                    \* the last step, Root after any other step

vars == <<low, dc, rel, pin, mask, creating, answered>>

Tiers  == 0 .. NTiers - 1
Paths  == DirPaths \cup FilePaths
Root   == <<>>
NoNode == <<>>
NoCreate == [on |-> Root, rel |-> Root]

Parent(p) == Front(p)
Children(q) == {p \in Paths : Parent(p) = q}

-----------------------------------------------------------------------------
(* The lower trees.                                                        *)

\* The names object n has on its tier; none means i_nlink = 0.
Linked(lw, n) == {p \in Paths : lw[n[1]][p] = n}

\* A tree in which what was at or below `from' is at or below `to'.
MoveTree(f, from, to) ==
    [x \in Paths |->
        IF IsPrefix(to, x)
        THEN LET y == from \o SubSeq(x, Len(to) + 1, Len(x))
             IN  IF y \in Paths THEN f[y] ELSE NoNode
        ELSE IF IsPrefix(from, x) THEN NoNode ELSE f[x]]

\* A lower directory that vfs_rmdir accepts.
LowerEmpty(lw, t, d) == \A p \in Children(d) : lw[t][p] = NoNode

\* Where the lower dentry behind the dentry at p is: at p itself, or, when
\* the object was reached by a path it no longer has, wherever it is now.
LowerOf(p) ==
    IF p = Root THEN {Root}
    ELSE IF low[dc[p][1]][p] = dc[p] THEN {p} ELSE Linked(low, dc[p])

\* The tier of the directory's own lower directory.
TierOf(q) == IF q = Root THEN 0 ELSE dc[q][1]

Resolved(q) == IF q = Root THEN TRUE ELSE dc[q] # NoNode

Busy(q) == creating # NoCreate /\ Parent(creating.on) = q

\* The objects some tree, cache or map refers to.
Used ==
    UNION {{low[t][p] : p \in Paths} : t \in Tiers} \cup {dc[p] : p \in Paths}
        \cup {n \in Nodes : rel[n] # {}} \cup pin

\* The components of path p that tier t lacks, p included.
Missing(t, p) ==
    {x \in {SubSeq(p, 1, i) : i \in 1 .. Len(p)} : low[t][x] = NoNode}

\* What tier t has left for new objects.
Left(t) == LET used == Used IN {n \in Nodes : n[1] = t /\ n \notin used}

HasRoom(made) ==
    \A t \in Tiers : Cardinality(made[t]) <= Cardinality(Left(t))

\* The objects made when the chain made[t] is made on every tier t.
Fresh(made) ==
    [t \in Tiers |-> CHOOSE f \in Injection(made[t], Left(t)) : TRUE]

\* The trees with the new objects.
Grown(new) ==
    [t \in Tiers |-> [x \in Paths |-> IF x \in DOMAIN new[t] THEN new[t][x]
                                                             ELSE low[t][x]]]

\* The inodes smoothfs_materialize_parent_on_tier makes for the directories
\* it creates: each is recorded under its path and pinned.
Copies(new) ==
    UNION {{new[t][x] : x \in DOMAIN new[t] \cap DirPaths} : t \in Tiers}

RelGrown(new) ==
    [n \in Nodes |->
        rel[n] \cup {x \in DOMAIN new[n[1]] : new[n[1]][x] = n}]

NothingMade == [t \in Tiers |-> {}]

-----------------------------------------------------------------------------
(* smoothfs_lookup.                                                        *)

\* Step 1: the name in the parent's own lower directory.
Direct(p) ==
    LET at == {Append(s, Last(p)) : s \in LowerOf(Parent(p))} \cap Paths
    IN  {low[TierOf(Parent(p))][x] : x \in at} \ {NoNode}

\* The inodes the path map holds under p.  Keys are not unique: a directory
\* copied to several tiers has an inode per copy, all recorded under one path.
Keyed(p) == {n \in Nodes : p \in rel[n]}

\* smoothfs_lookup_rel_across_tiers: the first active tier that has the path.
AcrossTiers(p) ==
    LET on == {t \in mask : low[t][p] # NoNode}
    IN  IF on = {} THEN [how |-> "none", node |-> NoNode]
                   ELSE [how |-> "scan", node |-> low[Min(on)][p]]

\* What a lookup of p may answer.  Which of several inodes under one key the
\* hash table returns depends on its bucket order; one whose lower has lost
\* its last link is passed over in favour of the scan.
Answers(p) ==
    IF Direct(p) # {} THEN {[how |-> "lower", node |-> n] : n \in Direct(p)}
    ELSE IF Keyed(p) = {} THEN {AcrossTiers(p)}
    ELSE {IF Linked(low, n) # {} THEN [how |-> "map", node |-> n]
                                 ELSE AcrossTiers(p) : n \in Keyed(p)}

\* The name is unused as far as the VFS can tell.  Negative dentries are never
\* trusted, so a negative answer is always a fresh one.
Unused(p) ==
    /\ Resolved(Parent(p)) /\ dc[p] = NoNode
    /\ \E a \in Answers(p) : a.how = "none"

\* d_splice_alias: a directory has one dentry, which follows the inode.
Splice(p, n) ==
    LET old == {q \in DirPaths : dc[q] = n}
    IN  IF p \in FilePaths \/ old = {} THEN [dc EXCEPT ![p] = n]
        ELSE MoveTree(dc, CHOOSE q \in old : TRUE, p)

Lookup(p) ==
    /\ Resolved(Parent(p)) /\ dc[p] = NoNode /\ ~Busy(Parent(p))
    /\ \E a \in Answers(p) :
          /\ a.how # "none"
          /\ dc' = Splice(p, a.node)
          /\ rel' = IF a.how = "scan" THEN [rel EXCEPT ![a.node] = {p}] ELSE rel
          /\ pin' = IF a.how = "map" THEN pin \ {a.node} ELSE pin
    /\ UNCHANGED <<low, mask, creating>>

-----------------------------------------------------------------------------
(* smoothfs_create, smoothfs_mkdir, smoothfs_mknod and smoothfs_symlink.   *)

LastTier == NTiers - 1

\* smoothfs_select_create_tier, given the tiers near their ENOSPC mark.  The
\* high-water policy compares free space, so any tier may be its choice; the
\* default takes the fastest with room, and the slowest however full it is.
SelectCreateTier(full) ==
    IF HighWater THEN Tiers ELSE {Min((Tiers \ full) \cup {LastTier})}

\* Where the new entry goes on tier t: below the parent's own lower directory
\* on the parent's tier, at the path computed on entry elsewhere.
EntryOn(t, on, path) ==
    IF t = TierOf(Parent(on))
    THEN {Append(s, Last(on)) : s \in LowerOf(Parent(on))} \cap Paths
    ELSE {path}

\* The loop over the tiers, from `start' on.  `full' are the tiers passed over:
\* near their ENOSPC mark, or out of space at the first step.  On the ones in
\* `spoilt' the create fails with ENOSPC after the parent chain has been made,
\* which is not taken back.  An entry that is already there, or a lower parent
\* that is gone, ends the loop.
Place(on, path, full, start) ==
    \E spoilt \in SUBSET (Tiers \ full) :
        LET turn(t) == (t - start + NTiers) % NTiers
            open == Tiers \ (full \cup spoilt)
            land == CHOOSE t \in open : \A u \in open : turn(t) <= turn(u)
            tried == {t \in spoilt \ {TierOf(Parent(on))} :
                          open = {} \/ turn(t) < turn(land)}
            spills == [t \in Tiers |->
                          IF t \in tried THEN Missing(t, Parent(path)) ELSE {}]
            entry == IF open = {} THEN {}
                     ELSE {x \in EntryOn(land, on, path) : low[land][x] = NoNode}
        IN  \/ /\ entry = {}
               /\ HasRoom(spills)
               /\ LET new == Fresh(spills)
                  IN  /\ low' = Grown(new)
                      /\ rel' = RelGrown(new)
                      /\ pin' = pin \cup Copies(new)
               /\ UNCHANGED dc
            \/ \E x \in entry :
                  LET made == [spills EXCEPT ![land] = Missing(land, x)]
                      new == Fresh(made)
                      n == new[land][x]
                  IN  /\ HasRoom(made)
                      /\ low' = Grown(new)
                      /\ rel' = [RelGrown(new) EXCEPT ![n] = {path}]
                      /\ pin' = pin \cup (Copies(new) \ {n})
                      /\ dc' = [dc EXCEPT ![on] = n]

\* smoothfs_create_inner.  Only a rename of an ancestor can tell that it takes
\* several steps: everything else that involves the name needs the parent's
\* inode lock.
Create(p) ==
    /\ Unused(p) /\ ~Busy(Parent(p))
    /\ \E full \in SUBSET Tiers :
       \E start \in SelectCreateTier(full) : Place(p, p, full, start)
    /\ UNCHANGED <<mask, creating>>

\* The same in two steps, for the runs with such renames: the relative paths
\* are computed before any tier is touched.
CreateBegin(p) ==
    /\ creating = NoCreate
    /\ Unused(p)
    /\ creating' = [on |-> p, rel |-> p]
    /\ UNCHANGED <<low, dc, rel, pin, mask>>

CreateEnd ==
    /\ creating # NoCreate
    /\ \E full \in SUBSET Tiers :
       \E start \in SelectCreateTier(full) :
          Place(creating.on, creating.rel, full, start)
    /\ creating' = NoCreate
    /\ UNCHANGED mask

\* smoothfs_mkdir_inner: the same loop, always from the fastest tier.
Mkdir(d) ==
    /\ Unused(d) /\ ~Busy(Parent(d))
    /\ \E full \in SUBSET Tiers : Place(d, d, full, 0)
    /\ UNCHANGED <<mask, creating>>

\* smoothfs_mknod_inner and smoothfs_symlink_inner work on the parent's own
\* lower directory only and record no path.
Mknod(p) ==
    LET t == TierOf(Parent(p))
    IN  /\ Unused(p) /\ ~Busy(Parent(p))
        /\ \E x \in EntryOn(t, p, p) :
              LET made == [NothingMade EXCEPT ![t] = {x}]
                  n == Fresh(made)[t][x]
              IN  /\ low[t][x] = NoNode
                  /\ HasRoom(made)
                  /\ low' = [low EXCEPT ![t][x] = n]
                  /\ dc' = [dc EXCEPT ![p] = n]
        /\ UNCHANGED <<rel, pin, mask, creating>>

-----------------------------------------------------------------------------
(* smoothfs_unlink, smoothfs_rmdir and smoothfs_link.                      *)

\* smoothfs_forget_placement without the purge.
Forget(n) ==
    /\ rel' = [rel EXCEPT ![n] = {}]
    /\ pin' = pin \ {n}

\* Faulty variant of Removable: the name is unlinked whatever it refers to.
RemovableByName(lw, n, at) == at

\* smoothfs_compat_start_removing: the entries, among those the held lower
\* dentry of n names, that still refer to n; none is -ENOENT, a success.
Removable(lw, n, at) == {x \in at : lw[n[1]][x] = n}

Without(lw, t, gone) ==
    [lw EXCEPT ![t] = [x \in Paths |-> IF x \in gone THEN NoNode ELSE lw[t][x]]]

OneOf(S) == IF S = {} THEN {} ELSE {CHOOSE x \in S : TRUE}

\* smoothfs_unlink_inner.  The placement is forgotten with the last link.
Unlink(p) ==
    LET n == dc[p]
    IN  /\ n # NoNode /\ ~Busy(Parent(p))
        /\ low' = Without(low, n[1], Removable(low, n, OneOf(LowerOf(p))))
        /\ dc' = [dc EXCEPT ![p] = NoNode]
        /\ IF Cardinality(Linked(low, n)) <= 1 THEN Forget(n)
                                               ELSE UNCHANGED <<rel, pin>>
        /\ UNCHANGED <<mask, creating>>

\* The path smoothfs_rmdir_inner purges: the recorded one, else the dentry's.
PurgePath(d) == IF rel[dc[d]] = {} THEN d ELSE CHOOSE x \in rel[dc[d]] : TRUE

\* smoothfs_rmdir_inner: the directory's own lower, the only one that has to be
\* empty, then every active tier's empty copy of the recorded path.
Rmdir(d) ==
    LET n == dc[d]
        own == Without(low, n[1], Removable(low, n, LowerOf(d)))
        k == PurgePath(d)
    IN  /\ n # NoNode /\ ~Busy(Parent(d)) /\ ~Busy(d)
        /\ \A s \in LowerOf(d) : LowerEmpty(low, n[1], s)
        /\ low' = [t \in Tiers |->
                      IF t \in mask /\ LowerEmpty(own, t, k)
                      THEN [own[t] EXCEPT ![k] = NoNode] ELSE own[t]]
        /\ dc' = [x \in Paths |-> IF IsPrefix(d, x) THEN NoNode ELSE dc[x]]
        /\ Forget(n)
        /\ answered' = d
        /\ UNCHANGED <<mask, creating>>

\* smoothfs_link_inner: -EXDEV unless the new parent's own lower directory is
\* on the object's tier.
Link(p, q) ==
    LET n == dc[p]
    IN  /\ n # NoNode
        /\ Unused(q) /\ ~Busy(Parent(q))
        /\ TierOf(Parent(q)) = n[1]
        /\ \E x \in EntryOn(n[1], q, q) :
              /\ low[n[1]][x] = NoNode
              /\ low' = [low EXCEPT ![n[1]][x] = n]
        /\ dc' = [dc EXCEPT ![q] = n]
        /\ UNCHANGED <<rel, pin, mask, creating>>

-----------------------------------------------------------------------------
(* smoothfs_rename, without flags.  RENAME_NOREPLACE only adds failures.   *)

\* Faulty variant of DropStale: the target's copy is left on its tier.
KeepStale(lw, stale, at) == lw

\* smoothfs_drop_stale_rename_target: the displaced target's lower entry goes,
\* if it still is the target's.
DropStale(lw, stale, at) ==
    IF stale = NoNode THEN lw
    ELSE Without(lw, stale[1], Removable(lw, stale, at))

\* smoothfs_rename_spill_tiers: the copies of a directory on the other active
\* tiers, where the new parent exists and nothing is in the way.
MoveCopies(lw, p, q) ==
    [t \in Tiers |->
        IF /\ t \in mask /\ lw[t][p] # NoNode
           /\ Parent(q) = Root \/ lw[t][Parent(q)] # NoNode
           /\ lw[t][q] = NoNode \/ LowerEmpty(lw, t, q)
        THEN MoveTree(lw[t], p, q) ELSE lw[t]]

\* Faulty variants of Rekey: the old key stays beside the new one, or is the
\* only one.
RekeyBoth(r, n, q, stale) ==
    [m \in Nodes |-> IF m = n THEN r[m] \cup {q} ELSE r[m]]
RekeyNone(r, n, q, stale) ==
    [m \in Nodes |-> IF m = stale THEN {} ELSE r[m]]

\* The moved inode is recorded under its new path, the displaced one nowhere.
\* The inodes of what is below a moved directory, and of its copies on other
\* tiers, keep the path they had.
Rekey(r, n, q, stale) ==
    [m \in Nodes |-> IF m = n THEN {q} ELSE IF m = stale THEN {} ELSE r[m]]

\* What the rename of p to q does once it is decided that the source's lower
\* entry s becomes x on its own tier, after the chains in `made' were made,
\* and that the target inode `stale' is left behind on another tier.
RenameTo(p, q, s, x, made, stale) ==
    LET n == dc[p]
        t == n[1]
        new == Fresh(made)
        moved == [Grown(new) EXCEPT ![t] = MoveTree(@, s, x)]
        after == IF p \in DirPaths THEN MoveCopies(moved, p, q)
                 ELSE DropStale(moved, stale,
                                IF stale = NoNode THEN {} ELSE LowerOf(q))
    IN  /\ HasRoom(made)
        /\ low' = after
        /\ dc' = MoveTree(dc, p, q)
        /\ rel' = Rekey(RelGrown(new), n, q, stale)
        /\ pin' = (pin \cup Copies(new)) \ {stale}
        /\ creating' = IF creating # NoCreate /\ IsPrefix(p, creating.on)
                       THEN [creating EXCEPT !.on =
                                q \o SubSeq(@, Len(p) + 1, Len(@))]
                       ELSE creating
        /\ UNCHANGED mask

\* Neither name is in a directory with a create in progress, the target is
\* not such a directory, and the VFS does not see one inode under two names.
RenameReady(p, q) ==
    /\ p # q /\ ~IsPrefix(p, q)
    /\ dc[p] # NoNode /\ LowerOf(p) # {}
    /\ dc[q] # NoNode \/ Unused(q)
    /\ dc[q] # dc[p]
    /\ ~Busy(Parent(p)) /\ ~Busy(Parent(q)) /\ ~Busy(q)

\* vfs_rename replaces a directory only by a directory, and only an empty one.
Replaceable(q, t, x) ==
    q \in DirPaths /\ low[t][x] # NoNode => LowerEmpty(low, t, x)

\* Source and target in one directory: the source's tier decides.  A target
\* directory on another tier is -EXDEV.
RenameSameDir(p, q) ==
    LET t == dc[p][1]
        m == dc[q]
    IN  /\ RenameReady(p, q)
        /\ Parent(p) = Parent(q)
        /\ q \in DirPaths /\ m # NoNode => m[1] = t
        /\ \E s \in OneOf(LowerOf(p)) :
              LET x == Append(Parent(s), Last(q))
              IN  /\ x \in Paths
                  /\ m # NoNode /\ m[1] = t => x \in LowerOf(q)
                  /\ Replaceable(q, t, x)
                  /\ RenameTo(p, q, s, x, NothingMade,
                              IF m # NoNode /\ m[1] # t THEN m ELSE NoNode)

\* Another directory whose own lower is on another tier than the source: its
\* chain is made on the source's tier, and for a directory on every active
\* tier, where a failure is ignored.  A target directory is -EXDEV.
RenameAcrossTiers(p, q) ==
    LET t == dc[p][1]
        m == dc[q]
        chain(u) == IF Parent(q) = Root THEN {} ELSE Missing(u, Parent(q))
    IN  /\ RenameReady(p, q)
        /\ Parent(p) # Parent(q)
        /\ TierOf(Parent(q)) # t
        /\ q \in DirPaths => m = NoNode
        /\ \E s \in OneOf(LowerOf(p)), failed \in SUBSET (Tiers \ {t}) :
              LET made == [u \in Tiers |->
                              IF \/ u = t
                                 \/ p \in DirPaths /\ u \in mask \ failed
                              THEN chain(u) ELSE {}]
              IN  /\ p \in FilePaths => failed = {}
                  /\ Replaceable(q, t, q)
                  /\ RenameTo(p, q, s, q, made, m)

\* Another directory on the source's tier.  A target on a third tier is -EXDEV.
RenameSameTier(p, q) ==
    LET t == dc[p][1]
        m == dc[q]
    IN  /\ RenameReady(p, q)
        /\ Parent(p) # Parent(q)
        /\ TierOf(Parent(q)) = t
        /\ m # NoNode => m[1] = t
        /\ \E s \in OneOf(LowerOf(p)), w \in OneOf(LowerOf(Parent(q))) :
              LET x == Append(w, Last(q))
              IN  /\ x \in Paths
                  /\ m # NoNode => x \in LowerOf(q)
                  /\ Replaceable(q, t, x)
                  /\ RenameTo(p, q, s, x, NothingMade, NoNode)

Rename(p, q) ==
    RenameSameDir(p, q) \/ RenameAcrossTiers(p, q) \/ RenameSameTier(p, q)

-----------------------------------------------------------------------------
(* The caches, the gate and the mount.                                     *)

\* A dentry without children in use is dropped under memory pressure.
DropDentry(p) ==
    /\ dc[p] # NoNode
    /\ \A c \in Children(p) : dc[c] = NoNode
    /\ ~Busy(p)
    /\ dc' = [dc EXCEPT ![p] = NoNode]
    /\ UNCHANGED <<low, rel, pin, mask, creating>>

\* smoothfs_evict_inode of an inode no dentry and no pin holds.
Evict(n) ==
    /\ rel[n] # {} /\ n \notin pin
    /\ \A p \in Paths : dc[p] # n
    /\ rel' = [rel EXCEPT ![n] = {}]
    /\ UNCHANGED <<low, dc, pin, mask, creating>>

\* Unmount and mount: the trees stay, the caches and the pins go.
Remount ==
    /\ creating = NoCreate
    /\ dc' = [p \in Paths |-> NoNode]
    /\ rel' = [n \in Nodes |-> {}]
    /\ pin' = {}
    /\ UNCHANGED <<low, mask, creating>>

\* A store to metadata_active_tier_mask.  The fastest tier is always active.
SetMask(S) ==
    /\ 0 \in S
    /\ mask' = S
    /\ UNCHANGED <<low, dc, rel, pin, creating>>

\* smoothfs_build_dir_cache: the directory's own lower, then every other
\* active tier by path, each name once.
Listed(q) ==
    {p \in Children(q) : Direct(p) # {} \/ \E t \in mask : low[t][p] # NoNode}

-----------------------------------------------------------------------------
Init ==
    /\ low = [t \in Tiers |-> [p \in Paths |-> NoNode]]
    /\ dc = [p \in Paths |-> NoNode]
    /\ rel = [n \in Nodes |-> {}]
    /\ pin = {}
    /\ mask = Tiers
    /\ creating = NoCreate
    /\ answered = Root

\* What is no rmdir, and not an operation that leaves a recorded path behind.
FileStep ==
    \/ \E p \in Paths : Lookup(p) \/ DropDentry(p)
    \/ \E p \in FilePaths : Create(p) \/ Mknod(p) \/ Unlink(p)
    \/ \E d \in DirPaths : Mkdir(d)
    \/ \E p, q \in FilePaths : Rename(p, q)
    \/ \E n \in Nodes : Evict(n)
    \/ Remount

\* Files come, go and move between directories; directories come and go.
NextFiles == \/ FileStep /\ answered' = Root
             \/ \E d \in DirPaths : Rmdir(d)

SpecFiles == Init /\ [][NextFiles]_vars

\* The operations that leave a recorded path behind, and the gate.
NextLinks == \/ NextFiles
             \/ (\E p, q \in FilePaths : Link(p, q)) /\ answered' = Root
NextDirs  == \/ NextFiles
             \/ (\E p, q \in DirPaths : Rename(p, q)) /\ answered' = Root
NextRace  == \/ NextDirs
             \/ (\E p \in FilePaths : CreateBegin(p)) /\ answered' = Root
             \/ CreateEnd /\ answered' = Root
NextGate  == \/ NextFiles
             \/ (\E S \in SUBSET Tiers : SetMask(S)) /\ answered' = Root

SpecLinks == Init /\ [][NextLinks]_vars
SpecDirs  == Init /\ [][NextDirs]_vars
SpecRace  == Init /\ [][NextRace]_vars
SpecGate  == Init /\ [][NextGate]_vars

-----------------------------------------------------------------------------
\* Types.  An inode has at most one recorded path (si->rel_path is replaced,
\* never added to).
TypeOK ==
    /\ low \in [Tiers -> [Paths -> Nodes \cup {NoNode}]]
    /\ dc \in [Paths -> Nodes \cup {NoNode}]
    /\ rel \in [Nodes -> SUBSET Paths]
    /\ \A n \in Nodes : Cardinality(rel[n]) <= 1
    /\ pin \subseteq Nodes
    /\ mask \subseteq Tiers
    /\ creating \in [on : FilePaths \cup {Root}, rel : FilePaths \cup {Root}]
    /\ answered \in DirPaths \cup {Root}

\* What a path walk that has reached p's parent may find at p.
View(p) == IF dc[p] # NoNode THEN {dc[p]} ELSE {a.node : a \in Answers(p)}

\* A name never resolves to an object that is not at that name: neither a
\* trusted dentry nor the path map ever gives the object of a name that was
\* removed or renamed (the dual resolution smoothfs_rename and
\* smoothfs_forget_placement re-key and clear si->rel_path to prevent).
NamesTruthful ==
    \A p \in Paths : Resolved(Parent(p)) =>
        \A n \in View(p) \ {NoNode} : low[n[1]][p] = n

\* Every name readdir lists resolves, and a listed file resolves to the one
\* object any tier has under that name: no phantom entry, no copy shadowed by
\* another tier's, no spilled file lost behind its directory.
NamesComplete ==
    \A p \in Paths : Resolved(Parent(p)) /\ p \in Listed(Parent(p)) =>
        /\ NoNode \notin View(p)
        /\ p \in FilePaths =>
              \A t \in mask : low[t][p] # NoNode => View(p) = {low[t][p]}

\* The union of the trees behaves as one tree: each operation changes the
\* names it was given and no others, whichever tiers they are on; a rmdir that
\* returns 0 has removed every copy of the directory, or some tier has objects
\* below it and all of them are kept.
Flat == INSTANCE FlatNames WITH
    Objects  <- Nodes,
    NoObject <- NoNode,
    dirs     <- {d \in DirPaths : \E t \in Tiers : low[t][d] # NoNode},
    files    <- [p \in FilePaths |->
                    LET on == {t \in Tiers : low[t][p] # NoNode}
                    IN  IF on = {} THEN NoNode ELSE low[Min(on)][p]]

ImplementsFlatNames == Flat!Spec

\* A create makes the file under the name its parent has when it ends.
CreatedAtName ==
    [][creating # NoCreate /\ creating' = NoCreate =>
          \A t \in Tiers, p \in FilePaths :
              low'[t][p] # low[t][p] => p = creating.on]_vars

\* A rmdir succeeds only where no object remains on any lower.
RmdirVerifies ==
    [][\A d \in DirPaths :
          Rmdir(d) => \A t \in Tiers : LowerEmpty(low, t, d)]_vars
=============================================================================
