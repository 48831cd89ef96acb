----------------------------- MODULE FlatNames -----------------------------
(***************************************************************************)
(* What the namespace of a tiered pool promises: one tree, as if there     *)
(* were a single filesystem underneath.  A directory either exists or does *)
(* not, a file name refers to at most one object, and every operation      *)
(* takes effect on exactly the names its caller gave.  One promise of a    *)
(* single tree is not made: a rmdir may return success for a directory     *)
(* that is not empty, and then keeps it (RmDirKept).                       *)
(***************************************************************************)
EXTENDS FiniteSets, SequencesExt

CONSTANTS
    DirPaths,       \* the directory names, as sequences of components
    FilePaths,      \* the file names
    Objects,        \* identities of regular files
    NoObject        \* what an unused name refers to

VARIABLES
    dirs,           \* the directories that exist
    files,          \* which object each file name refers to
    answered        \* the directory whose rmdir returned success last, and
                    \* the root <<>> as soon as anything else happened

flatVars == <<dirs, files, answered>>

Placeable(p) == Len(p) = 1 \/ Front(p) \in dirs

Empty(d) ==
    /\ \A p \in FilePaths : files[p] # NoObject => ~IsStrictPrefix(d, p)
    /\ \A e \in dirs : ~IsStrictPrefix(d, e)

Init ==
    /\ dirs = {}
    /\ files = [p \in FilePaths |-> NoObject]
    /\ answered = <<>>

Create(p) ==
    /\ Placeable(p)
    /\ files[p] = NoObject
    /\ \E o \in Objects \ Range(files) : files' = [files EXCEPT ![p] = o]
    /\ UNCHANGED dirs

Unlink(p) ==
    /\ files[p] # NoObject
    /\ files' = [files EXCEPT ![p] = NoObject]
    /\ UNCHANGED dirs

Rename(p, q) ==
    /\ files[p] # NoObject
    /\ Placeable(q)
    /\ files' = [files EXCEPT ![q] = files[p], ![p] = NoObject]
    /\ UNCHANGED dirs

\* The directory d becomes e, with everything below it; an empty e gives way.
RenameDir(d, e) ==
    LET Below(x) == d \o SubSeq(x, Len(e) + 1, Len(x))
    IN  /\ d \in dirs /\ ~IsPrefix(d, e)
        /\ Placeable(e) /\ Empty(e)
        /\ dirs' = {x \in dirs : ~IsPrefix(d, x) /\ ~IsPrefix(e, x)} \cup
                   {x \in DirPaths : IsPrefix(e, x) /\ Below(x) \in dirs}
        /\ files' = [p \in FilePaths |->
                        IF IsPrefix(d, p) THEN NoObject
                        ELSE IF IsPrefix(e, p) THEN
                             IF Below(p) \in FilePaths THEN files[Below(p)]
                                                       ELSE NoObject
                        ELSE files[p]]

MkDir(d) ==
    /\ Placeable(d)
    /\ d \notin dirs
    /\ dirs' = dirs \cup {d}
    /\ UNCHANGED files

RmDir(d) ==
    /\ d \in dirs
    /\ Empty(d)
    /\ dirs' = dirs \ {d}
    /\ answered' = d
    /\ UNCHANGED files

\* Success although the directory is not empty; it stays, with all it has.
RmDirKept(d) ==
    /\ d \in dirs
    /\ ~Empty(d)
    /\ answered' = d
    /\ UNCHANGED <<dirs, files>>

Change ==
    \/ \E p \in FilePaths : Create(p) \/ Unlink(p)
    \/ \E p, q \in FilePaths : p # q /\ Rename(p, q)
    \/ \E d, e \in DirPaths : RenameDir(d, e)
    \/ \E d \in DirPaths : MkDir(d)
    \/ UNCHANGED <<dirs, files>>

Next ==
    \/ Change /\ answered' = <<>>
    \/ \E d \in DirPaths : RmDir(d) \/ RmDirKept(d)

Spec == Init /\ [][Next]_flatVars
=============================================================================
