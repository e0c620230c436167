--------------------------------- MODULE DCap ---------------------------------
(***************************************************************************)
(* DCapManager, DCapFile, DCapDir and the file engine of the same rules    *)
(* (src/filesystem/dcapmanager.cpp, dcapfile.cpp, dcapfsfileengine.cpp):   *)
(* one list of paths, and file operations that are done only at paths the  *)
(* list covers.  A path is a sequence of characters with Sep between       *)
(* names, for what covers what is decided by leading characters.           *)
(***************************************************************************)
EXTENDS Integers, Sequences

CONSTANTS
    CapPaths,  \* absolute paths, closed under Parent, without a trailing Sep
    Sep,
    Writable,  \* sequence: what the platform names writable, with repetitions
    MaxPaths   \* bound: paths on the list

DCapAssumption ==
    /\ Writable \in Seq(CapPaths) /\ MaxPaths \in Nat /\ Len(Writable) <= MaxPaths
    /\ CapPaths \subseteq Seq(UNION {{p[i] : i \in DOMAIN p} : p \in CapPaths})
    /\ \A p \in CapPaths : p # <<>> /\ p[Len(p)] # Sep

VARIABLES
    pathList, \* DCapManagerPrivate::pathList
    tree,     \* tree[p]: "none", "file" or "dir"
    dir,      \* the path of a DCapDir as QDir has it
    filePath, \* the path the DCapDir checks
    granted   \* history: paths appended, unless by the characters of a sibling the list
              \* seemed to cover them, and neither removed nor below one that was

capVars == <<pathList, tree, dir, filePath, granted>>

-----------------------------------------------------------------------------
StartsWith(p, d) == Len(d) <= Len(p) /\ SubSeq(p, 1, Len(d)) = d
CleanPath(p) == IF Len(p) >= 2 /\ p[Len(p)] = Sep THEN SubSeq(p, 1, Len(p) - 1) ELSE p
IsSubFileOf(p, d) == StartsWith(CleanPath(p), d)
CanReadWrite(p) == p # <<>> /\ \E i \in DOMAIN pathList : IsSubFileOf(p, pathList[i])

Parent(p) ==
    LET seps == {i \in DOMAIN p : p[i] = Sep}
    IN IF seps = {} THEN <<>>
       ELSE SubSeq(p, 1, (CHOOSE i \in seps : \A j \in seps : j <= i) - 1)
IsAbove(q, p) == q = p \/ StartsWith(p, Append(q, Sep))
Above(p) == {q \in CapPaths : IsAbove(q, p)}
Inside(p) == {q \in CapPaths : Parent(q) = p /\ q # p /\ tree[q] # "none"}
IsDir(p)  == p \in CapPaths => tree[p] = "dir"
Put(ps, what) == tree' = [q \in CapPaths |-> IF q \in ps THEN what ELSE tree[q]]
OnlyTree == UNCHANGED <<pathList, dir, filePath, granted>>

-----------------------------------------------------------------------------
(* appendPath, appendPaths: nothing if the list covers the path.  /a seems *)
(* to cover its sibling /ab as well.                                       *)
Mistaken(p) ==
    /\ \E i \in DOMAIN pathList : IsSubFileOf(p, pathList[i])
    /\ \A i \in DOMAIN pathList : ~IsAbove(pathList[i], p)
Granted(p) == IF Mistaken(p) THEN granted ELSE granted \cup {p}

AppendPathSlip(path) ==
    LET p == CleanPath(path) IN
    /\ Len(pathList) < MaxPaths
    /\ pathList' = IF \E i \in DOMAIN pathList : IsSubFileOf(pathList[i], p)
                   THEN pathList ELSE Append(pathList, p)
    /\ granted' = Granted(p)
    /\ UNCHANGED <<tree, dir, filePath>>

AppendPath(path) ==
    LET p == CleanPath(path) IN
    /\ Len(pathList) < MaxPaths
    /\ pathList' = IF \E i \in DOMAIN pathList : IsSubFileOf(p, pathList[i])
                   THEN pathList ELSE Append(pathList, p)
    /\ granted' = Granted(p)
    /\ UNCHANGED <<tree, dir, filePath>>

(* removePath, removePaths: one entry that is exactly the path.            *)
RemovePath(path) ==
    LET p  == CleanPath(path)
        at == {i \in DOMAIN pathList : pathList[i] = p}
    IN /\ pathList' = IF at = {} THEN pathList
                      ELSE LET k == CHOOSE i \in at : \A j \in at : i <= j
                           IN SubSeq(pathList, 1, k - 1) \o SubSeq(pathList, k + 1, Len(pathList))
       /\ granted' = IF at = {} THEN granted ELSE {q \in granted : ~IsAbove(p, q)}
       /\ UNCHANGED <<tree, dir, filePath>>

-----------------------------------------------------------------------------
(* DCapFile::open for writing, and resize, which needs the file.           *)
Open(p) ==
    /\ CanReadWrite(p) /\ tree[p] = "none" /\ IsDir(Parent(p))
    /\ Put({p}, "file") /\ OnlyTree

(* remove and moveToTrash, static or not.                                  *)
RemoveFile(p) ==
    /\ CanReadWrite(p) /\ tree[p] = "file"
    /\ Put({p}, "none") /\ OnlyTree

(* The static functions check both names, the others the new one only.     *)
Named(p, q, static) == CanReadWrite(q) /\ (static => CanReadWrite(p))
Rename(p, q, static) ==
    /\ Named(p, q, static)
    /\ tree[p] = "file" /\ tree[q] = "none" /\ IsDir(Parent(q))
    /\ tree' = [tree EXCEPT ![p] = "none", ![q] = "file"]
    /\ OnlyTree
(* link and copy.                                                          *)
CopyTo(p, q, static) ==
    /\ Named(p, q, static)
    /\ tree[p] = "file" /\ tree[q] = "none" /\ IsDir(Parent(q))
    /\ Put({q}, "file") /\ OnlyTree
(* The engine's renameOverwrite replaces a file.                           *)
RenameOverwrite(p, q) ==
    /\ CanReadWrite(q) /\ p # q
    /\ tree[p] = "file" /\ tree[q] = "file"
    /\ Put({p}, "none") /\ OnlyTree

-----------------------------------------------------------------------------
SetPath(p) == dir' = p /\ filePath' = p /\ UNCHANGED <<pathList, tree, granted>>

(* The new path is kept if the engine finds it there and permitted.        *)
Cd(p) ==
    /\ tree[p] = "dir" /\ CanReadWrite(p)
    /\ dir' = p /\ filePath' = p
    /\ UNCHANGED <<pathList, tree, granted>>
(* QDir::cdUp is not redefined: the path that is checked stays.            *)
CdUp ==
    /\ dir # <<>> /\ IsDir(Parent(dir)) /\ Parent(dir) \in CapPaths
    /\ dir' = Parent(dir)
    /\ UNCHANGED <<pathList, tree, filePath, granted>>

MkDir(p) ==
    /\ p \in Inside(dir) \cup {q \in CapPaths : Parent(q) = dir}
    /\ CanReadWrite(p) /\ tree[p] = "none" /\ IsDir(dir)
    /\ Put({p}, "dir") /\ OnlyTree
MkPath(p) ==
    /\ StartsWith(p, dir) /\ CanReadWrite(p)
    /\ \A q \in Above(p) : tree[q] # "file"
    /\ Put(Above(p), "dir") /\ OnlyTree
RmDir(p) ==
    /\ Parent(p) = dir /\ CanReadWrite(p)
    /\ tree[p] = "dir" /\ Inside(p) = {}
    /\ Put({p}, "none") /\ OnlyTree
(* rmpath goes up as long as a directory is left empty.                    *)
RmPath(p) ==
    /\ StartsWith(p, dir) /\ CanReadWrite(p)
    /\ tree[p] = "dir" /\ Inside(p) = {}
    /\ Put({q \in Above(p) : \A r \in CapPaths : tree[r] # "none" /\ q \in Above(r)
                                                  => r \in Above(p)}, "none")
    /\ OnlyTree
(* DCapDir::rename asks for the old name, then renames as DCapFile does.   *)
DirRename(p, q) ==
    /\ Parent(p) = dir /\ Parent(q) = dir /\ CanReadWrite(p)
    /\ Rename(p, q, FALSE)

-----------------------------------------------------------------------------
Init ==
    /\ pathList = Writable
    /\ tree = [p \in CapPaths |-> "none"]
    /\ \E p \in CapPaths : dir = p /\ filePath = p
    /\ granted = {}

Written == CapPaths \cup {Append(p, Sep) : p \in CapPaths}

Next ==
    \/ \E p \in Written : AppendPath(p) \/ RemovePath(p)
    \/ \E p \in CapPaths : Open(p) \/ RemoveFile(p)
    \/ \E p, q \in CapPaths : RenameOverwrite(p, q) \/ DirRename(p, q)
    \/ \E p, q \in CapPaths, static \in BOOLEAN : Rename(p, q, static) \/ CopyTo(p, q, static)
    \/ \E p \in CapPaths : SetPath(p) \/ Cd(p) \/ MkDir(p) \/ MkPath(p) \/ RmDir(p) \/ RmPath(p)
    \/ CdUp

Spec == Init /\ [][Next]_capVars

-----------------------------------------------------------------------------
TypeOK ==
    /\ pathList \in Seq(CapPaths) /\ Len(pathList) <= MaxPaths
    /\ tree \in [CapPaths -> {"none", "file", "dir"}]
    /\ dir \in CapPaths /\ filePath \in CapPaths
    /\ granted \subseteq CapPaths

(* A path that was appended can be used until it, or a path really above   *)
(* it, is taken from the list: appendPath, which adds nothing to a list    *)
(* that covers the path, must not rely on paths that other removals take   *)
(* away.  It does if only a sibling with a shorter name of the same        *)
(* characters is on the list (dcapmanager.cpp:19): such paths are lost     *)
(* with the sibling, and nothing is said of them.                          *)
UsableUntilRemoved == \A p \in granted : CanReadWrite(p)
=============================================================================
