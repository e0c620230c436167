---------------------------- MODULE DTrashManager ----------------------------
(***************************************************************************)
(* DTrashManager (src/filesystem/dtrashmanager_linux.cpp): moveToTrash     *)
(* picks a name that is free among the trashed files, writes a file of     *)
(* information under that name, then moves the file; each step may find    *)
(* the directory changed by another program since, or fail.                *)
(*                                                                         *)
(* A name that is taken is replaced by its MD5 sum, again and again: names *)
(* are pairs of a file name and the number of times it was hashed.  A      *)
(* directory with files in it is moved file by file; directories in it are *)
(* left out.                                                               *)
(***************************************************************************)
EXTENDS Integers, Functions

CONSTANTS
    Movers,   \* threads and programs that call moveToTrash
    Sources,  \* files and directories outside the trash
    FileName, \* FileName[s]: name of s in its directory
    Within,   \* Within[s]: files in the directory s, {} for files
    MaxHash,  \* bound: times a name is hashed
    None

DTrashManagerAssumption ==
    /\ DOMAIN FileName = Sources /\ DOMAIN Within = Sources
    /\ MaxHash \in Nat /\ None \notin Sources

VARIABLES
    outside, \* outside[s]: parts of s that are where they were
    files,   \* files[n]: parts in the trash under the name n
    info,    \* info[n]: the source the information n names, None if it is empty
    mover,   \* mover[m]: [at, source, name]
    cleaner, \* what cleanTrash does
    trashed, \* history: trashed[s]: the name under which a move of s succeeded
    raced    \* history: names that two chose, or that were cleaned meanwhile

trashVars == <<outside, files, info, mover, cleaner, trashed, raced>>

Self     == "self"
Parts(s) == {Self} \cup Within[s]
Of(s, parts) == {s} \X parts
Names    == {FileName[s] : s \in Sources} \X (0 .. MaxHash)

Idle == [at |-> "idle", source |-> None, name |-> None]
At(m, where) == mover' = [mover EXCEPT ![m].at = where]
Return(m)    == mover' = [mover EXCEPT ![m] = Idle]
Extend(f, n, x) == [k \in DOMAIN f \cup {n} |-> IF k = n THEN x ELSE f[k]]
Drop(f, ns)     == Restrict(f, DOMAIN f \ ns)

-----------------------------------------------------------------------------
(* getNotExistsFileName looks at the files only.                           *)
GetNotExistsFileName(s) ==
    LET free == {k \in 0 .. MaxHash : <<FileName[s], k>> \notin DOMAIN files}
    IN <<FileName[s], CHOOSE k \in free : \A l \in free : k <= l>>

MoveToTrash(m, s) ==
    LET n == GetNotExistsFileName(s) IN
    /\ mover[m].at = "idle"
    /\ Self \in outside[s]
    /\ \A o \in Movers : mover[o].source # s
    /\ \E k \in 0 .. MaxHash : <<FileName[s], k>> \notin DOMAIN files
    /\ mover' = [mover EXCEPT ![m] = [at |-> "info", source |-> s, name |-> n]]
    /\ raced' = IF \E o \in Movers : mover[o].name = n THEN raced \cup {n} ELSE raced
    /\ UNCHANGED <<outside, files, info, cleaner, trashed>>

(* An information file that exists is taken for this one's.                *)
CheckInfoSlip(m) ==
    /\ mover[m].at = "info"
    /\ At(m, IF mover[m].name \in DOMAIN info THEN "move" ELSE "write")
    /\ UNCHANGED <<outside, files, info, cleaner, trashed, raced>>

(* writeTrashInfo: the test, then the writing, which may fail and then     *)
(* leave an empty file.                                                    *)
CheckInfo(m) ==
    /\ mover[m].at = "info"
    /\ IF mover[m].name \in DOMAIN info THEN Return(m) ELSE At(m, "write")
    /\ UNCHANGED <<outside, files, info, cleaner, trashed, raced>>

WriteInfo(m) ==
    /\ mover[m].at = "write"
    /\ \/ info' = Extend(info, mover[m].name, mover[m].source) /\ At(m, "move")
       \/ info' = Extend(info, mover[m].name, None) /\ Return(m)
       \/ UNCHANGED info /\ Return(m)
    /\ UNCHANGED <<outside, files, cleaner, trashed, raced>>

(* renameFile of a file or of an empty directory: QFile::rename does not   *)
(* overwrite.                                                              *)
RenameWhole(m) ==
    LET s == mover[m].source
        n == mover[m].name
    IN
    /\ mover[m].at = "move"
    /\ outside[s] = {Self}
    /\ Return(m)
    /\ \/ /\ n \notin DOMAIN files
          /\ files' = Extend(files, n, Of(s, {Self}))
          /\ outside' = [outside EXCEPT ![s] = {}]
          /\ trashed' = [trashed EXCEPT ![s] = n]
       \/ UNCHANGED <<files, outside, trashed>>
    /\ UNCHANGED <<info, cleaner, raced>>

(* renameFile of one file in a directory: its directory is made in the     *)
(* trash first.                                                            *)
RenameWithin(m, f) ==
    LET s == mover[m].source
        n == mover[m].name
        there == IF n \in DOMAIN files THEN files[n] ELSE {}
    IN
    /\ mover[m].at \in {"move", "within"}
    /\ f \in outside[s] \ {Self}
    /\ \/ /\ files' = Extend(files, n, there \cup Of(s, {f}))
          /\ outside' = [outside EXCEPT ![s] = @ \ {f}]
          /\ At(m, "within")
       \/ /\ files' = Extend(files, n, there)
          /\ Return(m)
          /\ UNCHANGED outside
    /\ UNCHANGED <<info, cleaner, trashed, raced>>

(* Then the directory itself is renamed to the one that was made: that     *)
(* fails.                                                                  *)
RenameEmptied(m) ==
    /\ mover[m].at = "within"
    /\ outside[mover[m].source] = {Self}
    /\ Return(m)
    /\ UNCHANGED <<outside, files, info, cleaner, trashed, raced>>

-----------------------------------------------------------------------------
(* cleanTrash: the information first, then, if all of it could be removed, *)
(* the files.  What is being moved meanwhile may be missed or caught.      *)
Busy == {mover[m].name : m \in Movers} \ {None}

CleanInfo ==
    /\ cleaner = "idle"
    /\ \E kept \in SUBSET DOMAIN info :
          /\ info' = Restrict(info, kept)
          /\ cleaner' = IF kept = {} THEN "files" ELSE "idle"
    /\ raced' = Busy
    /\ trashed' = [s \in Sources |-> None]
    /\ UNCHANGED <<outside, files, mover>>

CleanFiles ==
    /\ cleaner = "files"
    /\ \E kept \in SUBSET DOMAIN files : files' = Restrict(files, kept)
    /\ cleaner' = "idle"
    /\ raced' = Busy
    /\ trashed' = [s \in Sources |-> None]
    /\ UNCHANGED <<outside, info, mover>>

TrashIsEmpty == info = <<>>

(* A file manager restores a file, or the user makes another in its place. *)
Remake(s) ==
    /\ outside[s] = {} /\ trashed[s] = None
    /\ \A m \in Movers : mover[m].source # s
    /\ \A n \in DOMAIN files : s \notin {x[1] : x \in files[n]}
    /\ outside' = [outside EXCEPT ![s] = Parts(s)]
    /\ UNCHANGED <<files, info, mover, cleaner, trashed, raced>>

-----------------------------------------------------------------------------
Init ==
    /\ outside = [s \in Sources |-> Parts(s)]
    /\ files = <<>> /\ info = <<>>
    /\ mover = [m \in Movers |-> Idle]
    /\ cleaner = "idle"
    /\ trashed = [s \in Sources |-> None]
    /\ raced = {}

Next ==
    \/ \E m \in Movers :
          \/ \E s \in Sources : MoveToTrash(m, s)
          \/ CheckInfo(m) \/ WriteInfo(m)
          \/ RenameWhole(m) \/ RenameEmptied(m)
          \/ \E f \in UNION {Within[s] : s \in Sources} : RenameWithin(m, f)
    \/ CleanInfo \/ CleanFiles
    \/ \E s \in Sources : Remake(s)

Spec == Init /\ [][Next]_trashVars

-----------------------------------------------------------------------------
(* Names are names; parts are outside or in the trash, never both.         *)
TypeOK ==
    /\ DOMAIN files \subseteq Names /\ DOMAIN info \subseteq Names
    /\ \A s \in Sources :
          /\ outside[s] \subseteq Parts(s)
          /\ \A n \in DOMAIN files : files[n] \cap Of(s, outside[s]) = {}

(* What moveToTrash said it has moved (dtrashmanager_linux.cpp:177) is in  *)
(* the trash alone under its name, and the information of that name is     *)
(* about it, until the trash is cleaned; whatever other moves of the same  *)
(* file name fail half way, and when, unless two chose one name at the     *)
(* same time or the trash was cleaned meanwhile.                           *)
TrashedIsDescribed ==
    \A s \in Sources :
        trashed[s] # None /\ trashed[s] \notin raced =>
            /\ trashed[s] \in DOMAIN files /\ files[trashed[s]] = Of(s, {Self})
            /\ trashed[s] \in DOMAIN info /\ info[trashed[s]] = s

(* trashIsEmpty tells whether the trash is empty (its comment,             *)
(* docs/filesystem/dtrashmanager.zh_CN.dox:12).                            *)
EmptyIsEmpty == cleaner = "idle" /\ TrashIsEmpty => files = <<>>
=============================================================================
