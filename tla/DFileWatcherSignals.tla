------------------------- MODULE DFileWatcherSignals -------------------------
(***************************************************************************)
(* What a DFileWatcher tells (src/filesystem): the kernel queues inotify   *)
(* events, DFileSystemWatcher reads all that are queued as one batch,      *)
(* drops some and pairs the halves of renames, and every DFileWatcher      *)
(* picks what concerns its path.  Listeners keep a picture: they apply     *)
(* what they are told and read a file again when they hear of it.          *)
(*                                                                         *)
(* Watched are some directories and one file.  IN_ATTRIB and               *)
(* IN_CLOSE_WRITE are told as IN_MODIFY is and are left out, and so are    *)
(* paths that share a file and the removal of watched directories.         *)
(***************************************************************************)
EXTENDS Integers, Sequences, SequencesExt, Functions

CONSTANTS
    Dirs,       \* watched directories
    Names,      \* names of files
    File,       \* the watched file: a directory and a name
    MaxChanges, \* bound: changes of the file system
    None

DFileWatcherSignalsAssumption ==
    File \in Dirs \X Names /\ MaxChanges \in Nat /\ None \notin Dirs \cup Names

VARIABLES
    disk,     \* disk[d]: the files in d by name, [inode, version] each
    queue,    \* events not read yet
    half,     \* a rename of which only IN_MOVED_FROM is queued
    fileWd,   \* the inode watched as File, None if none is
    picture,  \* picture[d]: names and versions as told by the watcher of d
    filePicture, \* the same of the watcher of File
    changesMade,
    unheard,  \* history: names of which the last event was dropped as a double
    blind     \* history: the watcher of File cannot know

signalVars == <<disk, queue, half, fileWd, picture, filePicture, changesMade, unheard, blind>>

Entry(d, n) == disk[d][n]
There(d, n) == n \in DOMAIN disk[d]
Without(f, n) == Restrict(f, DOMAIN f \ {n})

Event(wd, mask, name, cookie) == [wd |-> wd, mask |-> mask, name |-> name, cookie |-> cookie]
InDir(d, mask, n) == Event(d, mask, n, 0)
OnFile(inode, mask) == IF inode = fileWd THEN <<Event(inode, mask, None, 0)>> ELSE <<>>

-----------------------------------------------------------------------------
(* Other programs; events are queued with the change.                      *)
Change == half = None /\ changesMade < MaxChanges /\ changesMade' = changesMade + 1
Quiet  == UNCHANGED <<fileWd, picture, filePicture, unheard, blind>>

Create(d, n) ==
    /\ Change /\ ~There(d, n)
    /\ disk' = [disk EXCEPT ![d] = (n :> [inode |-> changesMade', version |-> changesMade']) @@ @]
    /\ queue' = Append(queue, InDir(d, "CREATE", n))
    /\ UNCHANGED half /\ Quiet

Delete(d, n) ==
    /\ Change /\ There(d, n)
    /\ disk' = [disk EXCEPT ![d] = Without(@, n)]
    /\ queue' = Append(queue, InDir(d, "DELETE", n)) \o OnFile(Entry(d, n).inode, "DELETE_SELF")
    /\ UNCHANGED half /\ Quiet

Modify(d, n) ==
    /\ Change /\ There(d, n)
    /\ disk' = [disk EXCEPT ![d][n].version = changesMade']
    /\ queue' = Append(queue, InDir(d, "MODIFY", n)) \o OnFile(Entry(d, n).inode, "MODIFY")
    /\ UNCHANGED half /\ Quiet

(* A rename within and between watched directories, of which the two       *)
(* halves are queued one after the other; in from, and out to, elsewhere.  *)
RenameTo(d, n, to, toName) ==
    /\ Change /\ There(d, n)
    /\ <<d, n>> # <<to, toName>>
    /\ LET moved  == Entry(d, n)
           before == [disk EXCEPT ![d] = Without(@, n)]
           over   == IF There(to, toName) THEN OnFile(Entry(to, toName).inode, "DELETE_SELF") ELSE <<>>
       IN /\ disk' = [before EXCEPT ![to] = (toName :> moved) @@ @]
          /\ half' = <<Event(to, "MOVED_TO", toName, changesMade')>>
                     \o OnFile(moved.inode, "MOVE_SELF") \o over
    /\ queue' = Append(queue, Event(d, "MOVED_FROM", n, changesMade'))
    /\ Quiet

RenameEnds ==
    /\ half # None
    /\ queue' = queue \o half
    /\ half' = None
    /\ UNCHANGED <<disk, changesMade>> /\ Quiet

MoveOut(d, n) ==
    /\ Change /\ There(d, n)
    /\ disk' = [disk EXCEPT ![d] = Without(@, n)]
    /\ queue' = Append(queue, Event(d, "MOVED_FROM", n, changesMade'))
                \o OnFile(Entry(d, n).inode, "MOVE_SELF")
    /\ UNCHANGED half /\ Quiet

MoveIn(d, n) ==
    /\ Change
    /\ disk' = [disk EXCEPT ![d] = (n :> [inode |-> changesMade', version |-> changesMade']) @@ @]
    /\ queue' = Append(queue, Event(d, "MOVED_TO", n, changesMade'))
                \o (IF There(d, n) THEN OnFile(Entry(d, n).inode, "DELETE_SELF") ELSE <<>>)
    /\ UNCHANGED half /\ Quiet

-----------------------------------------------------------------------------
(* _q_readFromInotify, first loop.  Events of unknown watches go; so does  *)
(* the second half of a rename whose first is there, and what equals an    *)
(* event before it.                                                        *)
Known == SelectSeq(queue, LAMBDA e : e.wd \in Dirs \cup {fileWd})

HasMoveFrom(k, i) == \E j \in 1 .. i - 1 :
    k[j].mask = "MOVED_FROM" /\ k[j].cookie = k[i].cookie

IsDouble(k, i) == \E j \in 1 .. i - 1 : k[j] = k[i]

Dropped(k, i) == (k[i].mask = "MOVED_TO" /\ HasMoveFrom(k, i)) \/ IsDouble(k, i)

EventList(k) ==
    LET kept == SelectSeq([i \in DOMAIN k |-> i], LAMBDA i : ~Dropped(k, i))
    IN [i \in DOMAIN kept |-> k[kept[i]]]

(* cookieToFilePath and cookieToFileName                                   *)
Targets(k, cookies) ==
    {<<e.wd, e.name>> : e \in {x \in Range(k) : x.mask = "MOVED_TO" /\ x.cookie \in cookies}}
AllTargets(k) == Targets(k, {e.cookie : e \in Range(k)})

(* The second loop: what an event is told as.  self: the name is empty.    *)
Signal(sig, from, to, self) == [sig |-> sig, from |-> from, to |-> to, self |-> self]
Nowhere == <<None, None>>

SignalsOf(k, e) ==
    LET at == IF e.wd \in Dirs THEN <<e.wd, e.name>> ELSE File
        self == e.wd \notin Dirs
    IN CASE e.mask = "CREATE" -> <<Signal("created", at, Nowhere, self)>>
         [] e.mask = "DELETE" -> <<Signal("deleted", at, Nowhere, self)>>
         [] e.mask = "MODIFY" -> <<Signal("modified", at, Nowhere, self)>>
         [] e.mask = "DELETE_SELF" -> <<Signal("deleted", at, Nowhere, self)>>
         [] e.mask = "MOVE_SELF" -> IF File \in AllTargets(k) THEN <<>>
                                    ELSE <<Signal("deleted", at, Nowhere, self)>>
         [] e.mask = "MOVED_TO" -> <<Signal("moved", Nowhere, at, self)>>
         [] e.mask = "MOVED_FROM" ->
              <<Signal("moved", at,
                       IF Targets(k, {e.cookie}) = {} THEN Nowhere
                       ELSE CHOOSE t \in Targets(k, {e.cookie}) : TRUE, self)>>

-----------------------------------------------------------------------------
(* A listener reads again what it hears of.                                *)
Seen(p, d, n) == (n :> IF There(d, n) THEN Entry(d, n).version ELSE 0) @@ p

HandleFileMovedSlip(d, p, s) ==
    IF s.from[1] = d THEN Without(p, s.from[2])
    ELSE IF s.to[1] = d THEN Seen(p, d, s.to[2])
    ELSE p

(* _q_handleFileMoved of the watcher of d: fileMoved, fileDeleted or       *)
(* subfileCreated.                                                         *)
HandleFileMoved(d, p, s) ==
    IF s.from[1] = d /\ s.to[1] = d THEN Seen(Without(p, s.from[2]), d, s.to[2])
    ELSE IF s.from[1] = d THEN Without(p, s.from[2])
    ELSE IF s.to[1] = d THEN Seen(p, d, s.to[2])
    ELSE p

(* onFileCreated, onFileDeleted, onFileModified and onFileMoved of the     *)
(* watcher of d; what is told of the file itself is not about d.           *)
DirTold(d, p, s) ==
    IF s.self THEN p
    ELSE IF s.sig = "moved" THEN HandleFileMoved(d, p, s)
    ELSE IF s.from[1] # d THEN p
    ELSE CASE s.sig = "created"  -> Seen(p, d, s.from[2])
           [] s.sig = "deleted"  -> Without(p, s.from[2])
           [] s.sig = "modified" -> IF s.from[2] \in DOMAIN p THEN Seen(p, d, s.from[2]) ELSE p

(* The same of the watcher of File: a rename to its path is none of its    *)
(* cases.                                                                  *)
FileTold(p, s) ==
    IF s.from # File THEN p
    ELSE CASE s.sig = "created" -> Seen(p, File[1], File[2])
           [] s.sig \in {"deleted", "moved"} -> Without(p, File[2])
           [] s.sig = "modified" -> IF p = <<>> THEN p ELSE Seen(p, File[1], File[2])

-----------------------------------------------------------------------------
(* Which names the batch is about, and the last event of each.             *)
Structural(e) == e.wd \in Dirs /\ e.mask # "MODIFY"
About(k, d, n) == {i \in DOMAIN k : Structural(k[i]) /\ k[i].wd = d /\ k[i].name = n}
LastOf(k, d, n) == CHOOSE i \in About(k, d, n) : \A j \in About(k, d, n) : j <= i

(* A known path that was created is removed and added again.               *)
FileCreated  == InDir(File[1], "CREATE", File[2])
Recreated(k) == fileWd # None /\ FileCreated \in Range(k)
Rewatched == IF There(File[1], File[2]) THEN Entry(File[1], File[2]).inode ELSE None

(* The watcher of File is wrong after a rename to its path, when the last  *)
(* of its events was dropped, when its file was gone before it could be    *)
(* watched, and when an event of the earlier file follows.                 *)
Misled(k) ==
    \/ File \in AllTargets(k)
    \/ Recreated(k) /\ Rewatched = None
    \/ \E i, j \in DOMAIN k : i < j /\ k[i] = FileCreated /\ k[j].wd \notin Dirs
    \/ fileWd = None

ReadFromInotify ==
    LET k       == Known
        list    == EventList(k)
        signals == FlattenSeq([i \in DOMAIN list |-> SignalsOf(k, list[i])])
    IN
    /\ queue # <<>>
    /\ queue' = <<>>
    /\ picture' = [d \in Dirs |-> FoldLeft(LAMBDA p, s : DirTold(d, p, s), picture[d], signals)]
    /\ filePicture' = FoldLeft(FileTold, filePicture, signals)
    /\ fileWd' = IF Recreated(k) THEN Rewatched ELSE fileWd
    /\ unheard' = {x \in Dirs \X Names :
                     IF About(k, x[1], x[2]) # {} THEN IsDouble(k, LastOf(k, x[1], x[2]))
                     ELSE x \in unheard}
    /\ blind' = (blind \/ Misled(k) \/ File \in unheard')
    /\ UNCHANGED <<disk, half, changesMade>>

-----------------------------------------------------------------------------
Start(d, n) == n :> [inode |-> 0, version |-> 0]

Init ==
    /\ disk = [d \in Dirs |-> IF d = File[1] THEN Start(d, File[2]) ELSE <<>>]
    /\ queue = <<>> /\ half = None
    /\ fileWd = 0
    /\ picture = [d \in Dirs |-> [n \in DOMAIN disk[d] |-> 0]]
    /\ filePicture = [n \in {File[2]} |-> 0]
    /\ changesMade = 0
    /\ unheard = {} /\ blind = FALSE

Next ==
    \/ \E d \in Dirs, n \in Names :
          \/ Create(d, n) \/ Delete(d, n) \/ Modify(d, n)
          \/ MoveOut(d, n) \/ MoveIn(d, n)
          \/ \E to \in Dirs, toName \in Names : RenameTo(d, n, to, toName)
    \/ RenameEnds
    \/ ReadFromInotify

Spec == Init /\ [][Next]_signalVars

-----------------------------------------------------------------------------
(* Pictures name files; the kernel's half of a rename is complete.         *)
TypeOK ==
    /\ \A d \in Dirs : DOMAIN disk[d] \subseteq Names /\ DOMAIN picture[d] \subseteq Names
    /\ DOMAIN filePicture \subseteq {File[2]}
    /\ half # None => Head(half).mask = "MOVED_TO"

Content(d) == [n \in DOMAIN disk[d] |-> disk[d][n].version]
Heard(f, d) == Restrict(f, {n \in DOMAIN f : <<d, n>> \notin unheard})

(* When no event is left a listener of a directory knows its files and     *)
(* their content, and one of a file that file (_q_readFromInotify and the  *)
(* handlers of DFileWatcher): in whatever batches the events come, with    *)
(* renames inside, between, into and out of watched directories, split or  *)
(* not; except for a name of which the last event was dropped because it   *)
(* equals an earlier one of the batch.                                     *)
PictureSettles ==
    queue = <<>> /\ half = None =>
        /\ \A d \in Dirs : Heard(picture[d], d) = Heard(Content(d), d)
        /\ ~blind => filePicture = Restrict(Content(File[1]), DOMAIN Content(File[1]) \cap {File[2]})
=============================================================================
