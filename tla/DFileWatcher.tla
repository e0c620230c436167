---------------------------- MODULE DFileWatcher ----------------------------
(***************************************************************************)
(* Watched files (src/filesystem): DFileWatcherManager hands out one       *)
(* DFileWatcher per path; a started DFileWatcher holds its path and all    *)
(* directories above it in one shared DFileSystemWatcher, which holds an   *)
(* inotify watch for each.  A static count says how many watchers hold a   *)
(* path.  All of it runs in one thread; the file system does not.          *)
(*                                                                         *)
(* Of the events only IN_CREATE changes what is watched, so only it is     *)
(* kept, once for a path as a batch does, in no order.  A path keeps its   *)
(* kind, and no two paths are the same file.                               *)
(***************************************************************************)
EXTENDS Integers, FiniteSets, TLC

CONSTANTS
    Watchers,   \* DFileWatcher objects
    Paths,      \* absolute paths
    Above,      \* Above[p]: the directories above p
    Root,       \* the one path with nothing above it
    Limit,      \* how many watches inotify grants
    Restarts,   \* TRUE: a stopped watcher is restarted while others hold
                \* some of its paths
    None

ASSUME DFileWatcherAssumption ==
    /\ IsFiniteSet(Watchers)
    /\ Above \in [Paths -> SUBSET Paths]
    /\ Root \in Paths
    /\ \A p \in Paths : p \notin Above[p] /\ (p # Root => Root \in Above[p])
    /\ Limit \in Nat
    /\ Restarts \in BOOLEAN
    /\ None \notin Watchers \cup Paths

VARIABLES
    exists,       \* the paths that exist
    live,         \* paths whose file has an inotify watch
    watched,      \* DFileSystemWatcherPrivate::pathToID: watched, or to be
    events,       \* paths with an IN_CREATE queued
    count,        \* DFileWatcherPrivate::filePathToWatcherCount, 0 if missing
    state,        \* state[w]: "none", "alive" or, after deleteLater, "doomed"
    path,         \* path[w]
    list,         \* list[w]: DFileWatcherPrivate::watchFileList
    started,      \* started[w]: DBaseFileWatcherPrivate::started
    watcherOf,    \* DFileWatcherManagerPrivate::watchersMap
    blind         \* history: held paths whose new file could not be noticed

files    == <<exists, events>>
holds    == <<live, watched, count>>
watcher  == <<state, path, list, started>>
vars     == <<exists, live, watched, events, count, state, path, list, started,
              watcherOf, blind>>

Parent(p) == CHOOSE q \in Above[p] : Above[p] = Above[q] \cup {q}

-----------------------------------------------------------------------------
(* parentPathList: p and the directories above it, up to the first that    *)
(* does not exist (QDir::cdUp).                                            *)
PathList(p) ==
    {p} \cup {q \in Above[p] :
                 \A r \in Above[p] : (r = q \/ q \in Above[r]) => r \in exists}

(* What DFileWatcherPrivate::start does for a watcher of p that has l in   *)
(* its list: the paths it goes through, those no other watcher holds, and  *)
(* the one addPath refuses, at which it gives up.                          *)
Missing(p, l) == PathList(p) \ l
Fresh(p, l)   == {q \in Missing(p, l) : count[q] = 0}
Before(q, s)  == {r \in s : q \in Above[r]}

Refused(p, l) ==
    {q \in Fresh(p, l) :
        \/ q \notin exists
        \/ q \in watched
        \/ Cardinality(live) + Cardinality(Before(q, Fresh(p, l))) >= Limit}

Reached(p, l) == {q \in Missing(p, l) : \A r \in Refused(p, l) : r \in Above[q]}

(* DFileWatcherPrivate::stop with l as the list and n as the counts: a     *)
(* path others hold, too, stays in the list.                               *)
Last(l, n) == {q \in l : n[q] <= 1}
Fewer(l, n) == [q \in Paths |->
    IF q \notin l THEN n[q] ELSE IF q \in Last(l, n) THEN 0 ELSE n[q] - 1]

(* removePath for the paths in s: events of their directories are dropped. *)
Unwatch(s, n) ==
    LET dropped == {p \in events \ {Root} : Parent(p) \in s} IN
    /\ live' = live \ s
    /\ watched' = watched \ s
    /\ events' = events \ dropped
    /\ blind' = (blind \cup dropped) \cap {p \in Paths : n[p] > 0}

Stop(w) ==
    /\ list' = [list EXCEPT ![w] = @ \ Last(@, count)]
    /\ count' = Fewer(list[w], count)
    /\ Unwatch(Last(list[w], count), count')
    /\ started' = [started EXCEPT ![w] = FALSE]

(* DBaseFileWatcher::startWatcher for a watcher of p; after a refusal it   *)
(* stops what it had begun.                                                *)
Start(w, p) ==
    LET l     == list[w]
        taken == Reached(p, l)
        more  == [q \in Paths |-> IF q \in taken THEN count[q] + 1 ELSE count[q]] IN
    IF Refused(p, l) = {}
    THEN /\ list' = [list EXCEPT ![w] = l \cup taken]
         /\ count' = more
         /\ watched' = watched \cup Fresh(p, l)
         /\ live' = live \cup Fresh(p, l)
         /\ blind' = blind \ Fresh(p, l)
         /\ started' = [started EXCEPT ![w] = TRUE]
         /\ UNCHANGED events
    ELSE LET all == l \cup taken IN
         /\ list' = [list EXCEPT ![w] = all \ Last(all, more)]
         /\ count' = Fewer(all, more)
         /\ Unwatch(Last(all, more), count')
         /\ started' = [started EXCEPT ![w] = FALSE]

-----------------------------------------------------------------------------
(* DFileWatcherManager::add; what startWatcher returns is ignored.         *)
Add(p, w) ==
    /\ watcherOf[p] = None
    /\ state[w] = "none"
    /\ state' = [state EXCEPT ![w] = "alive"]
    /\ path' = [path EXCEPT ![w] = p]
    /\ watcherOf' = [watcherOf EXCEPT ![p] = w]
    /\ Start(w, p)
    /\ UNCHANGED exists

RemoveSlip(s) ==  \* forgets the watcher and never deletes it
    /\ s # {}
    /\ \A p \in s : watcherOf[p] # None
    /\ state' = [w \in Watchers |->
                    IF \E p \in s : watcherOf[p] = w THEN "none" ELSE state[w]]
    /\ watcherOf' = [p \in Paths |-> IF p \in s THEN None ELSE watcherOf[p]]
    /\ UNCHANGED <<files, holds, path, list, started, blind>>

(* DFileWatcherManager::remove and removeAll: deleted in the event loop.   *)
Remove(s) ==
    /\ s # {}
    /\ \A p \in s : watcherOf[p] # None
    /\ state' = [w \in Watchers |->
                    IF \E p \in s : watcherOf[p] = w THEN "doomed" ELSE state[w]]
    /\ watcherOf' = [p \in Paths |-> IF p \in s THEN None ELSE watcherOf[p]]
    /\ UNCHANGED <<files, holds, path, list, started, blind>>

RemoveOne(p) == Remove({p})
RemoveAll == Remove({p \in Paths : watcherOf[p] # None})

DestroySlip(w) ==  \* does not stop the watcher
    /\ state[w] = "doomed"
    /\ state' = [state EXCEPT ![w] = "none"]
    /\ path' = [path EXCEPT ![w] = None]
    /\ list' = [list EXCEPT ![w] = {}]
    /\ started' = [started EXCEPT ![w] = FALSE]
    /\ UNCHANGED <<files, holds, watcherOf, blind>>

(* DBaseFileWatcher::~DBaseFileWatcher.                                    *)
Destroy(w) ==
    /\ state[w] = "doomed"
    /\ state' = [state EXCEPT ![w] = "none"]
    /\ path' = [path EXCEPT ![w] = None]
    /\ list' = [list EXCEPT ![w] = {}]
    /\ started' = [started EXCEPT ![w] = FALSE]
    /\ IF started[w]
       THEN /\ count' = Fewer(list[w], count)
            /\ Unwatch(Last(list[w], count), count')
       ELSE UNCHANGED <<live, watched, events, count, blind>>
    /\ UNCHANGED <<exists, watcherOf>>

(* DBaseFileWatcher::startWatcher and stopWatcher on a watcher the manager *)
(* returned.                                                               *)
StartWatcher(w) ==
    /\ state[w] = "alive" /\ ~started[w]
    /\ Restarts \/ list[w] = {}
    /\ Start(w, path[w])
    /\ UNCHANGED <<exists, state, path, watcherOf>>

StopWatcher(w) ==
    /\ state[w] = "alive" /\ started[w]
    /\ Stop(w)
    /\ UNCHANGED <<exists, state, path, watcherOf>>

-----------------------------------------------------------------------------
(* The file system.  The inotify watch goes with the file; the directory's *)
(* watch notices the next one of that name.                                *)
Create(p) ==
    /\ p \notin exists
    /\ Above[p] \subseteq exists
    /\ exists' = exists \cup {p}
    /\ IF Parent(p) \in live
       THEN events' = events \cup {p} /\ UNCHANGED blind
       ELSE /\ blind' = IF count[p] > 0 THEN blind \cup {p} ELSE blind
            /\ UNCHANGED events
    /\ UNCHANGED <<holds, watcher, watcherOf>>

Delete(p) ==
    /\ p \in exists \ {Root}
    /\ \A q \in exists : p \notin Above[q]
    /\ exists' = exists \ {p}
    /\ live' = live \ {p}
    /\ UNCHANGED <<events, watched, count, watcher, watcherOf, blind>>

(* Another file is renamed to p, in the place of the one there may be:     *)
(* IN_MOVED_TO.                                                            *)
MoveIn(p) ==
    /\ Above[p] \subseteq exists
    /\ \A q \in Paths : p \notin Above[q]
    /\ exists' = exists \cup {p}
    /\ live' = live \ {p}
    /\ blind' = IF count[p] > 0 THEN blind \cup {p} ELSE blind
    /\ UNCHANGED <<events, watched, count, watcher, watcherOf>>

OnCreateSlip(p) ==  \* leaves the watch on the file that is gone
    /\ p \in events
    /\ events' = events \ {p}
    /\ UNCHANGED <<exists, holds, watcher, watcherOf, blind>>

(* _q_readFromInotify for IN_CREATE: a known path is removed and added     *)
(* again, which fails if it is gone by now or no watch is left.            *)
OnCreate(p) ==
    LET readded == p \in exists /\ Cardinality(live \ {p}) < Limit
        dropped == {q \in events \ {Root, p} : Parent(q) = p} IN
    /\ p \in events
    /\ IF p \notin watched
       THEN events' = events \ {p} /\ UNCHANGED <<live, watched, blind>>
       ELSE /\ live' = IF readded THEN live \cup {p} ELSE live \ {p}
            /\ watched' = IF readded THEN watched ELSE watched \ {p}
            /\ events' = (events \ {p}) \ dropped
            /\ blind' = ((IF readded THEN blind \ {p} ELSE blind \cup {p}) \cup dropped)
                            \cap {q \in Paths : count[q] > 0}
    /\ UNCHANGED <<exists, count, watcher, watcherOf>>

-----------------------------------------------------------------------------
Init ==
    /\ exists = Paths
    /\ live = {}
    /\ watched = {}
    /\ events = {}
    /\ count = [p \in Paths |-> 0]
    /\ state = [w \in Watchers |-> "none"]
    /\ path = [w \in Watchers |-> None]
    /\ list = [w \in Watchers |-> {}]
    /\ started = [w \in Watchers |-> FALSE]
    /\ watcherOf = [p \in Paths |-> None]
    /\ blind = {}

Next ==
    \/ \E p \in Paths, w \in Watchers : Add(p, w)
    \/ \E p \in Paths : RemoveOne(p)
    \/ \E p \in Paths : Create(p) \/ Delete(p) \/ MoveIn(p) \/ OnCreate(p)
    \/ RemoveAll
    \/ \E w \in Watchers : Destroy(w) \/ StartWatcher(w) \/ StopWatcher(w)

Spec == Init /\ [][Next]_vars

-----------------------------------------------------------------------------
(* Every variable has its type; only living objects are started.           *)
TypeOK ==
    /\ exists \subseteq Paths
    /\ live \subseteq Paths
    /\ watched \subseteq Paths
    /\ events \subseteq Paths
    /\ count \in [Paths -> Nat]
    /\ state \in [Watchers -> {"none", "alive", "doomed"}]
    /\ path \in [Watchers -> Paths \cup {None}]
    /\ \A w \in Watchers : state[w] # "none" => path[w] \in Paths
    /\ list \in [Watchers -> SUBSET Paths]
    /\ started \in [Watchers -> BOOLEAN]
    /\ \A w \in Watchers : started[w] => state[w] # "none"
    /\ watcherOf \in [Paths -> Watchers \cup {None}]
    /\ blind \subseteq Paths

(* The count of a path is the number of started watchers that hold it: no  *)
(* watcher's end takes a watch away from another, none is left behind.     *)
Holders(p) == {w \in Watchers : started[w] /\ p \in list[w]}

CountIsHolders == \A p \in Paths : count[p] = Cardinality(Holders(p))

(* The watch of a held file survives deletion and creation of the file,    *)
(* except where it is created unseen: its directory had no live watch, the *)
(* file was gone again when IN_CREATE was read, or it came by a rename.    *)
WatchSurvives ==
    \A p \in exists : count[p] > 0 /\ p \notin events \cup blind => p \in live

(* A started watcher's own path is held.  "Stop file watcher and then      *)
(* restart it to watching file changes" (DBaseFileWatcher::restartWatcher).*)
StartedIsHeld == \A w \in Watchers : started[w] => count[path[w]] > 0
-----------------------------------------------------------------------------
(* An instance for TLC: a directory with a file in it and a file beside it.*)
MCAbove == [p \in Paths |-> CASE p = "/a/f" -> {"/a", "/"}
                              [] p = "/"    -> {}
                              [] OTHER      -> {"/"}]

WatcherSymmetry == Permutations(Watchers)
=============================================================================
