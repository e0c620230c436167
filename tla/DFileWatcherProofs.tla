------------------------- MODULE DFileWatcherProofs -------------------------
(***************************************************************************)
(* What DFileWatcher guarantees for any number of watchers and any tree of *)
(* paths: the shared counts are right, as long as no watcher is restarted  *)
(* while others hold its paths, and held files stay watched in any case.   *)
(***************************************************************************)
EXTENDS DFileWatcher, FiniteSetTheorems, TLAPS

USE DFileWatcherAssumption

(* An object that is not there holds nothing.                              *)
NoneIsIdle == \A w \in Watchers : state[w] = "none" => list[w] = {}

(* The manager knows a watcher under its path, until it removes it.        *)
KnownByPath == \A p \in Paths, w \in Watchers :
    watcherOf[p] = w => state[w] = "alive" /\ path[w] = p

Inv == TypeOK /\ NoneIsIdle /\ KnownByPath /\ CountIsHolders

LEMMA HoldersAreFew ==
    ASSUME NEW p \in Paths
    PROVE  /\ Cardinality(Holders(p)) \in Nat
           /\ \A w \in Watchers \ Holders(p) :
                 Cardinality(Holders(p) \cup {w}) = Cardinality(Holders(p)) + 1
           /\ \A w \in Holders(p) :
                 /\ Cardinality(Holders(p) \ {w}) = Cardinality(Holders(p)) - 1
                 /\ Cardinality(Holders(p)) # 0
<1>1. IsFiniteSet(Holders(p))
  BY FS_Subset DEF Holders
<1>. QED
  BY <1>1, FS_CardinalityType, FS_AddElement, FS_RemoveElement, FS_EmptySet

LEMMA PathsOfList ==
    ASSUME NEW p \in Paths, NEW l
    PROVE  /\ PathList(p) \subseteq Paths
           /\ Missing(p, l) \subseteq Paths
           /\ Fresh(p, l) \subseteq Missing(p, l)
           /\ Reached(p, l) \subseteq Missing(p, l)
           /\ Refused(p, l) = {} => Reached(p, l) = Missing(p, l)
BY DEF PathList, Missing, Fresh, Reached

LEMMA UnwatchTypes ==
    ASSUME TypeOK, NEW s, NEW n, Unwatch(s, n)
    PROVE  /\ live' \subseteq Paths
           /\ watched' \subseteq Paths
           /\ events' \subseteq Paths
           /\ blind' \subseteq Paths
BY DEF TypeOK, Unwatch

(* A watcher that starts with an empty list adds one to what it holds, or  *)
(* gives up and leaves every count as it was.                              *)
LEMMA StartCounts ==
    ASSUME Inv, NEW w \in Watchers, NEW p \in Paths,
           ~started[w], list[w] = {}, Start(w, p)
    PROVE  /\ list' \in [Watchers -> SUBSET Paths]
           /\ started' \in [Watchers -> BOOLEAN]
           /\ count' \in [Paths -> Nat]
           /\ live' \subseteq Paths /\ watched' \subseteq Paths
           /\ events' \subseteq Paths /\ blind' \subseteq Paths
           /\ \A v \in Watchers \ {w} : list'[v] = list[v] /\ started'[v] = started[v]
           /\ CountIsHolders'
<1>. DEFINE taken == Reached(p, list[w])
            more  == [q \in Paths |-> IF q \in taken THEN count[q] + 1 ELSE count[q]]
            all   == list[w] \cup taken
<1>1. taken \subseteq Paths /\ all = taken
  BY PathsOfList
<1>2. more \in [Paths -> Nat]
  BY DEF Inv, TypeOK
<1>3. \A q \in Paths : w \notin Holders(q)
  BY DEF Holders
<1>4. CASE Refused(p, list[w]) = {}
  <2>1. /\ list' = [list EXCEPT ![w] = all]
        /\ count' = more
        /\ started' = [started EXCEPT ![w] = TRUE]
        /\ watched' = watched \cup Fresh(p, list[w])
        /\ live' = live \cup Fresh(p, list[w])
        /\ blind' = blind \ Fresh(p, list[w])
        /\ events' = events
    BY <1>4, Zenon DEF Start
  <2>2. Fresh(p, list[w]) \subseteq Paths
    BY PathsOfList
  <2>3. /\ list' \in [Watchers -> SUBSET Paths]
        /\ started' \in [Watchers -> BOOLEAN]
    BY <2>1, <1>1 DEF Inv, TypeOK
  <2>4. \A v \in Watchers \ {w} : list'[v] = list[v] /\ started'[v] = started[v]
    BY <2>1 DEF Inv, TypeOK
  <2>5. list'[w] = taken /\ started'[w]
    BY <2>1, <1>1 DEF Inv, TypeOK
  <2>6. ASSUME NEW q \in Paths PROVE count'[q] = Cardinality(Holders(q)')
    <3>1. CASE q \in taken
      <4>1. Holders(q)' = Holders(q) \cup {w}
        BY <3>1, <2>4, <2>5 DEF Holders
      <4>. QED
        BY <4>1, <3>1, <2>1, <1>3, HoldersAreFew DEF Inv, CountIsHolders
    <3>2. CASE q \notin taken
      <4>1. Holders(q)' = Holders(q)
        BY <3>2, <2>4, <2>5, <1>3 DEF Holders
      <4>. QED
        BY <4>1, <3>2, <2>1 DEF Inv, CountIsHolders
    <3>. QED
      BY <3>1, <3>2
  <2>. QED
    BY <2>1, <2>2, <2>3, <2>4, <2>6, <1>2 DEF CountIsHolders, Inv, TypeOK
<1>5. CASE Refused(p, list[w]) # {}
  <2>1. /\ list' = [list EXCEPT ![w] = all \ Last(all, more)]
        /\ count' = Fewer(all, more)
        /\ started' = [started EXCEPT ![w] = FALSE]
        /\ Unwatch(Last(all, more), count')
    BY <1>5, Zenon DEF Start
  <2>2. /\ list' \in [Watchers -> SUBSET Paths]
        /\ started' \in [Watchers -> BOOLEAN]
    BY <2>1, <1>1 DEF Inv, TypeOK
  <2>3. \A v \in Watchers \ {w} : list'[v] = list[v] /\ started'[v] = started[v]
    BY <2>1 DEF Inv, TypeOK
  <2>4. ~started'[w]
    BY <2>1 DEF Inv, TypeOK
  <2>5. count' = count
    BY <2>1, <1>1, <1>2 DEF Fewer, Last, Inv, TypeOK
  <2>6. ASSUME NEW q \in Paths PROVE Holders(q)' = Holders(q)
    BY <2>3, <2>4, <1>3 DEF Holders
  <2>7. CountIsHolders'
    BY <2>5, <2>6 DEF Inv, CountIsHolders
  <2>8. /\ live' \subseteq Paths
        /\ watched' \subseteq Paths
        /\ events' \subseteq Paths
        /\ blind' \subseteq Paths
    BY <2>1, UnwatchTypes DEF Inv
  <2>. QED
    BY <2>2, <2>3, <2>5, <2>7, <2>8 DEF Inv, TypeOK
<1>. QED
  BY <1>4, <1>5

(* A started watcher that ends takes one from each path it holds.          *)
LEMMA EndCounts ==
    ASSUME Inv, NEW w \in Watchers, started[w],
           count' = Fewer(list[w], count),
           started' = [started EXCEPT ![w] = FALSE],
           \A v \in Watchers \ {w} : list'[v] = list[v]
    PROVE  count' \in [Paths -> Nat] /\ CountIsHolders'
<1>1. count' \in [Paths -> Nat]
  BY DEF Fewer, Last, Inv, TypeOK
<1>2. ~started'[w] /\ \A v \in Watchers \ {w} : started'[v] = started[v]
  BY DEF Inv, TypeOK
<1>3. ASSUME NEW q \in Paths PROVE count'[q] = Cardinality(Holders(q)')
  <2>1. Holders(q)' = Holders(q) \ {w}
    BY <1>2 DEF Holders
  <2>2. CASE q \in list[w]
    <3>1. w \in Holders(q)
      BY <2>2 DEF Holders
    <3>2. count[q] \in Nat /\ count[q] # 0 /\ count[q] = Cardinality(Holders(q))
      BY <3>1, HoldersAreFew DEF Inv, TypeOK, CountIsHolders
    <3>3. count'[q] = count[q] - 1
      BY <2>2, <3>2 DEF Fewer, Last
    <3>. QED
      BY <2>1, <3>1, <3>2, <3>3, HoldersAreFew
  <2>3. CASE q \notin list[w]
    <3>1. Holders(q)' = Holders(q)
      BY <2>1, <2>3 DEF Holders
    <3>. QED
      BY <3>1, <2>3 DEF Fewer, Inv, CountIsHolders
  <2>. QED
    BY <2>2, <2>3
<1>. QED
  BY <1>1, <1>3 DEF CountIsHolders

LEMMA InitInv == Init => Inv
<1>. SUFFICES ASSUME Init PROVE Inv
  OBVIOUS
<1>1. TypeOK /\ NoneIsIdle /\ KnownByPath
  BY DEF Init, TypeOK, NoneIsIdle, KnownByPath
<1>2. ASSUME NEW p \in Paths PROVE count[p] = Cardinality(Holders(p))
  <2>1. Holders(p) = {}
    BY DEF Init, Holders
  <2>. QED
    BY <2>1, FS_EmptySet DEF Init
<1>. QED
  BY <1>1, <1>2 DEF Inv, CountIsHolders

LEMMA AddInv ==
    ASSUME Inv, NEW p \in Paths, NEW w \in Watchers, Add(p, w)
    PROVE  Inv'
<1>1. ~started[w] /\ list[w] = {} /\ Start(w, p)
  BY DEF Inv, TypeOK, NoneIsIdle, Add
<1>2. state'[w] = "alive" /\ \A v \in Watchers \ {w} : state'[v] = state[v]
  BY DEF Add, Inv, TypeOK
<1>3. /\ path'[w] = p
      /\ \A v \in Watchers \ {w} : path'[v] = path[v]
  BY DEF Add, Inv, TypeOK
<1>4. /\ state' \in [Watchers -> {"none", "alive", "doomed"}]
      /\ path' \in [Watchers -> Paths \cup {None}]
      /\ watcherOf' \in [Paths -> Watchers \cup {None}]
      /\ exists' \subseteq Paths
  BY DEF Add, Inv, TypeOK
<1>5. TypeOK'
  BY <1>1, <1>2, <1>3, <1>4, StartCounts DEF Inv, TypeOK
<1>6. NoneIsIdle'
  BY <1>1, <1>2, StartCounts DEF Inv, NoneIsIdle
<1>7. KnownByPath'
  <2>1. /\ watcherOf'[p] = w
        /\ \A q \in Paths \ {p} : watcherOf'[q] = watcherOf[q] /\ watcherOf[q] # w
    BY DEF Add, Inv, TypeOK, KnownByPath
  <2>. QED
    BY <2>1, <1>2, <1>3 DEF Inv, KnownByPath
<1>. QED
  BY <1>1, <1>5, <1>6, <1>7, StartCounts DEF Inv

LEMMA RemoveInv ==
    ASSUME Inv, NEW s \in SUBSET Paths, Remove(s)
    PROVE  Inv'
<1>1. /\ state' \in [Watchers -> {"none", "alive", "doomed"}]
      /\ \A w \in Watchers :
            state'[w] = IF \E p \in s : watcherOf[p] = w THEN "doomed" ELSE state[w]
      /\ watcherOf' \in [Paths -> Watchers \cup {None}]
      /\ \A p \in Paths : watcherOf'[p] = IF p \in s THEN None ELSE watcherOf[p]
      /\ UNCHANGED <<exists, events, live, watched, count, path, list, started, blind>>
  BY DEF Remove, Inv, TypeOK, files, holds
<1>2. \A w \in Watchers : state'[w] = "none" <=> state[w] = "none"
  BY <1>1 DEF Inv, KnownByPath
<1>3. TypeOK' /\ NoneIsIdle'
  BY <1>1, <1>2 DEF Inv, TypeOK, NoneIsIdle
<1>4. KnownByPath'
  BY <1>1 DEF Inv, KnownByPath
<1>5. CountIsHolders'
  BY <1>1 DEF Inv, CountIsHolders, Holders
<1>. QED
  BY <1>3, <1>4, <1>5 DEF Inv

LEMMA DestroyInv ==
    ASSUME Inv, NEW w \in Watchers, Destroy(w)
    PROVE  Inv'
<1>1. /\ state'[w] = "none" /\ list'[w] = {} /\ ~started'[w]
      /\ \A v \in Watchers \ {w} :
            /\ state'[v] = state[v] /\ path'[v] = path[v]
            /\ list'[v] = list[v] /\ started'[v] = started[v]
      /\ started' = [started EXCEPT ![w] = FALSE]
      /\ UNCHANGED <<exists, watcherOf>>
  BY DEF Destroy, Inv, TypeOK
<1>2. /\ state' \in [Watchers -> {"none", "alive", "doomed"}]
      /\ path' \in [Watchers -> Paths \cup {None}]
      /\ list' \in [Watchers -> SUBSET Paths]
      /\ started' \in [Watchers -> BOOLEAN]
  BY DEF Destroy, Inv, TypeOK
<1>3. /\ live' \subseteq Paths /\ watched' \subseteq Paths
      /\ events' \subseteq Paths /\ blind' \subseteq Paths
  BY UnwatchTypes DEF Destroy, Inv, TypeOK
<1>4. count' \in [Paths -> Nat] /\ CountIsHolders'
  <2>1. CASE started[w]
    BY <2>1, <1>1, EndCounts DEF Destroy
  <2>2. CASE ~started[w]
    <3>1. count' = count
      BY <2>2 DEF Destroy
    <3>2. \A p \in Paths : Holders(p)' = Holders(p)
      BY <2>2, <1>1 DEF Holders
    <3>. QED
      BY <3>1, <3>2 DEF Inv, TypeOK, CountIsHolders
  <2>. QED
    BY <2>1, <2>2
<1>5. TypeOK' /\ NoneIsIdle'
  BY <1>1, <1>2, <1>3, <1>4 DEF Inv, TypeOK, NoneIsIdle
<1>6. KnownByPath'
  <2>1. \A p \in Paths : watcherOf[p] # w
    BY DEF Destroy, Inv, KnownByPath
  <2>. QED
    BY <2>1, <1>1 DEF Inv, KnownByPath
<1>. QED
  BY <1>4, <1>5, <1>6 DEF Inv

LEMMA StartWatcherInv ==
    ASSUME Inv, Restarts = FALSE, NEW w \in Watchers, StartWatcher(w)
    PROVE  Inv'
<1>1. /\ path[w] \in Paths /\ ~started[w] /\ list[w] = {} /\ Start(w, path[w])
      /\ state[w] = "alive"
      /\ UNCHANGED <<exists, state, path, watcherOf>>
  BY DEF StartWatcher, Inv, TypeOK
<1>2. TypeOK' /\ NoneIsIdle' /\ CountIsHolders'
  BY <1>1, StartCounts DEF Inv, TypeOK, NoneIsIdle
<1>. QED
  BY <1>1, <1>2 DEF Inv, KnownByPath

LEMMA StopWatcherInv ==
    ASSUME Inv, NEW w \in Watchers, StopWatcher(w)
    PROVE  Inv'
<1>1. /\ started[w] /\ state[w] = "alive" /\ Stop(w)
      /\ UNCHANGED <<exists, state, path, watcherOf>>
  BY DEF StopWatcher
<1>2. /\ list' \in [Watchers -> SUBSET Paths]
      /\ started' \in [Watchers -> BOOLEAN] /\ ~started'[w]
      /\ \A v \in Watchers \ {w} : list'[v] = list[v] /\ started'[v] = started[v]
  BY <1>1 DEF Stop, Inv, TypeOK
<1>3. count' \in [Paths -> Nat] /\ CountIsHolders'
  BY <1>1, <1>2, EndCounts DEF Stop
<1>4. /\ live' \subseteq Paths /\ watched' \subseteq Paths
      /\ events' \subseteq Paths /\ blind' \subseteq Paths
  BY <1>1, UnwatchTypes DEF Stop, Inv
<1>5. TypeOK' /\ NoneIsIdle' /\ KnownByPath'
  BY <1>1, <1>2, <1>3, <1>4 DEF Inv, TypeOK, NoneIsIdle, KnownByPath
<1>. QED
  BY <1>3, <1>5 DEF Inv

(* The file system and its events touch no count and no watcher.           *)
LEMMA FilesInv ==
    ASSUME Inv, NEW p \in Paths,
           Create(p) \/ Delete(p) \/ MoveIn(p) \/ OnCreate(p)
    PROVE  Inv'
<1>1. UNCHANGED <<count, state, path, list, started, watcherOf>>
  BY DEF Create, Delete, MoveIn, OnCreate, holds, watcher
<1>2. /\ exists' \subseteq Paths
      /\ live' \subseteq Paths
      /\ watched' \subseteq Paths
      /\ events' \subseteq Paths
      /\ blind' \subseteq Paths
  <2>1. CASE Create(p)
    BY <2>1 DEF Create, Inv, TypeOK, holds
  <2>2. CASE Delete(p)
    BY <2>2 DEF Delete, Inv, TypeOK
  <2>3. CASE MoveIn(p)
    BY <2>3 DEF MoveIn, Inv, TypeOK
  <2>4. CASE OnCreate(p)
    BY <2>4 DEF OnCreate, Inv, TypeOK
  <2>. QED
    BY <2>1, <2>2, <2>3, <2>4
<1>3. TypeOK' /\ NoneIsIdle' /\ KnownByPath'
  BY <1>1, <1>2 DEF Inv, TypeOK, NoneIsIdle, KnownByPath
<1>4. CountIsHolders'
  BY <1>1 DEF Inv, CountIsHolders, Holders
<1>. QED
  BY <1>3, <1>4 DEF Inv

LEMMA NextInv ==
    ASSUME Inv, Restarts = FALSE, [Next]_vars
    PROVE  Inv'
<1>1. ASSUME NEW p \in Paths, NEW w \in Watchers, Add(p, w) PROVE Inv'
  BY <1>1, AddInv
<1>2. ASSUME NEW p \in Paths, RemoveOne(p) PROVE Inv'
  BY <1>2, RemoveInv DEF RemoveOne
<1>3. ASSUME RemoveAll PROVE Inv'
  BY <1>3, RemoveInv DEF RemoveAll
<1>4. ASSUME NEW w \in Watchers, Destroy(w) PROVE Inv'
  BY <1>4, DestroyInv
<1>5. ASSUME NEW w \in Watchers, StartWatcher(w) PROVE Inv'
  BY <1>5, StartWatcherInv
<1>6. ASSUME NEW w \in Watchers, StopWatcher(w) PROVE Inv'
  BY <1>6, StopWatcherInv
<1>7. ASSUME NEW p \in Paths, Create(p) \/ Delete(p) \/ MoveIn(p) \/ OnCreate(p)
      PROVE  Inv'
  BY <1>7, FilesInv
<1>8. CASE UNCHANGED vars
  BY <1>8 DEF vars, Inv, TypeOK, NoneIsIdle, KnownByPath, CountIsHolders, Holders
<1>. QED
  BY <1>1, <1>2, <1>3, <1>4, <1>5, <1>6, <1>7, <1>8 DEF Next

-----------------------------------------------------------------------------
(* A path's count is the number of started watchers that hold it, so that  *)
(* the last one to end, and no other, gives the path up.                   *)
THEOREM CountsAreRight ==
    ASSUME Restarts = FALSE
    PROVE  Spec => []CountIsHolders
<1>1. Inv => CountIsHolders
  BY DEF Inv
<1>. QED
  BY <1>1, InitInv, NextInv, PTL DEF Spec
-----------------------------------------------------------------------------
(* Watches, with restarts and without.  A held path whose watch is to be   *)
(* renewed is still watched, or its new file was not noticed.              *)
HeldIsWatched == \A p \in Paths : count[p] > 0 => p \in watched \cup blind

WatchInv == TypeOK /\ KnownByPath /\ HeldIsWatched /\ WatchSurvives

(* What w gives up nobody else holds, so that a watch is only taken from   *)
(* paths no longer held.                                                   *)
LEMMA GivesUpUnheld ==
    ASSUME NEW l \in SUBSET Paths, NEW n \in [Paths -> Nat]
    PROVE  /\ Fewer(l, n) \in [Paths -> Nat]
           /\ \A p \in Last(l, n) : Fewer(l, n)[p] = 0
BY DEF Fewer, Last

LEMMA UnwatchKeeps ==
    ASSUME WatchInv, NEW s, count' \in [Paths -> Nat], Unwatch(s, count'),
           \A p \in s : count'[p] = 0,
           \A p \in Paths : count'[p] > 0 => count[p] > 0,
           exists' = exists
    PROVE  /\ live' \subseteq Paths /\ watched' \subseteq Paths
           /\ events' \subseteq Paths /\ blind' \subseteq Paths
           /\ HeldIsWatched' /\ WatchSurvives'
<1>1. /\ live' = live \ s /\ watched' = watched \ s
      /\ \A p \in Paths : p \in events => p \in events' \/ (count'[p] > 0 => p \in blind')
      /\ \A p \in blind : count'[p] > 0 => p \in blind'
  BY DEF Unwatch, WatchInv, TypeOK
<1>2. TypeOK /\ HeldIsWatched /\ WatchSurvives
  BY DEF WatchInv
<1>3. HeldIsWatched'
  BY <1>1, <1>2 DEF HeldIsWatched
<1>4. WatchSurvives'
  BY <1>1, <1>2 DEF WatchSurvives, TypeOK
<1>. QED
  BY <1>2, <1>3, <1>4, UnwatchTypes

LEMMA StartWatches ==
    ASSUME WatchInv, NEW w \in Watchers, NEW p \in Paths, Start(w, p), exists' = exists
    PROVE  /\ list' \in [Watchers -> SUBSET Paths]
           /\ started' \in [Watchers -> BOOLEAN]
           /\ count' \in [Paths -> Nat]
           /\ live' \subseteq Paths /\ watched' \subseteq Paths
           /\ events' \subseteq Paths /\ blind' \subseteq Paths
           /\ \A v \in Watchers \ {w} : started'[v] = started[v]
           /\ HeldIsWatched' /\ WatchSurvives'
<1>. DEFINE l     == list[w]
            taken == Reached(p, l)
            more  == [q \in Paths |-> IF q \in taken THEN count[q] + 1 ELSE count[q]]
            all   == l \cup taken
<1>0. TypeOK /\ HeldIsWatched /\ WatchSurvives
  BY DEF WatchInv
<1>1. /\ taken \subseteq Paths /\ all \in SUBSET Paths
      /\ Fresh(p, l) \subseteq Paths
  BY <1>0, PathsOfList DEF TypeOK
<1>2. more \in [Paths -> Nat]
  BY <1>0 DEF TypeOK
<1>3. CASE Refused(p, l) = {}
  <2>1. /\ list' = [list EXCEPT ![w] = all]
        /\ count' = more
        /\ started' = [started EXCEPT ![w] = TRUE]
        /\ watched' = watched \cup Fresh(p, l)
        /\ live' = live \cup Fresh(p, l)
        /\ blind' = blind \ Fresh(p, l)
        /\ events' = events
    BY <1>3, Zenon DEF Start
  <2>2. \A q \in Paths : count'[q] > 0 => count[q] > 0 \/ q \in Fresh(p, l)
    <3>1. taken = Missing(p, l)
      BY <1>3, PathsOfList
    <3>. QED
      BY <1>0, <2>1, <3>1 DEF Fresh, TypeOK
  <2>3. HeldIsWatched'
    BY <1>0, <2>1, <2>2 DEF HeldIsWatched
  <2>4. WatchSurvives'
    BY <1>0, <2>1, <2>2 DEF WatchSurvives, TypeOK
  <2>5. /\ list' \in [Watchers -> SUBSET Paths]
        /\ started' \in [Watchers -> BOOLEAN]
        /\ \A v \in Watchers \ {w} : started'[v] = started[v]
    BY <1>0, <1>1, <2>1 DEF TypeOK
  <2>. QED
    BY <1>0, <1>1, <1>2, <2>1, <2>3, <2>4, <2>5 DEF TypeOK
<1>4. CASE Refused(p, l) # {}
  <2>1. /\ list' = [list EXCEPT ![w] = all \ Last(all, more)]
        /\ count' = Fewer(all, more)
        /\ started' = [started EXCEPT ![w] = FALSE]
        /\ Unwatch(Last(all, more), count')
    BY <1>4, Zenon DEF Start
  <2>2. /\ list' \in [Watchers -> SUBSET Paths]
        /\ started' \in [Watchers -> BOOLEAN]
        /\ \A v \in Watchers \ {w} : started'[v] = started[v]
    BY <1>0, <1>1, <2>1 DEF TypeOK
  <2>3. count' \in [Paths -> Nat] /\ \A q \in Last(all, more) : count'[q] = 0
    BY <1>1, <1>2, <2>1, GivesUpUnheld
  <2>4. \A q \in Paths : count'[q] > 0 => count[q] > 0
    BY <1>0, <1>2, <2>1 DEF Fewer, Last, TypeOK
  <2>. QED
    BY <2>1, <2>2, <2>3, <2>4, UnwatchKeeps
<1>. QED
  BY <1>3, <1>4

LEMMA EndWatches ==
    ASSUME WatchInv, NEW w \in Watchers, count' = Fewer(list[w], count),
           Unwatch(Last(list[w], count), count'), exists' = exists
    PROVE  /\ count' \in [Paths -> Nat]
           /\ live' \subseteq Paths /\ watched' \subseteq Paths
           /\ events' \subseteq Paths /\ blind' \subseteq Paths
           /\ HeldIsWatched' /\ WatchSurvives'
<1>1. list[w] \in SUBSET Paths /\ count \in [Paths -> Nat]
  BY DEF WatchInv, TypeOK
<1>2. count' \in [Paths -> Nat] /\ \A q \in Last(list[w], count) : count'[q] = 0
  BY <1>1, GivesUpUnheld
<1>3. \A q \in Paths : count'[q] > 0 => count[q] > 0
  BY <1>1 DEF Fewer, Last
<1>. QED
  BY <1>2, <1>3, UnwatchKeeps

LEMMA FileStepsWatch ==
    ASSUME WatchInv, NEW p \in Paths, Create(p) \/ Delete(p) \/ MoveIn(p) \/ OnCreate(p)
    PROVE  WatchInv'
<1>0. TypeOK /\ HeldIsWatched /\ WatchSurvives
  BY DEF WatchInv
<1>1. UNCHANGED <<count, state, path, list, started, watcherOf>>
  BY DEF Create, Delete, MoveIn, OnCreate, holds, watcher
<1>6. KnownByPath'
  BY <1>1 DEF WatchInv, KnownByPath
<1>2. CASE Create(p)
  <2>1. TypeOK'
    BY <1>0, <1>1, <1>2 DEF Create, TypeOK, holds
  <2>2. HeldIsWatched' /\ WatchSurvives'
    BY <1>0, <1>1, <1>2 DEF Create, TypeOK, holds, HeldIsWatched, WatchSurvives
  <2>. QED
    BY <2>1, <2>2, <1>6 DEF WatchInv
<1>3. CASE Delete(p)
  BY <1>0, <1>1, <1>6, <1>3 DEF Delete, TypeOK, HeldIsWatched, WatchSurvives, WatchInv
<1>4. CASE MoveIn(p)
  BY <1>0, <1>1, <1>6, <1>4 DEF MoveIn, TypeOK, HeldIsWatched, WatchSurvives, WatchInv
<1>5. CASE OnCreate(p)
  <2>. DEFINE readded == p \in exists /\ Cardinality(live \ {p}) < Limit
              dropped == {q \in events \ {Root, p} : Parent(q) = p}
  <2>1. TypeOK'
    BY <1>0, <1>1, <1>5 DEF OnCreate, TypeOK
  <2>2. CASE p \notin watched
    <3>1. events' = events \ {p} /\ UNCHANGED <<exists, live, watched, blind>>
      BY <1>5, <2>2 DEF OnCreate
    <3>. QED
      BY <1>0, <1>1, <1>6, <2>1, <2>2, <3>1 DEF TypeOK, HeldIsWatched, WatchSurvives, WatchInv
  <2>3. CASE p \in watched
    <3>1. /\ live' = IF readded THEN live \cup {p} ELSE live \ {p}
          /\ watched' = IF readded THEN watched ELSE watched \ {p}
          /\ events' = (events \ {p}) \ dropped
          /\ blind' = ((IF readded THEN blind \ {p} ELSE blind \cup {p}) \cup dropped)
                          \cap {q \in Paths : count[q] > 0}
          /\ exists' = exists
      BY <1>5, <2>3, Zenon DEF OnCreate
    <3>. HIDE DEF readded, dropped
    <3>2. HeldIsWatched'
      BY <1>0, <1>1, <2>3, <3>1 DEF HeldIsWatched
    <3>3. WatchSurvives'
      BY <1>0, <1>1, <3>1 DEF WatchSurvives, TypeOK
    <3>. QED
      BY <1>6, <2>1, <3>2, <3>3 DEF WatchInv
  <2>. QED
    BY <2>2, <2>3
<1>. QED
  BY <1>2, <1>3, <1>4, <1>5

LEMMA NextWatch ==
    ASSUME WatchInv, [Next]_vars
    PROVE  WatchInv'
<1>0. TypeOK /\ KnownByPath /\ HeldIsWatched /\ WatchSurvives
  BY DEF WatchInv
<1>1. ASSUME NEW p \in Paths, NEW w \in Watchers, Add(p, w) PROVE WatchInv'
  <2>1. /\ exists' = exists /\ Start(w, p) /\ state[w] = "none"
        /\ state' = [state EXCEPT ![w] = "alive"] /\ path' = [path EXCEPT ![w] = p]
        /\ watcherOf' = [watcherOf EXCEPT ![p] = w]
    BY <1>1 DEF Add
  <2>2. /\ list' \in [Watchers -> SUBSET Paths] /\ started' \in [Watchers -> BOOLEAN]
        /\ count' \in [Paths -> Nat]
        /\ live' \subseteq Paths /\ watched' \subseteq Paths
        /\ events' \subseteq Paths /\ blind' \subseteq Paths
        /\ \A v \in Watchers \ {w} : started'[v] = started[v]
        /\ HeldIsWatched' /\ WatchSurvives'
    BY <2>1, StartWatches
  <2>3. TypeOK'
    BY <1>0, <2>1, <2>2 DEF TypeOK
  <2>4. KnownByPath'
    BY <1>0, <2>1 DEF TypeOK, KnownByPath
  <2>. QED
    BY <2>2, <2>3, <2>4 DEF WatchInv
<1>2. ASSUME NEW s \in SUBSET Paths, Remove(s) PROVE WatchInv'
  <2>1. /\ UNCHANGED <<exists, events, live, watched, count, path, list, started, blind>>
        /\ state' \in [Watchers -> {"none", "alive", "doomed"}]
        /\ \A w \in Watchers :
              state'[w] = IF \E p \in s : watcherOf[p] = w THEN "doomed" ELSE state[w]
        /\ watcherOf' \in [Paths -> Watchers \cup {None}]
        /\ \A p \in Paths : watcherOf'[p] = IF p \in s THEN None ELSE watcherOf[p]
    BY <1>0, <1>2 DEF Remove, TypeOK, files, holds
  <2>2. \A w \in Watchers : state'[w] = "none" <=> state[w] = "none"
    BY <1>0, <2>1 DEF KnownByPath
  <2>3. TypeOK'
    BY <1>0, <2>1, <2>2 DEF TypeOK
  <2>4. KnownByPath'
    BY <1>0, <2>1 DEF KnownByPath
  <2>. QED
    BY <1>0, <2>1, <2>3, <2>4 DEF WatchInv, HeldIsWatched, WatchSurvives
<1>3. ASSUME NEW w \in Watchers, Destroy(w) PROVE WatchInv'
  <2>1. /\ state' = [state EXCEPT ![w] = "none"] /\ path' = [path EXCEPT ![w] = None]
        /\ list' = [list EXCEPT ![w] = {}] /\ started' = [started EXCEPT ![w] = FALSE]
        /\ state[w] = "doomed" /\ UNCHANGED <<exists, watcherOf>>
    BY <1>3 DEF Destroy
  <2>2. /\ count' \in [Paths -> Nat]
        /\ live' \subseteq Paths /\ watched' \subseteq Paths
        /\ events' \subseteq Paths /\ blind' \subseteq Paths
        /\ HeldIsWatched' /\ WatchSurvives'
    <3>1. CASE started[w]
      BY <1>3, <2>1, <3>1, EndWatches DEF Destroy
    <3>2. CASE ~started[w]
      <4>1. UNCHANGED <<exists, live, watched, events, count, blind>>
        BY <1>3, <3>2 DEF Destroy
      <4>. QED
        BY <1>0, <4>1 DEF TypeOK, HeldIsWatched, WatchSurvives
    <3>. QED
      BY <3>1, <3>2
  <2>3. TypeOK'
    BY <1>0, <2>1, <2>2 DEF TypeOK
  <2>4. KnownByPath'
    BY <1>0, <2>1 DEF TypeOK, KnownByPath
  <2>. QED
    BY <2>2, <2>3, <2>4 DEF WatchInv
<1>4. ASSUME NEW w \in Watchers, StartWatcher(w) PROVE WatchInv'
  <2>1. /\ path[w] \in Paths /\ Start(w, path[w]) /\ state[w] = "alive"
        /\ UNCHANGED <<exists, state, path, watcherOf>>
    BY <1>0, <1>4 DEF StartWatcher, TypeOK
  <2>2. /\ list' \in [Watchers -> SUBSET Paths] /\ started' \in [Watchers -> BOOLEAN]
        /\ count' \in [Paths -> Nat]
        /\ live' \subseteq Paths /\ watched' \subseteq Paths
        /\ events' \subseteq Paths /\ blind' \subseteq Paths
        /\ \A v \in Watchers \ {w} : started'[v] = started[v]
        /\ HeldIsWatched' /\ WatchSurvives'
    BY <2>1, StartWatches
  <2>. QED
    BY <1>0, <2>1, <2>2 DEF TypeOK, KnownByPath, WatchInv
<1>5. ASSUME NEW w \in Watchers, StopWatcher(w) PROVE WatchInv'
  <2>1. /\ list' = [list EXCEPT ![w] = @ \ Last(@, count)] /\ count' = Fewer(list[w], count)
        /\ Unwatch(Last(list[w], count), count')
        /\ started' = [started EXCEPT ![w] = FALSE] /\ state[w] = "alive"
        /\ UNCHANGED <<exists, state, path, watcherOf>>
    BY <1>5 DEF StopWatcher, Stop
  <2>2. /\ count' \in [Paths -> Nat]
        /\ live' \subseteq Paths /\ watched' \subseteq Paths
        /\ events' \subseteq Paths /\ blind' \subseteq Paths
        /\ HeldIsWatched' /\ WatchSurvives'
    BY <2>1, EndWatches
  <2>. QED
    BY <1>0, <2>1, <2>2 DEF TypeOK, KnownByPath, WatchInv
<1>6. ASSUME NEW p \in Paths, Create(p) \/ Delete(p) \/ MoveIn(p) \/ OnCreate(p)
      PROVE  WatchInv'
  BY <1>6, FileStepsWatch
<1>7. CASE UNCHANGED vars
  BY <1>0, <1>7 DEF vars, WatchInv, TypeOK, KnownByPath, HeldIsWatched, WatchSurvives
<1>. QED
  BY <1>1, <1>2, <1>3, <1>4, <1>5, <1>6, <1>7 DEF Next, RemoveOne, RemoveAll

LEMMA WatchAlways == Spec => []WatchInv
<1>1. Init => WatchInv
  BY DEF Init, WatchInv, TypeOK, KnownByPath, HeldIsWatched, WatchSurvives
<1>. QED
  BY <1>1, NextWatch, PTL DEF Spec

(* Every variable keeps its type, however watchers are added, removed,     *)
(* stopped, restarted and destroyed.                                       *)
THEOREM WatcherTypeCorrect == Spec => []TypeOK
BY WatchAlways, PTL DEF WatchInv

(* A held file that is deleted and made again is watched again once its    *)
(* event has been read (_q_readFromInotify), unless it was made unseen,    *)
(* and no watcher that stops or fails to start takes the watch away.       *)
THEOREM WatchesSurvive == Spec => []WatchSurvives
BY WatchAlways, PTL DEF WatchInv
=============================================================================
