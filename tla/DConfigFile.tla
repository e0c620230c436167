---------------------------- MODULE DConfigFile ----------------------------
(***************************************************************************)
(* One process that owns a DConfigFile: the meta it has loaded, the global *)
(* cache and one cache per user, the cache files they are stored in, and   *)
(* the installed meta a package upgrade replaces (src/dconfigfile.cpp).    *)
(*                                                                         *)
(* The process is single-threaded: a call is atomic except save, which     *)
(* truncates the file before it writes it, so that the process may stop    *)
(* between the two.                                                        *)
(***************************************************************************)
EXTENDS DConfigInfo, TLC

CONSTANTS
    Users,        \* uids that own a cache
    GlobalCache,  \* the cache of items flagged "global" (uid InvalidUID)
    None,         \* no user cache was passed; no save is under way
    Metas,        \* the metas, overrides applied, that get installed
    Downgrades,   \* TRUE: an upgrade may lower or withdraw a serial
    Faults,       \* how a save may fail: subset of {"dir", "open", "write", "flush"}
    Leftovers     \* cache files found at first: subset of {"ok", "foreign"}

Caches == Users \cup {GlobalCache}

ASSUME DConfigFileAssumption ==
    /\ GlobalCache \notin Users
    /\ None \notin Caches
    /\ Metas \subseteq [Keys -> Item]
    /\ Downgrades \in BOOLEAN
    /\ Faults \subseteq {"dir", "open", "write", "flush"}
    /\ Leftovers \subseteq {"ok", "foreign"}

VARIABLES
    installed,  \* meta on disk, EmptyMeta before the package is installed
    file,       \* file[c]: the cache file of c
    running,    \* the owning process is up
    meta,       \* DConfigMetaImpl::values
    cache,      \* cache[c]: DConfigCacheImpl::values
    changed,    \* changed[c]: DConfigCacheImpl::cacheChanged
    created,    \* the caches that exist in the process
    loaded,     \* the caches whose load() returned true
    saving,     \* the cache whose file is truncated and not yet written
    ret,        \* what the last call returned
    faulted     \* history: caches a failed save of this process left behind,
                \* whether the save reported the failure or not

env   == <<installed, file>>
objs  == <<meta, cache, changed, created, loaded>>
vars  == <<installed, file, running, meta, cache, changed, created, loaded,
           saving, ret, faulted>>

(* A cache file is a cache document of a supported version ("ok", the      *)
(* missing file is the empty one), no JSON object ("torn"), or a document  *)
(* of another magic or version ("foreign").                                *)
CacheFile == [status : {"ok", "torn", "foreign"}, content : [Keys -> Entry]]
Unreadable(status) == [status |-> status, content |-> EmptyCache]
Stored(content) == [status |-> "ok", content |-> content]

Idle == running /\ saving = None

-----------------------------------------------------------------------------
GetCacheSlip(k, u) ==  \* the user's cache, if there is one, wins
    IF u # None THEN u ELSE IF meta[k].global THEN GlobalCache ELSE None

(* DConfigFilePrivate::getCache: the cache a key lives in, None for a null *)
(* user cache.                                                             *)
GetCache(k, u) == IF meta[k].global THEN GlobalCache ELSE u

(* DConfigFile::value(key, userCache).                                     *)
Value(k, u) ==
    LET c == GetCache(k, u) IN
    ItemValue(meta[k], IF c = None THEN NoEntry ELSE cache[c][k])

(* DConfigCacheImpl::load: a foreign file fails, a torn or missing one     *)
(* succeeds and loads nothing, entries in memory and not in the file stay. *)
LoadCache(c) ==
    IF file[c].status = "foreign"
    THEN ret' = FALSE /\ UNCHANGED <<cache, loaded>>
    ELSE /\ cache' = [cache EXCEPT ![c] = Merge(@, file[c].content)]
         /\ loaded' = loaded \cup {c}
         /\ ret' = TRUE

-----------------------------------------------------------------------------
StartSlip ==  \* the global cache is left to the first load
    /\ ~running
    /\ running' = TRUE
    /\ UNCHANGED <<env, objs, saving, ret, faulted>>

(* DConfigFile::DConfigFile in a fresh process.                            *)
Start ==
    /\ ~running
    /\ running' = TRUE
    /\ created' = {GlobalCache}
    /\ UNCHANGED <<env, meta, cache, changed, loaded, saving, ret, faulted>>

(* DConfigFile::load: the meta, then the global cache.                     *)
Load ==
    /\ Idle
    /\ meta' = Merge(meta, installed)
    /\ IF installed = EmptyMeta
       THEN ret' = FALSE /\ UNCHANGED <<cache, loaded>>
       ELSE LoadCache(GlobalCache)
    /\ UNCHANGED <<env, running, changed, created, saving, faulted>>

CreateUserCache(u) ==
    /\ Idle
    /\ u \notin created
    /\ created' = created \cup {u}
    /\ UNCHANGED <<env, running, meta, cache, changed, loaded, saving, ret, faulted>>

(* DConfigCache::load on a user's cache.                                   *)
LoadUserCache(u) ==
    /\ Idle
    /\ u \in created
    /\ LoadCache(u)
    /\ UNCHANGED <<env, running, meta, changed, created, saving, faulted>>

(* DConfigFile::setValue(key, value, _, userCache) with a valid value.     *)
SetValue(k, v, u) ==
    LET c == GetCache(k, u)
        w == Coerce(v, meta[k].value)
        s == meta[k].serial IN
    /\ Idle
    /\ u \in created \cup {None}
    /\ IF c # None /\ w # NoValue /\ NeedsUpdate(cache[c][k], w, s)
       THEN /\ cache' = [cache EXCEPT ![c][k] = NewEntry(w, s)]
            /\ changed' = [changed EXCEPT ![c] = TRUE]
            /\ ret' = TRUE
       ELSE ret' = FALSE /\ UNCHANGED <<cache, changed>>
    /\ UNCHANGED <<env, running, meta, created, loaded, saving, faulted>>

ResetSlip(k, u) ==  \* does not mark the cache as changed
    LET c == GetCache(k, u) IN
    /\ Idle
    /\ u \in created \cup {None}
    /\ c # None
    /\ cache' = [cache EXCEPT ![c][k] = NoEntry]
    /\ ret' = TRUE
    /\ UNCHANGED <<env, running, meta, changed, created, loaded, saving, faulted>>

(* DConfigFile::setValue with an invalid value: DConfigCacheImpl::remove.  *)
Reset(k, u) ==
    LET c == GetCache(k, u) IN
    /\ Idle
    /\ u \in created \cup {None}
    /\ IF c # None
       THEN /\ cache' = [cache EXCEPT ![c][k] = NoEntry]
            /\ changed' = [changed EXCEPT ![c] = TRUE]
            /\ ret' = TRUE
       ELSE ret' = FALSE /\ UNCHANGED <<cache, changed>>
    /\ UNCHANGED <<env, running, meta, created, loaded, saving, faulted>>

(* DConfigCacheImpl::save, up to and including QFile::open(WriteOnly).     *)
(* cacheChanged is cleared before anything can fail.                       *)
SaveUnchanged(c) ==
    /\ Idle
    /\ c \in created
    /\ ~changed[c]
    /\ ret' = TRUE
    /\ UNCHANGED <<env, running, objs, saving, faulted>>

SaveFails(c) ==
    /\ Idle
    /\ c \in created
    /\ changed[c]
    /\ Faults \cap {"dir", "open"} # {}
    /\ changed' = [changed EXCEPT ![c] = FALSE]
    /\ faulted' = faulted \cup {c}
    /\ ret' = FALSE
    /\ UNCHANGED <<env, running, meta, cache, created, loaded, saving>>

SaveOpen(c) ==
    /\ Idle
    /\ c \in created
    /\ changed[c]
    /\ changed' = [changed EXCEPT ![c] = FALSE]
    /\ file' = [file EXCEPT ![c] = Unreadable("torn")]
    /\ saving' = c
    /\ UNCHANGED <<installed, running, meta, cache, created, loaded, ret, faulted>>

(* DConfigCacheImpl::save, the write: complete; short; or short without    *)
(* the program noticing, for what flush() and close() run into is not      *)
(* looked at.                                                              *)
SaveWrite ==
    /\ running /\ saving # None
    /\ file' = [file EXCEPT ![saving] = Stored(cache[saving])]
    /\ faulted' = faulted \ {saving}
    /\ saving' = None
    /\ ret' = TRUE
    /\ UNCHANGED <<installed, running, objs>>

SaveShort ==
    /\ running /\ saving # None
    /\ "write" \in Faults
    /\ faulted' = faulted \cup {saving}
    /\ saving' = None
    /\ ret' = FALSE
    /\ UNCHANGED <<env, running, objs>>

SaveLost ==
    /\ running /\ saving # None
    /\ "flush" \in Faults
    /\ faulted' = faulted \cup {saving}
    /\ saving' = None
    /\ ret' = TRUE
    /\ UNCHANGED <<env, running, objs>>

(* The process exits or crashes: DConfigFile saves nothing on destruction. *)
Stop ==
    /\ running
    /\ running' = FALSE
    /\ meta' = EmptyMeta
    /\ cache' = [c \in Caches |-> EmptyCache]
    /\ changed' = [c \in Caches |-> FALSE]
    /\ created' = {}
    /\ loaded' = {}
    /\ saving' = None
    /\ ret' = TRUE
    /\ faulted' = {}
    /\ UNCHANGED env

(* The package manager installs another meta; serials only grow unless     *)
(* Downgrades.                                                             *)
Upgrade(m) ==
    /\ m # installed
    /\ Downgrades \/ \A k \in Keys : m[k].serial >= installed[k].serial
    /\ installed' = m
    /\ UNCHANGED <<file, running, objs, saving, ret, faulted>>

-----------------------------------------------------------------------------
Init ==
    /\ installed \in Metas \cup {EmptyMeta}
    /\ file \in [Caches -> {[status |-> s, content |-> EmptyCache] : s \in Leftovers}]
    /\ running = FALSE
    /\ meta = EmptyMeta
    /\ cache = [c \in Caches |-> EmptyCache]
    /\ changed = [c \in Caches |-> FALSE]
    /\ created = {}
    /\ loaded = {}
    /\ saving = None
    /\ ret = TRUE
    /\ faulted = {}

Save == \E c \in Caches : SaveUnchanged(c) \/ SaveFails(c) \/ SaveOpen(c)

Next ==
    \/ Start \/ Load \/ Stop
    \/ \E u \in Users : CreateUserCache(u) \/ LoadUserCache(u)
    \/ \E k \in Keys, u \in Users \cup {None} :
          Reset(k, u) \/ \E v \in Values : SetValue(k, v, u)
    \/ Save \/ SaveWrite \/ SaveShort \/ SaveLost
    \/ \E m \in Metas : Upgrade(m)

Spec == Init /\ [][Next]_vars

-----------------------------------------------------------------------------
(* Every variable has its type; the global cache lives as long as the      *)
(* process, and only caches that exist are loaded, saved or left behind.   *)
TypeOK ==
    /\ installed \in [Keys -> Item]
    /\ file \in [Caches -> CacheFile]
    /\ running \in BOOLEAN
    /\ meta \in [Keys -> Item]
    /\ cache \in [Caches -> [Keys -> Entry]]
    /\ changed \in [Caches -> BOOLEAN]
    /\ created \subseteq Caches
    /\ IF running THEN GlobalCache \in created ELSE created = {}
    /\ loaded \subseteq created
    /\ saving \in created \cup {None}
    /\ ret \in BOOLEAN
    /\ faulted \subseteq created

(* A loaded cache that is not marked cacheChanged, and that no failed save *)
(* left behind (noticed by save or not), is exactly what a later load of   *)
(* its file would produce: nothing a program set or reset is forgotten by  *)
(* the change flag.                                                        *)
CleanMeansStored ==
    \A c \in loaded :
        ~changed[c] /\ saving # c /\ c \notin faulted
            => file[c].content = cache[c]

(* No stored or cached entry carries a serial newer than the meta it is    *)
(* judged against: an entry retired by a serial bump can only stay retired.*)
Ahead(entry, item) == entry.serial >= 0 /\ entry.serial > item.serial

SerialsNeverAhead ==
    \A c \in Caches, k \in Keys :
        /\ ~Ahead(file[c].content[k], installed[k])
        /\ Present(k, meta) => ~Ahead(cache[c][k], meta[k])

(* A valid value setValue accepts (returns true) for a writable item is    *)
(* what the caller reads from then on, and every user if the item is       *)
(* global.                                                                 *)
AcceptedIsVisible ==
    [][\A k \in Keys, v \in Values, u \in Users \cup {None} :
          SetValue(k, v, u) /\ ret' /\ meta[k].readWrite =>
              \A w \in (IF meta[k].global THEN Users ELSE {u}) :
                  Value(k, w)' = Coerce(v, meta[k].value)]_vars

(* "false if no update was needed" (DConfigFile::setValue): when setValue  *)
(* refuses a convertible value of a writable item, it is read already.     *)
RefusedIsNoOp ==
    [][\A k \in Keys, v \in Values, u \in Users :
          /\ SetValue(k, v, u)
          /\ ~ret'
          /\ meta[k].readWrite
          /\ Coerce(v, meta[k].value) # NoValue
          => Value(k, u)' = Coerce(v, meta[k].value)]_vars

(* What the clients of this process see, and the specification it meets: a *)
(* call made for one user never changes what another one reads, a global   *)
(* item reads alike for all of them, a read-only item shows its default.   *)
View == INSTANCE DConfigView WITH
    view     <- [u \in Users |-> [k \in Keys |->
                   Value(k, IF u \in created THEN u ELSE None)]],
    default  <- [k \in Keys |-> meta[k].value],
    serial   <- [k \in Keys |-> meta[k].serial],
    shared   <- {k \in Keys : meta[k].global},
    writable <- {k \in Keys : meta[k].readWrite}

ViewSpec == View!Spec

(* A stored value that the installed meta's serial has retired never comes *)
(* back: no upgrade makes the same stored entry acceptable again.          *)
RetiredStaysRetired ==
    [][\A c \in Caches, k \in Keys :
          LET e == file[c].content[k] IN
          /\ e = file'[c].content[k]
          /\ ~CheckSerial(installed[k].serial, e.serial)
          => ~CheckSerial(installed'[k].serial, e.serial)]_vars

(* "it promises `setValue` don't change meta's type" (DConfigFilePrivate:: *)
(* setValue): whatever is cached for an item has the type of its default.  *)
TypeKept ==
    \A c \in Caches, k \in Keys :
        Present(k, cache[c]) /\ Present(k, meta) =>
            TypeOf[cache[c][k].value] = TypeOf[meta[k].value]

(* A save that returns true has put the cache on disk, unless what went    *)
(* wrong did so in flush() or close().                                     *)
SavedIsOnDisk ==
    [][\A c \in loaded :
          (SaveUnchanged(c) \/ (saving = c /\ SaveWrite)) /\ ret'
              => file'[c].content = cache[c]]_vars
-----------------------------------------------------------------------------
(* Instances for TLC: one item per user ("k") and one global item ("g").   *)
(* "n" is an integer QVariant that converts to the string "a" and back,    *)
(* "b" a string that is no number, "d" a double that converts to the       *)
(* string "a".                                                             *)
MCTypeOf ==
    [v \in Values |-> CASE v = "n" -> "Int" [] v = "d" -> "Double" [] OTHER -> "Str"]

MCConverted ==
    [v \in Values |-> [t \in Types |->
        CASE t = MCTypeOf[v]                -> v
          [] v = "a" /\ t = "Int"           -> IF "n" \in Values THEN "n" ELSE NoValue
          [] v \in {"n", "d"} /\ t = "Str"  -> "a"
          [] OTHER                          -> NoValue]]

MCSerials == -1..1

MCTypes == {"Str", "Int", "Double"}

(* The meta with a default, a serial and permissions for every key.        *)
MCMeta(v, serial, rw) ==
    [k \in Keys |-> [value |-> v, serial |-> serial,
                     readWrite |-> rw, global |-> k = "g"]]

OneMeta     == {MCMeta("a", 0, TRUE)}
BumpedMetas == {MCMeta("a", 0, TRUE), MCMeta("a", 1, TRUE), MCMeta("a", 1, FALSE)}
PlainMetas  == BumpedMetas \cup {MCMeta("a", -1, TRUE)}

(* Users are alike in every formula that is checked.                       *)
UserSymmetry == Permutations(Users)
=============================================================================
