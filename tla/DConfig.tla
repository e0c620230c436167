------------------------------ MODULE DConfig ------------------------------
(***************************************************************************)
(* DConfig objects with the FileBackend (src/dconfig.cpp), one per         *)
(* process, that share cache files.  A configuration is loaded when the    *)
(* object is made and saved when it is destroyed; an application's         *)
(* configuration falls back to the generic one of the same name (NoAppId). *)
(*                                                                         *)
(* The metas stand still here: DConfigMeta and DConfigFile model how they  *)
(* are read and replaced.                                                  *)
(***************************************************************************)
EXTENDS DConfigInfo, Sequences, TLC

CONSTANTS
    Procs,         \* DConfig objects, each in a process of its own
    Configs,       \* configurations: one name under several application ids
    Generic,       \* the configuration without application id (NoAppId)
    ConfigOf,      \* [Procs -> Configs]
    Users,
    UserOf,        \* [Procs -> Users]
    GlobalCache,   \* stands for a user in the name of a global cache file
    Meta,          \* [Configs -> metas], EmptyMeta where none is installed
    Unwritable,    \* cache files whose opening for writing may fail
    InitialFiles,  \* what the cache files may be at first
    Kills,         \* TRUE: a process may be killed
    None

(* The cache file of a user, or of GlobalCache, for a configuration.       *)
Files == Configs \X (Users \cup {GlobalCache})

CacheFile == [status : {"ok", "torn", "foreign"}, content : [Keys -> Entry]]

ASSUME DConfigAssumption ==
    /\ Generic \in Configs
    /\ ConfigOf \in [Procs -> Configs]
    /\ UserOf \in [Procs -> Users]
    /\ GlobalCache \notin Users
    /\ Meta \in [Configs -> [Keys -> Item]]
    /\ Unwritable \subseteq Files
    /\ InitialFiles \subseteq [Files -> CacheFile]
    /\ Kills \in BOOLEAN
    /\ None \notin Procs \X Keys

VARIABLES
    file,       \* the cache files
    pc,         \* pc[p]: "off", "on", "closing" or, after a crash, "crashed"
    cache,      \* cache[p][f]: the DConfigCacheImpl of p for file f
    changed,    \* changed[p]: files whose cache in p is marked cacheChanged
    generic,    \* generic[p]: p holds a genericConfigFile
    todo,       \* todo[p]: the files ~FileBackend has still to save
    writing,    \* writing[p]: Head(todo[p]) is truncated and not written
    announced,  \* <<p, k>> if the last step emitted valueChanged(k) in p
    promise     \* history: what a file should hold once nobody has it open

vars == <<file, pc, cache, changed, generic, todo, writing, announced, promise>>

NoCaches == [f \in Files |-> EmptyCache]

UserFile(p)   == <<ConfigOf[p], UserOf[p]>>
GlobalFile(p) == <<ConfigOf[p], GlobalCache>>
Own(p)        == {UserFile(p), GlobalFile(p)}

-----------------------------------------------------------------------------
(* FileBackend::load.  DConfigFile::load ends at the first of meta, global *)
(* cache and user cache that fails; what was loaded before stays.          *)
Sound(f) == file[f].status # "foreign"
Installed(c) == Meta[c] # EmptyMeta

Complete(c, u) == Installed(c) /\ Sound(<<c, GlobalCache>>) /\ Sound(<<c, u>>)

Fallback(p) ==
    /\ ConfigOf[p] # Generic
    /\ Complete(ConfigOf[p], UserOf[p])
    /\ Complete(Generic, UserOf[p])

Loaded(p) ==
    LET c == ConfigOf[p] IN
    {f \in Own(p) : /\ Installed(c) /\ Sound(GlobalFile(p)) /\ Sound(f)}
    \cup (IF Fallback(p) THEN {<<Generic, UserOf[p]>>, <<Generic, GlobalCache>>} ELSE {})

(* DConfigFile::isValid and DConfigPrivate::invalid.                       *)
Valid(p) == pc[p] = "on" /\ Installed(ConfigOf[p])

(* DConfigFile::cacheValue of p for configuration c.                       *)
Cached(p, c, k) ==
    LET f == <<c, IF Meta[c][k].global THEN GlobalCache ELSE UserOf[p]>> IN
    CacheValue(Meta[c][k], cache[p][f][k])

(* configFile->value(key), without a user cache.                           *)
Default(p, c, k) ==
    ItemValue(Meta[c][k],
              IF Meta[c][k].global THEN cache[p][<<c, GlobalCache>>][k] ELSE NoEntry)

(* FileBackend::value, NoValue standing for the caller's fallback.         *)
Reads(p, k) ==
    LET g(op) == IF generic[p] THEN op ELSE NoValue IN
    OrElse(Cached(p, ConfigOf[p], k),
        OrElse(g(Cached(p, Generic, k)),
            OrElse(Default(p, ConfigOf[p], k), g(Default(p, Generic, k)))))

Values0(f) == [k \in Keys |-> file[f].content[k].value]

(* What p has set and not saved is lost with it.                           *)
Lose(p) ==
    promise' = [f \in Files |->
        IF f \in changed[p] \/ (writing[p] /\ f = Head(todo[p]))
        THEN Values0(f) ELSE promise[f]]

Vanish(p) ==
    /\ cache' = [cache EXCEPT ![p] = NoCaches]
    /\ changed' = [changed EXCEPT ![p] = {}]
    /\ generic' = [generic EXCEPT ![p] = FALSE]
    /\ todo' = [todo EXCEPT ![p] = <<>>]
    /\ writing' = [writing EXCEPT ![p] = FALSE]
    /\ announced' = None

-----------------------------------------------------------------------------
(* DConfig::DConfig.                                                       *)
Open(p) ==
    /\ pc[p] \in {"off", "crashed"}
    /\ pc' = [pc EXCEPT ![p] = "on"]
    /\ cache' = [cache EXCEPT ![p] =
                    [f \in Files |-> IF f \in Loaded(p) THEN file[f].content
                                     ELSE EmptyCache]]
    /\ generic' = [generic EXCEPT ![p] = Fallback(p)]
    /\ announced' = None
    /\ UNCHANGED <<file, changed, todo, writing, promise>>

TargetSlip(p, k) ==  \* an item the generic configuration has is set there
    LET c == IF Present(k, Meta[Generic]) THEN Generic ELSE ConfigOf[p] IN
    <<c, IF Meta[c][k].global THEN GlobalCache ELSE UserOf[p]>>

(* The cache DConfigFilePrivate::getCache selects for a set.               *)
Target(p, k) ==
    IF Meta[ConfigOf[p]][k].global THEN GlobalFile(p) ELSE UserFile(p)

SetValueSlip(p, k, v) ==  \* announces a value only if it was not set before
    LET f == Target(p, k)
        item == Meta[ConfigOf[p]][k]
        w == Coerce(v, item.value) IN
    /\ Valid(p)
    /\ w # NoValue /\ NeedsUpdate(cache[p][f][k], w, item.serial)
    /\ announced' = IF Present(k, cache[p][f]) THEN None ELSE <<p, k>>
    /\ cache' = [cache EXCEPT ![p][f][k] = NewEntry(w, item.serial)]
    /\ changed' = [changed EXCEPT ![p] = @ \cup {f}]
    /\ promise' = [promise EXCEPT ![f][k] = w]
    /\ UNCHANGED <<file, pc, generic, todo, writing>>

(* DConfig::setValue with a valid value; a refused one changes nothing.    *)
SetValue(p, k, v) ==
    LET f == Target(p, k)
        item == Meta[ConfigOf[p]][k]
        w == Coerce(v, item.value) IN
    /\ Valid(p)
    /\ w # NoValue /\ NeedsUpdate(cache[p][f][k], w, item.serial)
    /\ announced' = <<p, k>>
    /\ cache' = [cache EXCEPT ![p][f][k] = NewEntry(w, item.serial)]
    /\ changed' = [changed EXCEPT ![p] = @ \cup {f}]
    /\ promise' = [promise EXCEPT ![f][k] = w]
    /\ UNCHANGED <<file, pc, generic, todo, writing>>

(* DConfig::reset: announced whether or not there was anything to reset.   *)
Reset(p, k) ==
    LET f == Target(p, k) IN
    /\ Valid(p)
    /\ announced' = <<p, k>>
    /\ cache' = [cache EXCEPT ![p][f][k] = NoEntry]
    /\ changed' = [changed EXCEPT ![p] = @ \cup {f}]
    /\ promise' = [promise EXCEPT ![f][k] = NoValue]
    /\ UNCHANGED <<file, pc, generic, todo, writing>>

(* FileBackend::value of an item without a default dereferences the        *)
(* genericConfigFile, which may be null.                                   *)
ReadNull(p, k) ==
    /\ Valid(p)
    /\ Cached(p, ConfigOf[p], k) = NoValue
    /\ Default(p, ConfigOf[p], k) = NoValue
    /\ ~generic[p]
    /\ pc' = [pc EXCEPT ![p] = "crashed"]
    /\ Lose(p)
    /\ Vanish(p)
    /\ UNCHANGED file

(* The process is killed: nothing is saved.                                *)
Kill(p) ==
    /\ Kills
    /\ pc[p] \in {"on", "closing"}
    /\ pc' = [pc EXCEPT ![p] = "off"]
    /\ Lose(p)
    /\ Vanish(p)
    /\ UNCHANGED file

-----------------------------------------------------------------------------
(* FileBackend::~FileBackend saves user and global cache, then those of    *)
(* the generic configuration.                                              *)
Close(p) ==
    /\ pc[p] = "on"
    /\ pc' = [pc EXCEPT ![p] = "closing"]
    /\ todo' = [todo EXCEPT ![p] =
                   <<UserFile(p), GlobalFile(p)>> \o
                   (IF generic[p] THEN <<<<Generic, UserOf[p]>>, <<Generic, GlobalCache>>>>
                    ELSE <<>>)]
    /\ announced' = None
    /\ UNCHANGED <<file, cache, changed, generic, writing, promise>>

Saving(p) == pc[p] = "closing" /\ ~writing[p] /\ todo[p] # <<>>

SaveUnchanged(p) ==
    /\ Saving(p)
    /\ Head(todo[p]) \notin changed[p]
    /\ todo' = [todo EXCEPT ![p] = Tail(@)]
    /\ announced' = None
    /\ UNCHANGED <<file, pc, cache, changed, generic, writing, promise>>

SaveFails(p) ==
    LET f == Head(todo[p]) IN
    /\ Saving(p)
    /\ f \in changed[p] \cap Unwritable
    /\ changed' = [changed EXCEPT ![p] = @ \ {f}]
    /\ todo' = [todo EXCEPT ![p] = Tail(@)]
    /\ promise' = [promise EXCEPT ![f] = Values0(f)]
    /\ announced' = None
    /\ UNCHANGED <<file, pc, cache, generic, writing>>

SaveOpenSlip(p) ==  \* saves the caches of both scopes to the file at hand
    LET f == Head(todo[p]) IN
    /\ Saving(p)
    /\ f \in changed[p]
    /\ changed' = [changed EXCEPT ![p] = {}]
    /\ file' = [file EXCEPT ![f] = [status |-> "torn", content |-> EmptyCache]]
    /\ writing' = [writing EXCEPT ![p] = TRUE]
    /\ announced' = None
    /\ UNCHANGED <<pc, cache, generic, todo, promise>>

SaveOpen(p) ==
    LET f == Head(todo[p]) IN
    /\ Saving(p)
    /\ f \in changed[p]
    /\ changed' = [changed EXCEPT ![p] = @ \ {f}]
    /\ file' = [file EXCEPT ![f] = [status |-> "torn", content |-> EmptyCache]]
    /\ writing' = [writing EXCEPT ![p] = TRUE]
    /\ announced' = None
    /\ UNCHANGED <<pc, cache, generic, todo, promise>>

(* If another process has written the file since it was truncated, what it *)
(* wrote may be the longer, and its tail makes the file unreadable.        *)
SaveWrite(p) ==
    LET f == Head(todo[p]) IN
    /\ writing[p]
    /\ \/ file' = [file EXCEPT ![f] = [status |-> "ok", content |-> cache[p][f]]]
       \/ /\ file[f].status = "ok"
          /\ file' = [file EXCEPT ![f] = [status |-> "torn", content |-> EmptyCache]]
    /\ writing' = [writing EXCEPT ![p] = FALSE]
    /\ todo' = [todo EXCEPT ![p] = Tail(@)]
    /\ announced' = None
    /\ UNCHANGED <<pc, cache, changed, generic, promise>>

Closed(p) ==
    /\ pc[p] = "closing" /\ todo[p] = <<>>
    /\ pc' = [pc EXCEPT ![p] = "off"]
    /\ Vanish(p)
    /\ UNCHANGED <<file, promise>>

-----------------------------------------------------------------------------
Init ==
    /\ file \in InitialFiles
    /\ pc = [p \in Procs |-> "off"]
    /\ cache = [p \in Procs |-> NoCaches]
    /\ changed = [p \in Procs |-> {}]
    /\ generic = [p \in Procs |-> FALSE]
    /\ todo = [p \in Procs |-> <<>>]
    /\ writing = [p \in Procs |-> FALSE]
    /\ announced = None
    /\ promise = [f \in Files |-> Values0(f)]

Next == \E p \in Procs :
    \/ Open(p) \/ Close(p) \/ Closed(p) \/ Kill(p)
    \/ \E k \in Keys : Reset(p, k) \/ ReadNull(p, k) \/ \E v \in Values : SetValue(p, k, v)
    \/ SaveUnchanged(p) \/ SaveFails(p) \/ SaveOpen(p) \/ SaveWrite(p)

Spec == Init /\ [][Next]_vars

-----------------------------------------------------------------------------
(* Every variable has its type; only caches of the own configuration are   *)
(* ever marked changed.                                                    *)
TypeOK ==
    /\ file \in [Files -> CacheFile]
    /\ pc \in [Procs -> {"off", "on", "closing", "crashed"}]
    /\ cache \in [Procs -> [Files -> [Keys -> Entry]]]
    /\ changed \in [Procs -> SUBSET Files]
    /\ generic \in [Procs -> BOOLEAN]
    /\ todo \in [Procs -> Seq(Files)]
    /\ writing \in [Procs -> BOOLEAN]
    /\ announced \in (Procs \X Keys) \cup {None}
    /\ promise \in [Files -> [Keys -> MaybeValue]]
    /\ \A p \in Procs : changed[p] \subseteq Own(p)
    /\ \A p \in Procs : writing[p] => pc[p] = "closing" /\ todo[p] # <<>>

(* When nobody has a configuration open, its files hold the last value set *)
(* for every item: what was set before survives closing, reopening, kills  *)
(* of later sessions and failures to save other files.  What a killed or   *)
(* failed session loses are its own unsaved changes and, if it was killed  *)
(* in the middle of a write, that file.                                    *)
LastSettingKept ==
    \A f \in Files :
        (\A p \in Procs : ConfigOf[p] = f[1] => pc[p] \in {"off", "crashed"})
            => Values0(f) = promise[f]

(* A program that reads an item again only after valueChanged never works  *)
(* with a stale value: what an open DConfig returns changes only in a step *)
(* that emits valueChanged for that item.                                  *)
ChangeIsAnnounced ==
    [][\A p \in Procs, k \in Keys :
          pc[p] = "on" /\ pc'[p] = "on" /\ Reads(p, k)' # Reads(p, k)
              => announced' = <<p, k>>]_vars

(* A cache file only ever changes by a process of its own configuration    *)
(* that is closing it: applications read the generic one, never write it.  *)
OnlyOwnersWrite ==
    [][\A f \in Files : file'[f] # file[f] =>
          \E p \in Procs : f \in Own(p) /\ pc[p] = "closing"]_vars

(* "The write operation will take effect for all users" (DConfigFile::     *)
(* Global): once nobody has the configuration open, the global cache file  *)
(* holds the last value any of them has set.                               *)
GlobalTakesEffect ==
    \A c \in Configs :
        (\A p \in Procs : ConfigOf[p] = c => pc[p] \in {"off", "crashed"})
            => Values0(<<c, GlobalCache>>) = promise[<<c, GlobalCache>>]

(* "fallback: the default value provided after the configuration item      *)
(* value is not obtained" (DConfig::value): reading never ends the program.*)
NeverCrashes == \A p \in Procs : pc[p] # "crashed"
-----------------------------------------------------------------------------
(* Instances for TLC.  Item "k" is per user, "g" is global, "x" is known  *)
(* to no meta of the application.                                          *)
MCSerials   == {-1, 0}
MCTypes     == {"Str"}
MCTypeOf    == [v \in Values |-> "Str"]
MCConverted == [v \in Values |-> [t \in Types |-> v]]

MCMetaOf(names) ==
    [k \in Keys |-> IF k \in names
                    THEN [value |-> "a", serial |-> 0, readWrite |-> TRUE,
                          global |-> k = "g"]
                    ELSE NoItem]

(* An application with items "k" and "g" and a generic configuration with  *)
(* "k" only, or none.                                                      *)
BothMetas == [c \in Configs |-> MCMetaOf(IF c = "app" THEN {"k", "g"} ELSE {"k"})]
OneMeta   == [c \in Configs |-> IF c = "app" THEN MCMetaOf({"k", "g"}) ELSE EmptyMeta]

(* Two processes: the application's and one of the generic configuration,  *)
(* or the application twice, for one user or for two.                      *)
AppAndGeneric == "p" :> "app" @@ "q" :> "generic"
AppTwice      == "p" :> "app" @@ "q" :> "app"
AppOnce       == "p" :> "app"
OneUser       == [p \in Procs |-> "u"]
TwoUsers      == "p" :> "u" @@ "q" :> "w"

Fresh == [status |-> "ok", content |-> EmptyCache]

NoFiles == {[f \in Files |-> Fresh]}

(* The user's file may have been written by another version.               *)
MaybeNewer == NoFiles \cup
    {[f \in Files |-> IF f = <<"app", "u">>
                      THEN [status |-> "foreign", content |-> EmptyCache]
                      ELSE Fresh]}

AllWritable   == {}
UserUncertain == {<<"app", "u">>}
=============================================================================
