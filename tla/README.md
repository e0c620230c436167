# Formal models of dtkcore

dtkcore is the non-graphical base library of the Deepin desktop: configuration
(DConfig, DSettings), D-Bus proxies, file watching, the DCI container format,
asynchronous calls, logging and small utilities, all on top of Qt. This directory
holds TLA+ models of its stateful parts, TLC runs on small instances, and TLAPS
proofs for every instance.

Paths below are relative to the repository (`src/...`).

## 1. The system: components, state, operations, hard parts

| Component | State it keeps | Operations | What is hard | What makes it correct |
|---|---|---|---|---|
| **DConfigFile / DConfigCache** (`src/dconfigfile.cpp`) | the loaded meta, a global cache, caches handed out per user, a change flag per cache; JSON files on disk | load, value, setValue, reset, save, createUserCache | upgrades of the meta while old entries are stored; a save that fails or is cut off; one item, two scopes | an accepted value is read; retired entries stay retired; nothing clean is unsaved; users are isolated |
| **DConfigMeta** (same file) | items with value, serial, permissions, flags | metaPath, overrideDirs, loadOverrides, load | precedence over directories, subpath levels, names; files replaced during load; partial failure | every field from the file of highest precedence; items keep a value; `nooverride` holds |
| **DConfig, FileBackend** (`src/dconfig.cpp`) | own and generic DConfigFile with caches, loaded once | load, value (four-stage fallback), setValue, reset, destructor that saves | several processes over one file; kill, crash, unwritable or foreign files | the last setting survives; changes are announced; only owners write |
| **DConfig, DBusBackend** (same file) | a manager object of the configuration service, taken once | choice of the backend, load, value, setValue, reset, valueChanged, release | the service dies, restarts and changes values between the steps of load | what was read last is what the service stores; the service counts only objects that live |
| **Generated preference class, dconfig2cpp** (`src/log/dconfig_org_deepin_dtk_preference.hpp`, `tools/dconfig2cpp`) | copies of all values, an atomic status, marks of keys that were set | construction in the configuration's thread, setters, changes, destruction; generation of the class | destruction while the other thread constructs; own and others' changes cross | copies settle; exactly one side frees; the class is what the meta file says |
| **DSettings** (`src/settings`) | groups and option objects in the caller's thread, a backend in a worker thread | parse, lookup, setOption, sync, reset, setBackend, backend's optionChanged | queued calls one way, queued echoes the other; a change of the backend | the last set value is the stored one; sync returns after all earlier sets; a key finds its option |
| **DDBusInterface, DDBusExtendedAbstractInterface** (`src/util`) | service validity, cached properties, one pending GetAll | property, setProperty, owner and property signals | the service starts between query and subscription; answers and signals cross | the proxy's validity follows the bus; listeners end with the present value |
| **File watching** (`src/filesystem/d*watcher*.cpp`) | inotify descriptors, path↔id maps, a static count of watchers per path | add/remove path, start/stop, event pairing | shared counts; stop/restart; rename pairs split over reads | a started watcher's path is watched; a count is the number of its users; listeners get the picture right |
| **DDciFile, its engine, the tool dci** (`src/dci`, `tools/dci`) | a tree of nodes with an index from paths to nodes, shared by engines of one thread | mkdir, write, remove, rename, copy, link; open, flush, close; create, export | index and tree must agree; save truncates first; links lead anywhere | the index is the tree; what was closed is on disk; what is exported is the source |
| **DAsync, DThreadUtil, DTimedLoop** (`include/util/dasync.h`, `src/util`) | status flags, queues, condition variables; context objects; timers | post, start, cancel, wait; run and exec in a thread; exec with a limit | flags without a lock; a thread that has no loop yet; a stale timer | every wait ends; each posted job is done once and in order |
| **DCapManager, DCapFile, DCapDir, their engine** (`src/filesystem/dcap*.cpp`) | list of permitted paths | append, remove, each file operation | cover by leading characters; repetitions; operations with two paths | what was permitted can be used until it is removed |
| **DLogManager** (`src/log/LogManager.cpp`) | registered appenders, rules | register, rules of two configurations and the environment | configurations that come up late, fail or change | the rules in force are those of the order of precedence |
| **DTrashManager, DRecentManager** | files of the desktop's trash and recent lists | moveToTrash, cleanTrash; addItem, removeItems | steps that fail apart; read–modify–write by several programs | trashed files are described; no item is lost or doubled |
| **DVtableHook** (`src/util/dvtablehook.cpp`) | maps by address of objects and tables | override, reset, call of the original | addresses that are used again | a call reaches what was put in place for this object |
| **DDesktopEntry** (`src/ddesktopentry.cpp`) | sections, parsed on demand | value, setters, remove, save | parsed and raw sections in one file; saves that break off | the file reads as what was read and set |
| **DSGApplication, DSysInfo, DLicenseInfo** | an identity kept for ever; versions kept once read; a list of components | id, getId; queries; load | process numbers used again; files replaced between reads | what is kept is what one process or file says |
| **DExpected** (`include/base/dexpected.h`) | a value or an error in one storage | construct, assign, emplace, swap | constructors that throw in between | it holds what was put in last |
| **Texts** (`src/util`: encodings, pinyin, units) | files; static tables | convert, detect; pinyin; format | conversion in place; tables filled without a lock; a recursion | the text, the readings and the amount are kept |
| **Other utilities, other tools** | none that lasts | single requests, conversions of one text into another | nothing to interleave | — |

Interactions: DConfig owns a DConfigFile (FileBackend) or a D-Bus proxy
(DBusBackend); a DSettings backend may be a DConfig; DLogManager reads a DConfig;
DConfigFile reads what packages install and what other processes save; dconfig2cpp reads
the same meta files and generates classes that own a DConfig; DFileWatcher
sits on DFileSystemWatcher; the DCI engine and the tool dci sit on DDciFile and QFile.

`PROJECT.json` lists every component with its status and every hazard with its
line.

## 2. Modules

    DConfigInfo            data of a configuration and pure functions on it
      DConfigFile          one process: meta, caches, files
        = DConfigView      what clients are promised (refined by DConfigFile)
        DConfigFileProofs
      DConfig              processes with a FileBackend each
        DConfigProofs
    DConfigMeta            finding and loading meta and overrides
        DConfigMetaProofs
    DFileWatcher           watched files: manager, watchers, inotify
        DFileWatcherProofs
    Clients of services                                            MCBus
      DDBusExtendedInterface, DDBusInterface, DConfigService
        BusProofs (with QueueTheorems: lemmas on queues)
    Work handed between threads                                    MCThreads
      DAsync, DThreadUtils, DTimedLoop,
      DConfigPreference
        ThreadProofs (with QueueTheorems)
    Parts that work by themselves                                  MCLibrary
      of which in Library: DSettings, DDciFile, DDciFileEngine,
      DTrashManager, DRecentManager, DCap, DVtableHook, DExpected, DLog,
      DSysInfo, DLicenseInfo, DSGApplication
        LibraryProofs
      DSettingsGroup; DDciFormat, DciTool; DFileWatcherSignals;
      DDesktopEntry; DTextEncoding, DPinyin, DUnitFormatter; DConfig2Cpp

The data TLC needs stand at the end of the module they are for, those of the parts in the
`MC` modules.

`MCBus`, `MCThreads` and `MCLibrary` hold parts that share no state. The initial state
chooses which one is `active`; only its steps are taken and the variables of the others
rest (their initial states are made one), so that one run explores each part as if it were
alone. `Of(part, P)` states a property of the active part. A property of such a module is
the conjunction of what its parts promise of one kind, and every conjunct is also a
definition of the part's module, where its comment is.

A definition named `XSlip` is `X` with one plausible programming error. It stands
before `X`, no specification uses it, and replacing `X` by it must violate the
property that `PROJECT.json` ("mutants") names: this shows that the property
depends on what the code does.

### DConfigInfo

A `QHash<QString, QVariantHash>` yields an invalid value and serial -1 for a missing
key, so it is a total function on `Keys` into entries (value and serial) or meta
items (with permissions and the flag `global`). Values are opaque, with a type each
and a table `Converted` for `QVariant::convert`. `CheckSerial`, `Coerce`,
`NeedsUpdate`, `NewEntry`, `Merge`, `CacheValue` and `ItemValue` are
`checkSerial`, the conversions of `setValue`, the test of `DConfigCacheImpl::setValue`,
what it writes, `DConfigInfo::update` for a whole document, `cacheValue` and `value`.
`NeedsUpdate` passes the serials to `CheckSerial` in the order the code does, which
is not the order `cacheValue` uses.

### DConfigFile

One process with one DConfigFile; the code has no threads here, so a call is one
step, except `save`, which truncates (`SaveOpen`) before it writes (`SaveWrite`): the
process may stop between the two, the write may be short and noticed (`SaveShort`), or
flush and close may fail, whose errors the code does not look at, so that save returns true
(`SaveLost`). `cacheChanged` is cleared first,
as in the code, before the directory or the open can fail (`SaveFails`). `Stop` is
exit or crash; nothing is saved then, as the destructor saves nothing. `Upgrade`,
the package manager, replaces the installed meta at any time. The history variable
`faulted` only names caches whose last save failed. A cache file is readable,
unparsable ("torn": loads as nothing, successfully) or of another magic or version
("foreign": load fails).

### DConfigView

The abstract specification: one value per user and item. A call is private to one
user and touches that user's writable, non-global items, or it concerns global items,
which all users read alike; read-only items show their default; anything may change
when another meta is loaded. `DConfigFile` implements it by the mapping `View`.

### DConfigMeta

`load` as a step machine, one file or directory per step, with `Install` between any
two: `FindMeta` (metaPath); loadOverrides as its loops go, `Visit` (the next directory, or
its deepest part that the subpath finds), `Collect` (the files of one level, put before
those collected) and `Climb` (to the parent, or on to the next directory; cdUp fails if a
package took the parent away); `LoadMeta`, `Override` (one override file), `Finish`. Every file is opened when it is its turn,
as the code's QFile objects are, so that an upgrade is seen by halves. Item names and
file names are numbers whose order is that of QJsonObject and QCollator. The two
early returns half way through a document (an item without a value) keep what came
before, and values of an earlier load stay.

### DConfig

Several DConfig objects with a FileBackend, each in a process of its own, over one
set of cache files: `Open` is constructor and load with the generic fallback
(a failure of the global cache's load skips the user's, as `||` does), `SetValue` and
`Reset` emit `valueChanged`, `Close` starts the destructor, which saves up to four
caches in order, each in two steps. If another process has written the file between
truncation and write, the result may be unreadable. `ReadNull` is the branch of
`value` that dereferences the generic configuration without a test. `promise` is
history: what each file should hold once nobody has its configuration open. The
metas stand still in this module. It models an installation whose global data
directory exists; without one, `getCacheDir` keeps a "-fake-global" directory per user.

### DFileWatcher

`DFileWatcherManager`, the watchers it hands out, the static map
`filePathToWatcherCount` and the one DFileSystemWatcher below them, all in one thread;
files come and go at any time. `Add`, `RemoveOne` and `RemoveAll` are the manager's
operations; a removed watcher stays ("doomed") until the event loop destroys it
(`Destroy`), so that two watchers can hold one path. `Start` goes up from the path
through its directories and gives up at the first that inotify refuses, undoing what it
began; `Stop` leaves a path that others hold in the watcher's list. `watched` is
`pathToID`, `live` the watches the kernel really has: it drops one with its file.
`OnCreate` is the branch of `_q_readFromInotify` that removes and adds a known path
again. Queued events are a set: their order and which of them one read returns do not
matter to what is watched, except that events of a replaced directory which one read
has already returned are still handled; the model drops them (in `blind`). The history
variable `blind` names held paths whose new file could not be noticed: created in a
directory without a live watch, gone again when IN_CREATE was read, or renamed to its
name (IN_MOVED_TO adds no watch). Left out: the signals, hard links, two spellings of a
path, renaming a watched file away, and the destruction of the manager.

### Clients of services (MCBus)

`DDBusExtendedInterface` is the proxy that caches properties. The bus keeps an owner of the
name; answers and signals wait in order in `inbox`, and a blocking call takes its answer past
it. `Handle` is the bus with its next call, `Deliver` one event of the proxy's loop with all
the slots it runs. The environment starts a service (`Appear`), ends it (`Vanish`), lets it
give up the name and live on (`Release`) until it ends too (`End`), and lets another take the
name over (`Replace`); timeouts and errors are steps as well. Values
of the property are numbered as it takes them, so a number tells which service had it.
History: `missed`, the value changed while nobody was subscribed; `silent`, the owner has
sent no value since there are receivers; `quiet`, the owner did not take a free name before
the proxy's eyes, so that no signal tells of it. `HeardIsCurrent` speaks of listeners over
restarts: from `silent` false on they have the new owner's value, and until then they have been
told of a new process.

`DDBusInterface` subscribes to NameOwnerChanged only while the name has no owner. Its pending
calls, the match rules at the bus and the parent object's properties are state. `announced`
says that the present value was sent, `unseen` that the bus told nobody of the latest start or
end: in the window between the answer to NameHasOwner and the subscription, and after the
first start it was told of, when the subscription is taken back.

`DConfigService` is the choice of the backend, DBusBackend, and the calls DConfig forwards.
Load is two steps (acquireManager, then the check of the object), the service may end between
any two and starts again without the references it counted (`epoch`). Applications read an
item whenever valueChanged tells them to; `view` is what they read.

### Work handed between threads (MCThreads)

`DAsync`: `status` is a word that owner and workers read, change and write back in two steps,
as `m_status` without a lock is; `todo[t]` is what is left of the call thread t is in, so that
post, start, cancelAll and waitForFinished interleave line by line with the worker's loop.
emitHelper is `Take` (dequeue and call), `Deliver` (enqueue the result) and `Emit` (the signal),
with the datum in `carried` between them; the main thread swaps the queues and the owner posts
in between, as neither takes the worker's mutex. That a QList is then changed by two threads
without a lock is not modelled: each of its operations is taken as whole. A
worker's wait for data ends after 200 ms by itself, so notifications of it are left out.
`VoidNext` is the specialisation without input: one place for a function instead of a queue,
and a lock that is held from `CallFunc` over `Deliver` and `Emit` to `ResetFunc`.

`DThreadUtils`: the object that runs calls in a thread is made by whoever calls first; two
callers race and a compare and swap decides. Contexts die while calls are posted.
`DTimedLoop`: timers are never taken back; `exit` hands itself to the main thread and waits.
`DConfigPreference`: the generated class; owner's thread and configuration's thread each take
their events in order, `p` is the atomic status both change.

### Parts that work by themselves (MCLibrary)

- `DSettings`: options, threads of backends with a queue in both directions, backends that
  report their writes back and that do not, sync, and a change of the backend while reports
  are under way. `DSettingsGroup`: parsing of descriptions and the lookup of keys.
- `DDciFile`: the tree by parent links and the index; every operation of the class. Calls
  that do not keep the index of a whole subtree (rename of a directory with content, removal
  with grandchildren, a rename that fails) are steps too; `wild` is set by them, because the
  code is wrong from there on. `DDciFormat`: the binary layout, written with room left for
  sizes that are filled in later. `DDciFileEngine`: engines of two threads over one real file,
  truncation at open, saves that fail before or after the truncation, mkdir and rmdir that stop
  half way (`ChangeHalf`), crashes; `spoiled` once a second thread had it loaded, `unsaved` from a
  call that failed after it changed something to the next save. `DciTool`:
  create and export step by step, with links of every direction, failures and interruptions.
- `DFileWatcherSignals`: events are read in batches of any size; the filter of equal events,
  the pairing of IN_MOVED_FROM and IN_MOVED_TO and the handlers of DFileWatcher; listeners
  keep a picture of a directory and of a file. `unheard` names what the filter has dropped.
- `DTrashManager`: every step of moveToTrash by two programs, names that are hashed until one
  is free, moves that fail. `DRecentManager`: read, change, truncate and write as steps; who
  writes over a file another program has written since both truncated it leaves the tail of the
  longer list, and with it a file that cannot be read.
- `DCap`: paths are sequences of characters, because the code compares beginnings of strings.
  `IsAbove` is the relation the file system has; where the two differ an append is `Mistaken`.
- `DDesktopEntry`: raw and parsed sections; escapes of single characters; lines that run on,
  trimming of keys and values, sections whose last line has no newline (`open`).
- `DVtableHook`: objects, addresses and tables; an object may end without its table being told.
- `DLog`: the two configurations are of the generated class: the mark "not the default" changes in
  the configuration's thread (`Initialize`, `Change`), the copy of the value when the event comes
  to the owner (`RulesChanged`), and rulesChanged is emitted only if the copy changes; `seen` is
  which marks the last choice saw. `DSysInfo`, `DLicenseInfo`, `DSGApplication`: what is read
  and kept, while the files and processes it is read from change; in DSysInfo what could not be
  read is read again at each call.
- `DExpected`: the traits of the two types choose among the code's variants, each constructor
  may throw.
- `DTextEncoding`: a file is a sequence of cells (character and encoding); bytes are counted.
  `DPinyin`: the dictionary is read under a lock, the table of tones is filled without one
  (`clash` names threads that met in it). `DUnitFormatter`: amounts are fractions, units the positions of a table.
- `DConfig2Cpp`: what of a meta file reaches the header, and when the header is truncated and
  written; marks of keys in words of bits.

## 3. Runs

| Run | Question | Bounds |
|---|---|---|
| `config_users` | Are accepted values read at once, and is all that clients see allowed by DConfigView? | 2 users (symmetric), a private and a global item, 2 values, one meta, cache files of another version at first, restarts and crashes in the middle of a save |
| `config_upgrade` | Do serials, permissions, stored values and files survive upgrades, restarts, failed saves? | 1 user, 2 items, two strings and an integer that converts, 3 metas with serials 0 and 1; open, write and flush may fail |
| `config_overrides` | Does every item get each field from the file of highest precedence? | 2 data directories, subpath of depth 1, up to 3 override files anywhere, one of them possibly torn or of another version |
| `config_packages` | What holds if files are replaced at any moment, during a load too, and does every load return? | 1 data directory, subpath of depth 2; several metas, layouts of overrides, application or generic, subpath present or not |
| `config_session` | Do settings survive closing, reopening, kills, crashes and a file that cannot be written, and are changes announced? | an application and its generic configuration in two processes of one user, whose file may be of another version at first |
| `watch_manager` | Are the shared counts right, and do held files stay watched when they are replaced? | 3 watchers (symmetric), a directory with a file in it and a file beside it, 3 watches: fewer than paths |
| `bus_clients` | Do clients of a service that starts, ends and is replaced at any moment end with its values and its state, and do their requests finish? | 3 values, 2 owners of a name, 2 requests and messages or 3 messages under way (extended proxy); 3 starts and 4 changes (plain proxy); 2 applications, 2 lives of the service, 2 signals waiting (DConfig) |
| `threads` | Is work that one thread hands to another done, once and in order, and are copies and memory right at the end? | 2 workers and 2 posts; 2 callers, a context, 3 calls; one key with 2 values set 3 times; 2 executions of a loop |
| `library` | What do twenty-one parts of the library promise through every order of their calls, failures and interruptions? | see the definitions of `MCLibrary`; mostly two of each thing; 3 words, one of which has too many readings |

Two of anything suffices for most questions: isolation needs a second user,
precedence a second directory, level and name and a third file (the one that ends the
loop), retirement a second serial, a lost write a second process, a shared count two watchers
and a third to tell "one less" from "none". Actions of the configuration modules are of one
item, so a third item adds nothing but permutations. A race needs two threads, and a third
step of one of them to undo the other's; one key stands for all of a generated class. The
instances of `MCLibrary` are chosen case by case: a link to a link, a key that comes twice, a
section that comes twice, a path that continues another's name, an encoding that lacks a
character and one that widens all, a version file with a character that is no digit.
Where `LibraryProofs` proves a property for every value of the constants its instance is the
smallest that still crosses calls: one option with three values and three changes under way
between two backends, two permitted paths. `DSG_APP_ID` is set only with the fallback allowed.
In `threads` an owner that waits, cancels or posts functions has one worker (two workers are
explored without that), and `library` follows a DCI file that two threads have loaded no
further than to the end of what is then in memory: nothing is claimed of it.
So it does after a call that failed half way, until the next save that succeeds.

No counter in the models is unbounded; the bounds are the constant sets in the
`.cfg` files, the constants marked "bound" in the modules and the definitions of the MC
modules. `CHECK_DEADLOCK` is off in `threads`, `async_wait` and `library`, whose parts come to
an end (a tool that has ended, a worker that has stopped, an object that is destroyed), and on
everywhere else.

### What the properties exclude, and why

A property names the cases the code does not promise, as history variables or as conditions of
its own, instead of leaving them out of the model.

| Property | What is outside it | Named by |
|---|---|---|
| `LastSettingKept` | saves that failed, files of a killed process; in the theorem also two processes of one configuration and global caches of another version | `promise`, `OneProcessEach`, `GlobalsAreRead` |
| `CleanMeansStored` | caches whose last save failed, noticed or not | `faulted` |
| `RefusedIsNoOp`, `RetiredStaysRetired` | serials that go down | `Downgrades` |
| `LoadedAsRanked` | loads that fail, and disks that change during the load | `steady` |
| `WatchSurvives` | files created unseen, or gone again or whose directory was replaced when their event was read | `blind` |
| `ListenersAreCurrent`, extended proxy | a value that changed while nobody was subscribed; an owner that has sent nothing: listeners keep the former value, but were told of the new process, unless that took the name over | `missed`, `silent`, `quiet` |
| `ListenersAreCurrent`, plain proxy | a process that has announced nothing, as after its start; changes told as invalidations | `announced` |
| `ValidityIsNoticed` | extended: owners that took the name over or were there before the proxy; a process that gave up its name is valid until it ends. Plain: the latest start or end was told to nobody | `quiet`, `unseen` |
| `ViewIsStored` | a service other than the one the manager came from | its condition |
| `PostedWorkIsDone` | an exec ended early by the stale timer of an earlier one counts as ended | — |
| `StoreAgrees` | options that did not change since the backend was set | `touched` |
| `IndexIsTree` | what follows a call that does not keep up the index of a subtree | `wild` |
| `DiskIsFile` | files of two threads; a call that failed after it changed something, to the next save; files inside that are open for writing | `spoiled`, `unsaved` |
| `PictureSettles` | names whose last event the filter dropped, what misleads the watcher of a file | `unheard`, `blind` |
| `TrashedIsDescribed` | names two programs chose at once | `raced` |
| `ListIsExact` | counts after calls that overlapped; lists left with a tail, which cannot be read | `overlap`, `xbel # None` |
| `HoldsWhatWasPut` | objects a guard has written over or emplace with a list has filled | `spoiled` |
| `UsableUntilRemoved` | a path left out because a sibling's name begins it (/ab beside /a) | `Mistaken` |
| `CallsReachTheirs` | addresses where the code's result is undefined | `unsound` |
| `RulesAreChosen` in `KeptIsTrue` | marks moved without rulesChanged: a value equal to the one in force was set or reset | `seen` |
| `VersionIsOneFiles` in `KeptIsTrue` | os-version files that are missing or malformed at some time | `wholeFiles` |
| `EntryIsKept` in `RoundTrip` | a save in which a line runs on into the next section; what a save does drop of values: the spaces at their ends and what follows a newline | `inFile`, `Kept` |
| `TextIsKept` in `RoundTrip` | files that a failed write, a crash, another program or a wrong encoding harmed | `harmed` |
| `ReadingsAreWhole` in `RoundTrip` | threads that met in the table | `clash` |

Each is in the list of observations below.

### Disagreements found (runs that end in a violation)

| Run | Text in the repository | What the code does |
|---|---|---|
| `config_priority` | of the override directories, later ones "have higher priority" (`src/dconfigfile.cpp:898`, :911) | each directory's files go before those collected (:971), so earlier ones win |
| `watch_restart` | restartWatcher: "Stop file watcher and then restart it to watching file changes" (`src/filesystem/dbasefilewatcher.cpp:85`) | `stop()` keeps paths others hold in the list (`src/filesystem/dfilewatcher.cpp:122`), so `start()` does not count them again, and the other watcher's end removes the watch |
| `async_wait` | waitForFinished exits after the tasks are completed once cancelAll was called (`include/util/dasync.h:367`) | the flag is tested before the wait and the notification is sent without the lock (:379): a worker that ends in between leaves the owner waiting |

### Observations without a run

Seen while modelling; the models contain this behaviour, and it is why properties have the
exceptions above.

- DConfigFile: `setValue` returns "false if no update was needed" (:1565), but line 1192 swaps
  the arguments of checkSerial, so a stored value that a meta has withdrawn cannot be set again
  (`RefusedIsNoOp` with `Downgrades = TRUE`); after a save that failed the next returns true and
  stores nothing (:1286; `SavedIsOnDisk`), and one whose flush or close fails returns true (:1320); a double set for an item of another type is stored
  unconverted (:1383, :1400; `TypeKept`) although :1369 promises the type of the meta; an item
  flagged global stays in the global cache when its file cannot be written (:261).
- DConfig: an item without default, without a generic configuration: null dereference
  (`src/dconfig.cpp:223`; `NeverCrashes`); two sessions of one configuration save whole copies,
  so the later undoes the earlier (:276; `GlobalTakesEffect`), which is why `config_session` has
  one process per configuration; a global cache of an incompatible version keeps the user's cache
  from being loaded (:183) while the configuration stays valid, so that the next set and the
  destructor write the user's file without its earlier settings (why `SettingsAreKept` assumes
  `GlobalsAreRead`; in `config_session` such a file cannot be global). The service backend never acquires a manager again after a restart of
  the service; `getOrCreateBackend` falls back to no other backend when the chosen one fails.
- D-Bus proxies: DDBusInterface misses a start between the answer to NameHasOwner and the
  subscription, does not notice the end of a service once it was valid, does not read the values
  of a service that has restarted, ignores invalidated properties, and the late-answer branch of `property` cannot be reached; the
  extended proxy emits the value set rather than the previous one (:385), passes over a
  name that is taken over, and counts a process that gave up the name as valid until it ends (:459).
- File watching: "Keep watcher" (`dfilesystemwatcher_linux.cpp:256`) does not keep it if the file
  is gone again when its IN_CREATE is read (:293) or is replaced by a rename.
- DSettings: `group` crashes when the outermost group is unknown and does not find groups of the
  third level, although `dsettings.cpp:351` says "recurrence".
- DCI: a failed assertion (`ddcifile.cpp:305`) and a stale index after renames and removals of whole
  subtrees; `DDciFileEngine::resolvePath` searches `dciFilePath` instead of the formatted path
  (:705); forceSave can fail after the shared file was changed (:662) or truncated, and mkdir
  and rmdir of several levels return half way without saving what was done (:419, :450). The tool copies links to directories (without end for a link to an ancestor), omits broken
  links, reads links out of the source wrongly, compares prefixes as text, cannot repeat an
  export that was half done, and its main returns 0 always.
- DAsync without input: `start(false)` does not defer; a function posted replaces one not yet run.
  A then function that posts to an object made outside the main thread waits for itself.
  DTimedLoop: the timer of an exec that ended early can end the next one.
- DExpected: swap of a value and an error does not exchange them: a guard puts what is left of the
  error back over the value (`SwapExchanges`); emplace with a list forgets the flag. DTrashManager:
  `trashIsEmpty` looks at the files of information only (`EmptyIsEmpty`).
- DCap: repetitions on the platform's list, cover decided by leading characters, an append that was
  covered is lost when the covering path is removed, `cdUp` leaves the checked path, an append that a
  sibling's name covered is lost with the sibling, a refused copy by the engine returns true, `rename` of a DCapFile checks only the new name.
- DDesktopEntry: comments before the first section and the earlier of two equal sections are lost,
  an escape of a control character writes two backslashes, the status is not initialised; a section
  that was not parsed and ends without a newline swallows the header behind it when saved, and
  spaces at the ends of a value do not come back.
- DRecentManager: of two programs that have both truncated the file, the one that writes last leaves
  the tail of a longer list (:185).
- DVtableHook: restoring after a call of the original can write to a freed table or undo an override;
  a reset at an address used again meets the tables of the former object.
- DLogManager: a value set to or reset from the one in force moves the mark without rulesChanged
  (`dconfig_org_deepin_dtk_preference.hpp:825` to :831), so the order of `LogManager.cpp:124` is not
  applied again; the default rules of the fallback are never used and former rules stay; the console can
  be registered twice; a log path set after registering has no effect.
- DSysInfo: versions read in halves while files are replaced, a first letter leaves the type at -1,
  `MinVersion.type` is not initialised, `memoryInstalledSize` asserts.
- Texts: a conversion to UTF-32 can run out of room, wide encodings are garbled by text mode, a failed
  convertFileEncodingTo removes an existing target, conversion in place is not atomic; `format` of an
  amount between the greatest of one unit and the least of the next calls itself without end
  (`UnitIsFound`; comment at `dabstractunitformatter.cpp:96`); the table of tones of pinyin is filled
  without a lock and readings beyond the limit are cut.
- DSGApplication: an empty first answer is kept for ever. DLicenseInfo: a failed load leaves the
  components before the bad one, and pointers handed out are deleted by the next load.
- dconfig2cpp: an unsupported version empties the header before it is refused; stream errors are not
  looked at; fractions are cut to six digits; keys that differ in the case of the first letter collide.

The definitions `NeverCrashes`, `GlobalTakesEffect`, `OnlyOwnersWrite`, `SavedIsOnDisk`, `TypeKept`,
`EmptyIsEmpty`, `SwapExchanges`, `AssertionsHold` and `UnitIsFound` stay in their modules, so that
these observations can be repeated with a `.cfg` of their own; no run checks them.

## 4. Fairness

Safety properties use `Init /\ [][Next]_vars`. Liveness:

- `LoadReturns` (DConfigMeta): weak fairness of the steps inside `load()`, `Visit`, `Collect` and
  `Climb` among them: the thread that called it runs on. That the climb ends is then what is checked. Nobody is obliged to call it; nothing is assumed of the package manager.
- `GetAllFinishes` (DDBusExtendedInterface): weak fairness of the bus (`Handle`): it answers
  every call in the end, with an error where there is no service; strong fairness of the event loop
  (`Deliver`), to which the application returns again and again between its blocking calls.
- `PostedWorkIsDone`, `AllFreed` and `WaitReturns` (MCThreads): weak fairness of the owner's steps
  and of the main thread's events; strong fairness of each worker, because it waits for a mutex that
  others take again and again, and a mutex of the system is not given to one thread for ever; timers
  fire; a loop whose quit flag is set returns. `ExecReturns` promises an answer only if the thread
  runs its loop from some time on: nobody is obliged to start it.
- `MCThreads` states one weak fairness for steps of several parts: only one part is active, so that
  the disjunction is that part's.

## 5. Proofs

`DConfigFileProofs`, for any sets of keys, users, values, serials, metas and faults:

- `TypeCorrect`: the type invariant, inductive as it stands.
- `CleanStored` from `CleanInv`. `CleanMeansStored` is not inductive, because a load
  merges the file into memory: one also has to know that entries without a value are
  the empty entry, in files and in memory (then the merge of equal contents is the
  content), and that a cache not yet loaded, unchanged and not faulted is empty.
- `SerialsInThePast`, from `SerialInv`: besides stored against installed and cached
  against loaded serials, the loaded meta must not be ahead of the installed one.
  Assumes `~Downgrades` (serials only grow): with downgrades it is false.
- `RefusedNoOp` and `RetiredForGood`, also under `~Downgrades`, from `SerialInv` and
  arithmetic on `CheckSerial`; without the assumption line 1192 refutes the first.
- `AcceptedVisible`: needs `TypeCorrect` only.
- `ImplementsView`: every step is private to a user, shared, a reload, or invisible.

`DConfigMetaProofs`, whatever is on disk and whenever it changes:

- `MetaTypeCorrect`; its main lemma is that the override list is a sequence of files
  for each of the orders `SubLists` allows.
- `ItemsHaveValues` and `ItemsStayFirm`, from `ItemsInv`, preserved because LoadMeta
  takes only items before the first without a value and Override skips firm ones.

- `LoadsAreRanked`, from `RankInv`. `LoadedAsRanked` speaks of returns only; the invariant says
  what the loops have done so far. While directories are visited, `list` has the files of the first
  n of them, each beaten by those after it, and those of the levels already climbed of the next
  (`Collecting`; `VisitOrders`, `CollectOrders` and `ClimbOrders` show that each step of the climb
  keeps this). While overrides are applied, each field of each item is
  what the files applied so far settle: that of the one among them that beats the others, else the
  meta's (`Applying`, `Settled`). A file that ends the loop hides exactly the files it is beaten by,
  because precedence is an order (`BeatsIsOrder`): at every return `AllSettled` holds, and
  the best file is the one that settled the field.

`DFileWatcherProofs`, for any finite set of watchers and any tree of paths:

- `WatcherTypeCorrect` and `WatchesSurvive`, from `WatchInv`: the manager knows each of its watchers
  under its path (`KnownByPath`), and a path with a positive count has its watch or is `blind`
  (`HeldIsWatched`): the count, which restarts make too small, is still never more than
  what is watched, and a watch is given up only when its count falls to zero.
- `CountsAreRight`, from `Inv`, under `Restarts = FALSE`: no watcher is started again while
  others hold its paths, without which `watch_restart` refutes it. `StartCounts` and `EndCounts`
  say that a start adds one holder to each path taken or changes nothing, and an end removes one.

`BusProofs`, for any number of clients, owners, values, starts, changes and calls under way. That
clients end with the present state is not inductive: `BusInv` says that whatever a client does
not know yet is under way to it (the last answer or signal of its kind in the `inbox`, a call at
the bus, a subscription before a read) or is named by the history variables, and that
nothing comes from an owner or a process still to be. Of restarts it says: an owner
that took the free name is the one the proxy knows or the last whose coming is under way
(`TakenFits`); once the owner has sent receivers a value, what they heard or are yet to hear last
is its (`SpokenFits`); of a process that ended, the end is still to come if it is the one the
proxy knows (`EndFits`). From it: `ListenersEndUpCurrent`,
`ValidityEndsUpTrue`, `ViewEndsUpStored`, `CountedIsLive` and `BusTypes`.
`QueueTheorems` has what these and the next proofs need of queues: which element of a kind
is first, last or next, when one is appended or taken.

`DConfigProofs`, for any number of processes, configurations, items and values:

- `DConfigTypes` and `OwnersWrite`, from `TypeInv`: a process has only its own files to write.
- `ChangesAreAnnounced`, an action property, from the same invariant and the four stages of `Reads`.
- `SettingsAreKept`, from `KeptInv`: what a file is to hold is in the memory of the process that has
  it dirty (`Promised`), else in the file (`Settled`); a cache that is not dirty is what the file
  says (`AsLoaded`); a process that closes still has its dirty files before it (`StillToDo`). It
  assumes that each configuration is one process's (`OneProcessEach`; two processes undo each
  other's settings, `src/dconfig.cpp:276`), and that of the files there are at first none of another
  version is global (`GlobalsAreRead`, see the observation on :183; what such a file of a user
  holds counts for nothing, because the program cannot read it). Both hold in `config_session`.

`ThreadProofs`, for any number of workers, posts, callers, contexts, keys and sets. `MCThreads` is
`DAsync` in three variants and three other parts; `SameActions` shows that the variants take the same
steps, so that one proof serves all. `ThreadInv` says:

- of DAsync, that results handled, results waiting, the datum carried and data waiting, put together,
  are the posts in their order, and that only the one worker inside the mutex carries any (`Carries`), and of the form without input, that what is still to run is later than what was run
  (`AsyncOrder`, `VoidOrder`): `ResultsInOrder`;
- of DThreadUtil, that whoever waits in exec has one event of its own in the queue (`CallsInv`);
- of a generated class, that for each key the last update under way to the owner (its copy,
  if there is none) is the value of the DConfig, or that a set under way to the DConfig will make
  it so, or that the DConfig is still to look (`Agrees`, in `PrefInv`): `CopiesEndUpCurrent`; and that
  one side at most frees the data (in `ThreadTypes`);
- of DTimedLoop the types.

In `threads` TLC looks at one key set three times; `ThreadInv` itself was also checked with two keys.
Proof attempts corrected the models in places no run had reached: an event of `DThreadUtils` now says
whether exec waits for it (the end of an earlier `run` answered a later exec), bounds that may not
be zero say so, and the value for "none" is assumed different from every message.

`LibraryProofs` is about the twelve parts in `Library`, which reaches no recursive definition. For any
number of objects, paths, addresses, movers, programs, engines, options, backends, directories
and threads, and from the specification of the part alone, whatever else is active:

- `ExpectedHolds` (DExpected) from `ResultInv`: until a constructor throws between a destruction and
  the next construction, no storage is dead and the flag says of which kind its content is.
- `AppendedIsUsable` (DCap) from `CapInv`: what was permitted, other than mistakenly, is below some
  path of the list until it or a path really above it is taken out. `append`
  leaves out what the list covers and `remove` takes out one entry equal to its path; what is
  below another entry stays covered by that, since a path is below itself once it is cleaned
  (`CleanIsPath`).
- `CallsReach` (DVtableHook) from `HookInv`: the two maps know the same addresses, a table in a map is
  not freed and belongs to one address (`MapsExact`); a hooked object has the table its address
  is known by, and the destructor kept for it is that of its class (`TablesOwned`); a table that a
  call of an original will write back to is freed or still that address's (`CallsOwned`); entries
  are what was put in place last (`DuesAgree`), except in objects that are `unsound` because of
  what section 3 observes.
- `MovedIsDescribed` (DTrashManager) from `TrashInv`: a name that no two have chosen at once belongs to
  one mover or one trashed file, and from the writing of the information on, that is about the file
  the mover moves.
- `DiskHoldsFile` (DDciFileEngine) from `EngineInv`: one thread has the file, and the disk differs
  from what its engines show only while one of them has a file open for writing that will be
  saved (`WillSave`), or after a call that failed half way, until the next save. A file that is
  removed while it is open is gone from the disk as well, since each such change saves the whole.
- `IndexFollowsTree` (DDciFile) from `TreeInv`: until a call that does not look after the whole
  subtree, every entry's node has the name and the parent the entry's path says, every path above
  an entry is an entry, and no node has two (`TreeOf`). What the model says by ways through the
  tree (`Node::path`, deletion of what is below) follows from that: there is one way from the
  root to a node, and its path names it (`OneWay`, `WayIs`, `BelowIs`). Calls are then steps on
  the index: `GrownTree` for mkNode, `PrunedTree` for removal, `RenamedTree` for the move of a leaf
  over another, `GraftedTree` for copies, whose paths are those below the original, moved
  (`ToPath`). It takes no induction on the depth; the shortest prefix that fails serves.
- `StoresAgree` (DSettings) from `SettingsInv`, an action property: for an option changed since the backend
  was set, the last change posted of it is to what the caller sees; with none posted, that is
  stored, or the backend has still to report what is (`Agreed`); and the caller waiting in sync
  has one question in the queue, with no change after it (`OneAnswer`). A report that crosses
  a set thus always ends in a post, which is why the two sides do not settle apart.
- `RecentFilesAreExact` (DRecentManager) from `RecentInv`: the list names a file once; while no call is
  under way and none overlapped another it says of each file and application how often the one
  opened the other (`Counted`); and a call that is alone is about to write a list that says what
  the counts will be (`OneCall`). What adding one and leaving out many do to a list of any length
  (`WithItemIs`, `WithoutItemsIs`) follows from the places entries keep among themselves (`Ranks`);
  that needs no induction on the list.
- `KeptStaysTrue`, of four parts. DLog (`LogInv`): the last value under way to the owner's thread, or
  the copy there if there is none, is the configuration's, and the rules are what the copies and
  the marks seen at the last choice give. DSysInfo (`SystemInv`): as long as
  each version file that was ever installed was whole, either none was read or what is kept is
  what one of them says, all of it. DLicenseInfo (`LicenseInv`): after a load that succeeded the list
  is that file's; the directories passed over in a search are the first ones of those to search,
  in their order (`IsSearch`, with `DirsAre` for where each stands). DSGApplication (`AppInv`): while a
  thread asks about a number it has noted everybody who had that since, the descriptor is of one
  of these, and nobody has been told an identity before the static variable holds it.
- `LibraryTypes`, of the ten parts with a type invariant. Most of it is in the invariants above. What
  is added: a part of a file is outside or in the trash, never both (`Places`, along with `TrashInv`,
  which says whose a name in the trash is); each file in memory is some engine's,
  was read whole, and holds nothing in a directory it does not have (`EnginesOwn`; the last is why
  the disk never holds such a file either); a bookmark has a count above zero, since only `addItem`
  makes one; a thread has a descriptor exactly while it asks the manager (`Descriptors`); of DLog,
  the console's place is one of the registered appenders (`LogTypes`).

Every theorem is about the module's own specification and the assumptions stated with its
constants; what is assumed besides stands in the theorem. Invariants were checked by TLC, on
the constants of a run, before they were proved.

Only model-checked, and why: liveness (`LoadReturns`, `GetAllFinishes`, `PostedWorkIsDone`,
`AllFreed`), and what recursive definitions compute (`RoundTrip`, with the lookups of
DSettingsGroup and the readings of words), are beyond the proof system; so is what folds over a
whole queue or file compute, which need induction on it (`PictureSettles`, and the files, texts and
entries in `RoundTrip`). Both include the types of their parts, `RoundTrip` those of `DDciFile` as well:
they hold after the calls that spoil the index too, where only the tree's own shape can show
it. Of `TypeKept` there can be no proof, since doubles
violate it.
`SerialsNeverAhead`, which two theorems need, is proved but not run by itself.

## 6. Not modelled, and the plan

Left out of what is modelled:

- DConfigFile: names, descriptions, visibility, time, user and appid fields of items (carried
  along, never tested), the copy constructor, its stream overload of load (the same code as
  `LoadMeta` on), cache path prefixes, formatting of JSON.
- DSettings: property setters of an option made by hand, toJson, translations.
- File watching: hard links, two spellings of a path, ghost signals, destruction of the manager.
- DCI: iterators, permissions and memory mapping of the engine, QFile's buffering.
- Asynchronous calls: the destructor of a DAsync whose worker runs, a then function that posts,
  and the variants of DThreadUtils that return futures.
- DSysInfo: tables of names and queries of hardware. dconfig2cpp: the text of the class
  beyond what the properties name (`DConfigPreference` is one such class at work).
- Other utilities (`DExportedInterface`, standard paths, notifications, power and session
  requests, strings and numbers): single requests or thin wrappers over Qt; the appenders of
  the log, which are a git submodule; tools that print one text made of another, of which
  qdbusxml2cpp is a copy of Qt's and the largest.

What is left to do, in this order, is proof of more parts of `MCLibrary`, which then move to
`Library`:

1. `DTextEncoding`: `TextIsKept`, with the steps of a conversion in place.
2. `DDesktopEntry`: `EntryIsKept` and `StringsAreKept`, once parsing is no fold over lines.
3. `DDciFile`: its types, also after calls that spoil the index, from the ways of the tree alone.
4. `DFileWatcherSignals`, if its batches can be described by positions in place of folds.
