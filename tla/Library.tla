------------------------------- MODULE Library -------------------------------
(***************************************************************************)
(* Parts of the library that work by themselves and have proofs            *)
(* (LibraryProofs), with what each promises.  They share nothing.  At most *)
(* one is active (MCLibrary); a promise is about the part while it is.     *)
(***************************************************************************)

CONSTANTS
    Options, Resettable, OptionValues, Default, Backends, Reporting, MaxPending,
    FileNames, Contents, LinkTargets, MaxDepth, MaxNodes, MaxWild,
    Engines, Threads, Subs, InDirectory, Texts, Blank,
    Objects, Vals, Moved,
    Movers, Sources, FileName, Within, MaxHash,
    CapPaths, Sep, Writable, MaxPaths,
    Addresses, Classes, Functions, Replacements, MaxTables, MaxCalls,
    Programs, Recent, Apps, MaxCount,
    RuleSets, DefaultRules, CompiledRules, LogPaths, Directory, DefaultPath,
    MaxAppenders, MaxComing,
    OsFiles, ReleaseFiles, DeepinFiles, Blocks, KnownTypes, AlikeTypes, MaxUpgrades,
    Lists, BadItem, DataDirs, Licenses,
    Pids, OwnPid, Processes, Me, Identity, Given, AppNames, FormatAppId, Cmdline,
    NoId,
    None

VARIABLES
    active,
    option, backend, threads, store, posted, reported, syncing, touched,
    node, index, fatal, wild,
    dciDisk, dci, engine, engineSpoiled, engineUnsaved,
    traitT, traitE, has, slot, expect, spoiled,
    outside, files, info, mover, cleaner, trashed, raced,
    pathList, tree, dir, filePath, granted,
    object, classTable, tables, original, ghost, destruct, calls, due,
    unsound,
    xbel, program, opened, overlap,
    config, rulesOf, shown, coming, rules, seen, registered, console, journal,
    logPath, underJournal, home,
    osFile, releaseFiles, deepinFile, osBuild, minVersion, release,
    productType, deepin, cpuModel, diskSize, wholeFiles, upgrades,
    credits, texts, searchPath, componentInfos, found, loaded, search,
    holder, environ, fallback, appName, selfId, identifying, asker, had,
    saidSelf

settingsVars == <<option, backend, threads, store, posted, reported,
                syncing, touched>>
treeVars     == <<node, index, fatal, wild>>
engineVars   == <<dciDisk, dci, engine, engineSpoiled, engineUnsaved>>
expectedVars == <<traitT, traitE, has, slot, expect, spoiled>>
trashVars    == <<outside, files, info, mover, cleaner, trashed, raced>>
capVars      == <<pathList, tree, dir, filePath, granted>>
hookVars     == <<object, classTable, tables, original, ghost, destruct,
                calls, due, unsound>>
recentVars   == <<xbel, program, opened, overlap>>
logVars      == <<config, rulesOf, shown, coming, rules, seen, registered,
                console, journal, logPath, underJournal, home>>
systemVars   == <<osFile, releaseFiles, deepinFile, osBuild, minVersion,
                release, productType, deepin, cpuModel, diskSize,
                wholeFiles, upgrades>>
licenseVars  == <<credits, texts, searchPath, componentInfos, found,
                loaded, search>>
appVars      == <<holder, environ, fallback, appName,
                selfId, identifying, asker, had, saidSelf>>

Settings == INSTANCE DSettings
Tree     == INSTANCE DDciFile WITH Names <- FileNames, Linked <- LinkTargets
Engine   == INSTANCE DDciFileEngine WITH
    disk <- dciDisk, spoiled <- engineSpoiled, unsaved <- engineUnsaved,
    Inside <- InDirectory
Result   == INSTANCE DExpected
Trash    == INSTANCE DTrashManager
Cap      == INSTANCE DCap
Hook     == INSTANCE DVtableHook
Recently == INSTANCE DRecentManager WITH expected <- opened
Log      == INSTANCE DLog WITH Paths <- LogPaths
SysInfo  == INSTANCE DSysInfo WITH Known <- KnownTypes, Alike <- AlikeTypes
License  == INSTANCE DLicenseInfo WITH Contents <- Lists, Bad <- BadItem
App      == INSTANCE DSGApplication WITH
    Names <- AppNames, Self <- OwnPid, Empty <- NoId

ASSUME LibraryAssumption ==
    /\ Settings!DSettingsAssumption
    /\ Tree!DDciFileAssumption
    /\ Engine!DDciFileEngineAssumption
    /\ Result!DExpectedAssumption
    /\ Trash!DTrashManagerAssumption
    /\ Cap!DCapAssumption
    /\ Hook!DVtableHookAssumption
    /\ Recently!DRecentManagerAssumption
    /\ Log!DLogAssumption
    /\ SysInfo!DSysInfoAssumption
    /\ License!DLicenseInfoAssumption
    /\ App!DSGApplicationAssumption

-----------------------------------------------------------------------------
(* A part that rests stays in its initial state.                            *)
Of(part, P) == active = part => P

(* Each part is well typed.                                                 *)
TypeOK ==
    /\ Of("settings", Settings!TypeOK)
    /\ Of("engine", Engine!TypeOK)
    /\ Of("expected", Result!TypeOK)
    /\ Of("trash", Trash!TypeOK)
    /\ Of("recent", Recently!TypeOK)
    /\ Of("cap", Cap!TypeOK)
    /\ Of("hook", Hook!TypeOK)
    /\ Of("log", Log!TypeOK)
    /\ Of("system", SysInfo!TypeOK)
    /\ Of("app", App!TypeOK)
(* Options and the store of the backend agree when all is done, and what    *)
(* was set before sync is stored when that returns.                         *)
StoreAgrees == [][Settings!StoreAgrees' /\ Settings!SyncStores]_settingsVars
(* The index of a DCI file is its tree.                                     *)
IndexIsTree == Of("tree", Tree!IndexIsTree)
(* The real file holds what the engines wrote and closed, but for calls     *)
(* that failed half way and were not made up for since.                     *)
DiskIsFile == Of("engine", Engine!DiskIsFile)
(* A DExpected holds what was put into it last.                             *)
HoldsWhatWasPut == Of("expected", Result!HoldsWhatWasPut)
(* What was moved to the trash can be restored from there.                  *)
TrashedIsDescribed == Of("trash", Trash!TrashedIsDescribed)
(* A path that was permitted can be used until it, or one really above it,  *)
(* is removed, but for what a sibling seemed to cover.                      *)
UsableUntilRemoved == Of("cap", Cap!UsableUntilRemoved)
(* Virtual calls reach what was put in place for the object.                *)
CallsReachTheirs == Of("hook", Hook!CallsReachTheirs)
(* The list of recent files has what was opened, as often as it was.        *)
ListIsExact == Of("recent", Recently!ListIsExact)
(* What is kept of configurations and files is what these say: the rules of *)
(* the log, unless a value was set to or reset from the one in force; the   *)
(* version of the system, unless a version file was ever incomplete; the    *)
(* components of an application; and who it and other processes are.        *)
KeptIsTrue ==
    /\ Of("log", Log!RulesAreChosen)
    /\ Of("system", SysInfo!VersionIsOneFiles)
    /\ Of("license", License!ListIsOneFiles)
    /\ Of("app", App!OneIdentity /\ App!ForWhom)
=============================================================================
