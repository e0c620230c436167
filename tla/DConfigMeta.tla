---------------------------- MODULE DConfigMeta ----------------------------
(***************************************************************************)
(* Loading one configuration description (DConfigMetaImpl in               *)
(* src/dconfigfile.cpp): find the meta file, collect the override files of *)
(* all directories, climbing in each from the subpath up to the directory  *)
(* itself, load the meta, apply the overrides one file at a time.  Every   *)
(* directory and every file is looked at only when its turn comes, so a    *)
(* package installed meanwhile is seen by halves.                          *)
(*                                                                         *)
(* Names of items and of override files are numbers: their order is that   *)
(* of QJsonObject and of the QCollator.                                    *)
(***************************************************************************)
EXTENDS Integers, Sequences, FiniteSets, TLC

CONSTANTS
    Keys,       \* names of configuration items, a set of numbers
    Values,     \* values of items
    Serials,    \* serials of items
    Undefined,  \* a field that a file does not give
    DataDirs,   \* length of DStandardPaths::paths(DataDir)
    Depth,      \* number of directories in the subpath, 0 without one
    Names,      \* names of override files, a set of numbers
    Supported,  \* DConfigFile::supportedVersion().major
    Majors,     \* major versions that occur in files
    Disks,      \* contents the disk may have at first
    Packages    \* contents the disk may get later

(* A directory is <<d, app>>: data directory d, the preferred one being 1, *)
(* or for overrides 0, which is /etc/dsg; app tells whether it is the part *)
(* below the application's id or the generic one.                          *)
MetaDirs == (1 .. DataDirs) \X BOOLEAN
OverrideDirs == (0 .. DataDirs) \X BOOLEAN
Levels == 0 .. Depth           \* 0 is the base directory
Places == Levels \X Names      \* of an override file in its directory

Item == [value : Values \cup {Undefined}, serial : Serials \cup {Undefined},
         readWrite : BOOLEAN \cup {Undefined}, nooverride : BOOLEAN]
Change == [value : Values \cup {Undefined}, serial : Serials \cup {Undefined},
           readWrite : BOOLEAN \cup {Undefined}]

(* f maps some elements of D to elements of S.                             *)
Partial(f, D, S) == DOMAIN f \subseteq D /\ f \in [DOMAIN f -> S]

(* A file: no JSON object, one of another magic or without a version, or   *)
(* one that counts.                                                        *)
IsDoc(doc, S) ==
    /\ doc.status \in {"unparsable", "foreign", "ok"}
    /\ doc.major \in Majors
    /\ Partial(doc.contents, Keys, S)

NoFile == [status |-> "unparsable", major |-> 0, contents |-> <<>>]

(* What a directory holds: how deep the subpath exists below it, -1 if not *)
(* even the directory itself does, and its files.  A meta file is found    *)
(* under one name, override files under any.                               *)
IsTree(tree, P, S) ==
    /\ tree.deep \in -1 .. Depth
    /\ DOMAIN tree.files \subseteq P
    /\ \A p \in DOMAIN tree.files : IsDoc(tree.files[p], S)

ASSUME DConfigMetaAssumption ==
    /\ Keys \subseteq Nat
    /\ Names \subseteq Nat /\ IsFiniteSet(Names)
    /\ Undefined \notin Values
    /\ DataDirs \in Nat
    /\ Depth \in Nat
    /\ Supported \in Nat
    /\ Majors \subseteq Nat
    /\ 0 \in Majors
    /\ \A d \in Disks \cup Packages :
          /\ \A m \in MetaDirs :
                /\ IsTree(d.meta[m], Levels, Item)
                /\ \A l \in DOMAIN d.meta[m].files : l <= d.meta[m].deep
          /\ \A o \in OverrideDirs :
                /\ IsTree(d.override[o], Places, Change)
                /\ \A p \in DOMAIN d.override[o].files : p[1] <= d.override[o].deep

VARIABLES
    disk,     \* the installed meta and override files
    pc,       \* where load() is: "idle"; "visit", "collect" or "climb" in
              \* loadOverrides; "override" in load(meta, overrides)
    found,    \* the path metaPath returned: <<directory, level>>
    dirs,     \* directories loadOverrides has not done with
    level,    \* the level of the first of them that target_dir is at
    list,     \* override files in the order they will be applied
    values,   \* DConfigMetaImpl::values
    version,  \* DConfigMetaImpl::m_version.major
    result,   \* what the last load() returned
    steady    \* history: nothing was installed since the last load() began

vars == <<disk, pc, found, dirs, level, list, values, version, result, steady>>

-----------------------------------------------------------------------------
(* Where getFile and loadOverrides begin to climb: at the subpath if it    *)
(* exists, else in the base directory (QDir::cd), if there is one.         *)
Top(tree) == IF tree.deep = Depth THEN Depth ELSE IF tree.deep >= 0 THEN 0 ELSE -1

(* DConfigMeta::metaPath: application directories before generic ones,     *)
(* preferred data directory first, deepest level first.                    *)
MetaFiles(app) ==
    {f \in ((1 .. DataDirs) \X {app}) \X Levels :
        f[2] \in DOMAIN disk.meta[f[1]].files /\ f[2] <= Top(disk.meta[f[1]])}

Preferred(f, g) == f[1][1] < g[1][1] \/ (f[1][1] = g[1][1] /\ f[2] >= g[2])

(* DConfigMetaImpl::overrideDirs and allOverrideDirs: from the least       *)
(* preferred data directory to /etc/dsg.                                   *)
OverrideDirsOf(app) == [i \in 1 .. DataDirs + 1 |-> <<DataDirs + 1 - i, app>>]

AllOverrideDirs(useAppId) ==
    IF useAppId THEN OverrideDirsOf(TRUE)
    ELSE OverrideDirsOf(FALSE) \o OverrideDirsOf(TRUE)

OverrideFile == OverrideDirs \X Places

FilesIn(d) ==
    {f \in {d} \X Places :
        f[2] \in DOMAIN disk.override[d].files /\ f[2][1] <= Top(disk.override[d])}

(* The files of one level of d, in the order of their names.               *)
FilesAt(d, l) ==
    {f \in {d} \X Places : f[2] \in DOMAIN disk.override[d].files /\ f[2][1] = l}

SubLists(d, l) ==
    LET n == Cardinality(FilesAt(d, l)) IN
    {s \in [1 .. n -> FilesAt(d, l)] : \A i, j \in 1 .. n : i < j => s[i][2][2] < s[j][2][2]}

OverrideAt(f) ==
    LET files == disk.override[f[1]].files IN
    IF f[2] \in DOMAIN files THEN files[f[2]] ELSE NoFile

MetaAt(f) ==
    LET files == disk.meta[f[1]].files IN
    IF f[2] \in DOMAIN files THEN files[f[2]] ELSE NoFile

(* updateValue, updateSerial and updatePermissions for one item.           *)
Overridden(item, change) ==
    [item EXCEPT
        !.value = change.value,
        !.serial = IF change.serial = Undefined THEN @ ELSE change.serial,
        !.readWrite = IF change.readWrite = Undefined THEN @ ELSE change.readWrite]

Return(b) ==
    /\ result' = b
    /\ pc' = "idle"

-----------------------------------------------------------------------------
FindMetaSlip ==  \* forgets the path
    /\ pc = "idle"
    /\ LET app == MetaFiles(TRUE) # {} IN
       IF MetaFiles(app) = {}
       THEN Return(FALSE) /\ UNCHANGED <<found, dirs>>
       ELSE /\ pc' = "visit"
            /\ dirs' = AllOverrideDirs(app)
            /\ UNCHANGED <<result, found>>
    /\ list' = <<>>
    /\ steady' = TRUE
    /\ UNCHANGED <<disk, level, values, version>>

(* DConfigMetaImpl::load(localPrefix), up to metaPath.                     *)
FindMeta ==
    /\ pc = "idle"
    /\ LET app == MetaFiles(TRUE) # {}
           all == MetaFiles(app) IN
       IF all = {}
       THEN Return(FALSE) /\ UNCHANGED <<found, dirs>>
       ELSE /\ pc' = "visit"
            /\ \E f \in all : found' = f /\ \A g \in all : Preferred(f, g)
            /\ dirs' = AllOverrideDirs(app)
            /\ UNCHANGED result
    /\ list' = <<>>
    /\ steady' = TRUE
    /\ UNCHANGED <<disk, level, values, version>>

(* loadOverrides turns to the next directory, which may not exist.         *)
Visit ==
    LET top == Top(disk.override[Head(dirs)]) IN
    /\ pc = "visit"
    /\ dirs # <<>>
    /\ IF top < 0
       THEN dirs' = Tail(dirs) /\ UNCHANGED <<pc, level>>
       ELSE level' = top /\ pc' = "collect" /\ UNCHANGED dirs
    /\ UNCHANGED <<disk, found, list, values, version, result, steady>>

CollectSlip ==  \* the files of a level go behind those of the levels below
    /\ pc = "collect"
    /\ \E sublist \in SubLists(Head(dirs), level) : list' = list \o sublist
    /\ pc' = "climb"
    /\ UNCHANGED <<disk, found, dirs, level, values, version, result, steady>>

(* It takes the files of one level, put before those it has.               *)
Collect ==
    /\ pc = "collect"
    /\ \E sublist \in SubLists(Head(dirs), level) : list' = sublist \o list
    /\ pc' = "climb"
    /\ UNCHANGED <<disk, found, dirs, level, values, version, result, steady>>

ClimbSlip ==  \* does not look at what cdUp() returns
    /\ pc = "climb"
    /\ IF level = 0
       THEN pc' = "visit" /\ dirs' = Tail(dirs) /\ level' = 0
       ELSE /\ pc' = "collect"
            /\ level' = IF level - 1 <= disk.override[Head(dirs)].deep THEN level - 1
                        ELSE level
            /\ UNCHANGED dirs
    /\ UNCHANGED <<disk, found, list, values, version, result, steady>>

(* It ends at the base directory; else it climbs to the parent, cdUp(),    *)
(* which fails if a package took the parent away meanwhile.                *)
Climb ==
    /\ pc = "climb"
    /\ IF level = 0 \/ level - 1 > disk.override[Head(dirs)].deep
       THEN pc' = "visit" /\ dirs' = Tail(dirs) /\ level' = 0
       ELSE pc' = "collect" /\ level' = level - 1 /\ UNCHANGED dirs
    /\ UNCHANGED <<disk, found, list, values, version, result, steady>>

LoadMetaSlip ==  \* takes every item, with or without a value
    LET doc == MetaAt(found)
        c == doc.contents IN
    /\ pc = "visit"
    /\ dirs = <<>>
    /\ IF doc.status # "ok" \/ doc.major > Supported
       THEN Return(FALSE) /\ UNCHANGED <<values, version>>
       ELSE /\ version' = doc.major
            /\ values' = [k \in DOMAIN c \cup DOMAIN values |->
                             IF k \in DOMAIN c THEN c[k] ELSE values[k]]
            /\ pc' = "override"
            /\ UNCHANGED result
    /\ UNCHANGED <<disk, found, dirs, level, list, steady>>

(* load(meta, overrides), the meta: an item without a value ends it after  *)
(* the items before it; items of an earlier load stay.                     *)
LoadMeta ==
    LET doc == MetaAt(found)
        c == doc.contents
        missing == {k \in DOMAIN c : c[k].value = Undefined}
        taken == {k \in DOMAIN c : \A m \in missing : k < m} IN
    /\ pc = "visit"
    /\ dirs = <<>>
    /\ IF doc.status # "ok" \/ doc.major > Supported
       THEN Return(FALSE) /\ UNCHANGED <<values, version>>
       ELSE /\ version' = doc.major
            /\ values' = [k \in taken \cup DOMAIN values |->
                             IF k \in taken THEN c[k] ELSE values[k]]
            /\ IF missing # {} THEN Return(FALSE)
               ELSE pc' = "override" /\ UNCHANGED result
    /\ UNCHANGED <<disk, found, dirs, level, list, steady>>

ApplicableSlip(c) == DOMAIN c \cap DOMAIN values

(* The items an override may change.                                       *)
Applicable(c) == {k \in DOMAIN c \cap DOMAIN values : ~values[k].nooverride}

(* load(meta, overrides), one turn of the loop over the overrides.         *)
Override ==
    LET doc == OverrideAt(Head(list))
        c == doc.contents
        missing == {k \in Applicable(c) : c[k].value = Undefined}
        taken == {k \in Applicable(c) : \A m \in missing : k < m} IN
    /\ pc = "override"
    /\ list # <<>>
    /\ list' = Tail(list)
    /\ CASE doc.status = "unparsable" ->
              UNCHANGED <<pc, values, result>>
         [] doc.status = "foreign" \/ (doc.status = "ok" /\ doc.major # version) ->
              Return(TRUE) /\ UNCHANGED values
         [] OTHER ->
              /\ values' = [k \in DOMAIN values |->
                    IF k \in taken THEN Overridden(values[k], c[k]) ELSE values[k]]
              /\ IF missing # {} THEN Return(FALSE)
                 ELSE UNCHANGED <<pc, result>>
    /\ UNCHANGED <<disk, found, dirs, level, version, steady>>

Finish ==
    /\ pc = "override"
    /\ list = <<>>
    /\ Return(TRUE)
    /\ UNCHANGED <<disk, found, dirs, level, list, values, version, steady>>

(* The package manager, at any time.                                       *)
Install(d) ==
    /\ d # disk
    /\ disk' = d
    /\ steady' = FALSE
    /\ UNCHANGED <<pc, found, dirs, level, list, values, version, result>>

-----------------------------------------------------------------------------
Init ==
    /\ disk \in Disks
    /\ pc = "idle"
    /\ found = <<>>
    /\ dirs = <<>>
    /\ level = 0
    /\ list = <<>>
    /\ values = <<>>
    /\ version = 0
    /\ result = FALSE
    /\ steady = FALSE

Load == FindMeta \/ Visit \/ Collect \/ Climb \/ LoadMeta \/ Override \/ Finish

Next == Load \/ \E d \in Packages : Install(d)

(* Within load() the thread keeps running; nobody has to call it again.    *)
Spec == Init /\ [][Next]_vars /\ WF_vars(pc # "idle" /\ Load)

-----------------------------------------------------------------------------
(* Every variable has its type.                                            *)
TypeOK ==
    /\ disk \in Disks \cup Packages
    /\ pc \in {"idle", "visit", "collect", "climb", "override"}
    /\ found \in (MetaDirs \X Levels) \cup {<<>>}
    /\ pc # "idle" => found # <<>>
    /\ dirs \in Seq(OverrideDirs)
    /\ pc \in {"collect", "climb"} => dirs # <<>>
    /\ level \in Levels
    /\ list \in Seq(OverrideFile)
    /\ Partial(values, Keys, Item)
    /\ version \in Majors
    /\ result \in BOOLEAN
    /\ steady \in BOOLEAN

(* Every item that is known has a value, whatever files were damaged,      *)
(* incomplete or replaced half way: what DConfigFile::value falls back to. *)
EveryItemHasValue == \A k \in DOMAIN values : values[k].value # Undefined

(* An item flagged "nooverride" is, in all its parts, as some installed    *)
(* meta file gives it, however many loads and installs have passed.        *)
GivenBySomeMeta(k) ==
    \E d \in Disks \cup Packages : \E m \in MetaDirs :
        \E l \in DOMAIN d.meta[m].files :
            LET c == d.meta[m].files[l].contents IN
            k \in DOMAIN c /\ values[k] = c[k]

FirmItems == \A k \in DOMAIN values : values[k].nooverride => GivenBySomeMeta(k)

(* The order of precedence the program implements: of two directories the  *)
(* one visited first, of two levels the deeper, of two files the greater   *)
(* name.                                                                   *)
AllDirs == AllOverrideDirs(found[1][2])
Rank(d) == CHOOSE i \in DOMAIN AllDirs : AllDirs[i] = d
Beats(f, g) ==
    \/ Rank(f[1]) < Rank(g[1])
    \/ f[1] = g[1] /\ f[2][1] > g[2][1]
    \/ f[1] = g[1] /\ f[2][1] = g[2][1] /\ f[2][2] > g[2][2]

Visited == UNION {FilesIn(AllDirs[i]) : i \in DOMAIN AllDirs}

Alien(f) ==
    LET doc == OverrideAt(f) IN
    doc.status = "foreign" \/ (doc.status = "ok" /\ doc.major # version)

(* An alien file hides every file that beats it: the loop ends there.      *)
Effective ==
    {f \in Visited : /\ OverrideAt(f).status = "ok"
                     /\ \A g \in Visited : Alien(g) => Beats(g, f)}

Best(files) == CHOOSE f \in files : \A g \in files \ {f} : Beats(f, g)

Given(k, field) ==
    {f \in Effective : LET c == OverrideAt(f).contents IN
                       k \in DOMAIN c /\ c[k][field] # Undefined}

Expected(k, field) ==
    LET base == MetaAt(found).contents[k] IN
    IF base.nooverride \/ Given(k, field) = {} THEN base[field]
    ELSE OverrideAt(Best(Given(k, field))).contents[k][field]

(* A load that succeeds on a disk that stands still gives every item of    *)
(* the meta each field from the file of highest precedence that gives it.  *)
LoadedAsRanked ==
    pc = "idle" /\ result /\ steady =>
        \A k \in DOMAIN MetaAt(found).contents :
            \A field \in {"value", "serial", "readWrite"} :
                values[k][field] = Expected(k, field)

(* load() returns: the climb through the subpath ends, though the          *)
(* directories it climbs through, and the one it is to end at, may be      *)
(* taken away or replaced at any of its steps; both loops end.             *)
LoadReturns == (pc # "idle") ~> (pc = "idle")

(* "the ones after have higher priority" (overrideDirs, allOverrideDirs):  *)
(* of two directories that give an item a value, the later one wins.       *)
LaterDirWins ==
    pc = "idle" /\ result /\ steady =>
        \A k \in DOMAIN MetaAt(found).contents : \A f, g \in Given(k, "value") :
            /\ ~MetaAt(found).contents[k].nooverride
            /\ Rank(f[1]) < Rank(g[1])
            => \E h \in Given(k, "value") :
                  /\ Rank(h[1]) > Rank(f[1])
                  /\ values[k].value = OverrideAt(h).contents[k].value
-----------------------------------------------------------------------------
(* Instances for TLC.  Item 1 may be overridden, item 2 is flagged         *)
(* "nooverride".                                                           *)
MCItem(v, firm) ==
    [value |-> v, serial |-> 0, readWrite |-> FALSE, nooverride |-> firm]

MCMeta(first) ==
    [status |-> "ok", major |-> 1,
     contents |-> 1 :> MCItem(first, FALSE) @@ 2 :> MCItem("m", TRUE)]

MCChange(v, s) == [value |-> v, serial |-> s, readWrite |-> Undefined]

MCOverride(v, s) ==
    [status |-> "ok", major |-> 1,
     contents |-> 1 :> MCChange(v, s) @@ 2 :> MCChange(v, Undefined)]

MCAlien == [status |-> "ok", major |-> 2, contents |-> 1 :> MCChange("x", 1)]
MCTorn  == [status |-> "unparsable", major |-> 0, contents |-> <<>>]

NoTree == [deep |-> -1, files |-> <<>>]

(* A disk with the meta below meta, in the base directory, and with those  *)
(* of the override files that at maps their <<directory, place>> to whose  *)
(* level exists: the subpaths below override directories are deep[d] deep. *)
MCDisk(meta, doc, at, deep) ==
    [meta |-> [d \in MetaDirs |->
                 IF d = meta THEN [deep |-> 0, files |-> 0 :> doc] ELSE NoTree],
     override |-> [d \in OverrideDirs |->
                 [deep |-> deep[d],
                  files |-> [p \in {f[2] : f \in {g \in DOMAIN at : g[1] = d /\ g[2][1] <= deep[d]}}
                                |-> at[<<d, p>>]]]]]

(* One file per level, two of them below /etc/dsg.                         *)
MCFiles == {f \in OverrideFile : f[2][2] = 1 \/ f[1] = <<0, TRUE>>}

(* Up to three override files anywhere, the one at f giving value "a".     *)
MCLayouts ==
    {f :> MCOverride("a", Undefined) @@ g :> MCOverride("b", 1) @@ h :> doc :
        f \in MCFiles, g \in MCFiles, h \in MCFiles,
        doc \in {MCAlien, MCTorn, MCOverride("c", 0)}}

RankedDisks ==
    {MCDisk(<<1, app>>, MCMeta("m"), at, [d \in OverrideDirs |-> Depth]) :
        app \in BOOLEAN, at \in MCLayouts}
    \cup {MCDisk(<<1, TRUE>>, [MCMeta("m") EXCEPT !.major = Supported + 1], <<>>,
                 [d \in OverrideDirs |-> 0])}

(* Packages that come and go: other places, other flags, missing values.   *)
SmallLayouts ==
    {<<<<0, TRUE>>, <<2, 1>>>> :> MCOverride("a", Undefined)
         @@ <<<<1, TRUE>>, <<0, 1>>>> :> MCOverride(Undefined, 1),
     <<<<0, FALSE>>, <<0, 1>>>> :> MCOverride("b", 1)
         @@ <<<<1, TRUE>>, <<1, 1>>>> :> MCOverride("c", Undefined)}

SmallMetas ==
    {MCMeta("m"), MCMeta(Undefined),
     [MCMeta("a") EXCEPT !.contents[1].nooverride = TRUE,
                         !.contents[2].nooverride = FALSE]}

ChangingDisks ==
    {MCDisk(<<1, m[1]>>, m[2], at, [d \in OverrideDirs |-> deep]) :
        m \in {TRUE} \X SmallMetas \cup {<<FALSE, MCMeta("a")>>},
        at \in SmallLayouts, deep \in {-1, 0, Depth}}

MCSerials == 0..1
NoDisks == {}
=============================================================================
