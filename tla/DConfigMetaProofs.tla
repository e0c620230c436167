------------------------- MODULE DConfigMetaProofs -------------------------
(***************************************************************************)
(* What DConfigMeta guarantees for any number of directories, levels,      *)
(* files, items and installs: types, that every item has a value, that     *)
(* items flagged "nooverride" are as a meta file gives them, and that the  *)
(* fields of every item come from the file of highest precedence.          *)
(***************************************************************************)
EXTENDS DConfigMeta, QueueTheorems, FiniteSetTheorems, SequenceTheorems, TLAPS

USE DConfigMetaAssumption

LEMMA DiskTypes ==
    ASSUME disk \in Disks \cup Packages
    PROVE  /\ \A m \in MetaDirs : IsTree(disk.meta[m], Levels, Item)
           /\ \A o \in OverrideDirs :
                 IsTree(disk.override[o], Places, Change)
OBVIOUS

(* What load() reads at a place is a document, NoFile if there is no file.  *)
LEMMA MetaAtType ==
    ASSUME disk \in Disks \cup Packages, NEW f \in MetaDirs \X Levels
    PROVE  IsDoc(MetaAt(f), Item)
<1>1. IsTree(disk.meta[f[1]], Levels, Item)
  BY DiskTypes
<1>2. IsDoc(NoFile, Item)
  BY DEF IsDoc, NoFile, Partial
<1>. QED
  BY <1>1, <1>2 DEF MetaAt, IsTree

LEMMA OverrideAtType ==
    ASSUME disk \in Disks \cup Packages, NEW f \in OverrideFile
    PROVE  IsDoc(OverrideAt(f), Change)
<1>1. IsTree(disk.override[f[1]], Places, Change)
  BY DiskTypes DEF OverrideFile
<1>2. IsDoc(NoFile, Change)
  BY DEF IsDoc, NoFile, Partial
<1>. QED
  BY <1>1, <1>2 DEF OverrideAt, IsTree, OverrideFile

LEMMA MetaFilesType ==
    ASSUME NEW app \in BOOLEAN
    PROVE  MetaFiles(app) \subseteq MetaDirs \X Levels
BY DEF MetaFiles, MetaDirs

LEMMA AllOverrideDirsType ==
    ASSUME NEW app \in BOOLEAN
    PROVE  AllOverrideDirs(app) \in Seq(OverrideDirs)
<1>1. ASSUME NEW b \in BOOLEAN PROVE OverrideDirsOf(b) \in Seq(OverrideDirs)
  <2>1. \A i \in 1 .. DataDirs + 1 : DataDirs + 1 - i \in 0 .. DataDirs
    OBVIOUS
  <2>2. OverrideDirsOf(b) \in [1 .. DataDirs + 1 -> OverrideDirs]
    BY <2>1, <1>1 DEF OverrideDirsOf, OverrideDirs
  <2>3. DataDirs + 1 \in Nat
    OBVIOUS
  <2>. QED
    BY <2>2, <2>3, SMT
<1>2. /\ OverrideDirsOf(TRUE) \in Seq(OverrideDirs)
      /\ OverrideDirsOf(FALSE) \in Seq(OverrideDirs)
  BY <1>1
<1>3. OverrideDirsOf(FALSE) \o OverrideDirsOf(TRUE) \in Seq(OverrideDirs)
  BY <1>2, ConcatProperties
<1>. QED
  BY <1>2, <1>3 DEF AllOverrideDirs

(* What a directory holds at one level, and at all of them, are files.      *)
LEMMA FilesAtType ==
    ASSUME NEW d \in OverrideDirs, NEW l
    PROVE  /\ FilesAt(d, l) \subseteq {d} \X Places /\ FilesAt(d, l) \subseteq OverrideFile
           /\ IsFiniteSet(FilesAt(d, l)) /\ Cardinality(FilesAt(d, l)) \in Nat
<1>1. FilesAt(d, l) \subseteq {d} \X Places
  BY DEF FilesAt
<1>2. IsFiniteSet(FilesAt(d, l))
  <2>1. IsFiniteSet({d}) /\ IsFiniteSet(Levels)
    <3>1. IsFiniteSet({d})
      BY FS_Singleton
    <3>2. 0 \in Int /\ Depth \in Int
      OBVIOUS
    <3>3. IsFiniteSet(0 .. Depth)
      BY <3>2, FS_Interval
    <3>. QED
      BY <3>1, <3>3 DEF Levels
  <2>2. IsFiniteSet(Places)
    BY <2>1, FS_Product DEF Places
  <2>3. IsFiniteSet({d} \X Places)
    BY <2>1, <2>2, FS_Product
  <2>. QED
    BY <1>1, <2>3, FS_Subset
<1>3. Cardinality(FilesAt(d, l)) \in Nat
  BY <1>2, FS_CardinalityType
<1>4. FilesAt(d, l) \subseteq OverrideFile
  BY <1>1 DEF OverrideFile
<1>. QED
  BY <1>1, <1>2, <1>3, <1>4

(* loadOverrides makes a list of files of what it finds in a directory.     *)
LEMMA SubListsType ==
    ASSUME NEW d \in OverrideDirs, NEW l
    PROVE  SubLists(d, l) \subseteq Seq(OverrideFile)
<1>1. Cardinality(FilesAt(d, l)) \in Nat /\ FilesAt(d, l) \subseteq OverrideFile
  BY FilesAtType
<1>. QED
  BY <1>1 DEF SubLists

(* Where the climb begins in a directory.                                   *)
LEMMA TopType ==
    ASSUME TypeOK, NEW d \in OverrideDirs
    PROVE  /\ disk.override[d].deep \in Int
           /\ Top(disk.override[d]) \in Levels \cup {-1}
           /\ Top(disk.override[d]) <= disk.override[d].deep
<1>1. disk.override[d].deep \in -1 .. Depth
  BY DiskTypes DEF TypeOK, IsTree
<1>. QED
  BY <1>1 DEF Top, Levels

LEMMA OverriddenType ==
    ASSUME NEW item \in Item, NEW change \in Change
    PROVE  Overridden(item, change) \in Item
BY DEF Overridden, Item, Change

-----------------------------------------------------------------------------
LEMMA FindMetaTypes ==
    ASSUME TypeOK, FindMeta PROVE TypeOK'
<1> DEFINE app == MetaFiles(TRUE) # {}
<1>1. /\ UNCHANGED <<disk, level, values, version>>
      /\ list' = <<>>
      /\ steady' = TRUE
  BY DEF FindMeta
<1>2. CASE MetaFiles(app) = {}
  <2>1. UNCHANGED <<found, dirs>> /\ result' \in BOOLEAN /\ pc' = "idle"
    BY <1>2 DEF FindMeta, Return
  <2>2. list' \in Seq(OverrideFile)
    BY <1>1
  <2>. QED
    BY <1>1, <2>1, <2>2 DEF TypeOK
<1>3. CASE MetaFiles(app) # {}
  <2>1. found' \in MetaFiles(app) /\ dirs' = AllOverrideDirs(app)
    BY <1>3 DEF FindMeta
  <2>2. found' \in MetaDirs \X Levels /\ dirs' \in Seq(OverrideDirs)
    BY <2>1, MetaFilesType, AllOverrideDirsType
  <2>3. found' # <<>>
    BY <2>2
  <2>4. pc' = "visit" /\ result' = result
    BY <1>3 DEF FindMeta
  <2>. QED
    BY <1>1, <2>2, <2>3, <2>4 DEF TypeOK
<1>. QED
  BY <1>2, <1>3

LEMMA LoadMetaTypes ==
    ASSUME TypeOK, LoadMeta PROVE TypeOK'
<1> DEFINE doc == MetaAt(found)
           c == doc.contents
           missing == {k \in DOMAIN c : c[k].value = Undefined}
           taken == {k \in DOMAIN c : \A m \in missing : k < m}
<1>1. IsDoc(doc, Item)
  BY MetaAtType DEF LoadMeta, TypeOK
<1>2. UNCHANGED <<disk, found, dirs, level, list, steady>>
  BY DEF LoadMeta
<1>3. Partial(values', Keys, Item) /\ version' \in Majors
  <2>1. CASE doc.status # "ok" \/ doc.major > Supported
    BY <2>1 DEF LoadMeta, TypeOK
  <2>2. CASE ~(doc.status # "ok" \/ doc.major > Supported)
    <3>1. values' = [k \in taken \cup DOMAIN values |->
                        IF k \in taken THEN c[k] ELSE values[k]]
      BY <2>2 DEF LoadMeta
    <3>2. \A k \in taken : k \in Keys /\ c[k] \in Item
      BY <1>1 DEF IsDoc, Partial
    <3>3. \A k \in DOMAIN values : k \in Keys /\ values[k] \in Item
      BY DEF TypeOK, Partial
    <3>4. version' = doc.major
      BY <2>2 DEF LoadMeta
    <3>. QED
      BY <1>1, <3>1, <3>2, <3>3, <3>4 DEF Partial, IsDoc
  <2>. QED
    BY <2>1, <2>2
<1>4. pc' \in {"idle", "override"} /\ result' \in BOOLEAN /\ found # <<>>
  BY DEF LoadMeta, Return, TypeOK
<1>. QED
  BY <1>2, <1>3, <1>4 DEF TypeOK

(* What one override file does to the items.                                *)
LEMMA OverrideEffect ==
    ASSUME TypeOK, Override
    PROVE  /\ UNCHANGED <<disk, found, dirs, level, version, steady>>
           /\ list' \in Seq(OverrideFile)
           /\ pc' \in {"idle", "override"} /\ result' \in BOOLEAN
           /\ values' = [k \in DOMAIN values |-> values'[k]]
           /\ \A k \in DOMAIN values :
                 \/ values'[k] = values[k]
                 \/ /\ ~values[k].nooverride
                    /\ \E change \in Change :
                          /\ change.value # Undefined
                          /\ values'[k] = Overridden(values[k], change)
<1> DEFINE doc == OverrideAt(Head(list))
           c == doc.contents
           missing == {k \in Applicable(c) : c[k].value = Undefined}
           taken == {k \in Applicable(c) : \A m \in missing : k < m}
<1>1. list \in Seq(OverrideFile) /\ list # <<>> /\ list' = Tail(list)
  BY DEF Override, TypeOK
<1>2. Head(list) \in OverrideFile /\ list' \in Seq(OverrideFile)
  BY <1>1
<1>3. IsDoc(doc, Change)
  BY <1>2, OverrideAtType DEF TypeOK
<1>4. values = [k \in DOMAIN values |-> values[k]]
  BY DEF TypeOK, Partial
<1>5. \/ values' = values
      \/ values' = [k \in DOMAIN values |->
                       IF k \in taken THEN Overridden(values[k], c[k]) ELSE values[k]]
  BY DEF Override
<1>6. ASSUME NEW k \in taken
      PROVE  c[k] \in Change /\ c[k].value # Undefined /\ ~values[k].nooverride
  <2>1. k \in DOMAIN c /\ k \in DOMAIN values /\ ~values[k].nooverride
    BY DEF Applicable
  <2>2. k \in Nat /\ c[k] \in Change
    BY <1>3, <2>1 DEF IsDoc, Partial
  <2>3. k \notin missing
    BY <2>2
  <2>. QED
    BY <2>1, <2>2, <2>3
<1>7. pc' \in {"idle", "override"} /\ result' \in BOOLEAN
  BY DEF Override, Return, TypeOK
<1>8. UNCHANGED <<disk, found, dirs, level, version, steady>>
  BY DEF Override
<1>. QED
  BY <1>2, <1>4, <1>5, <1>6, <1>7, <1>8

(* Types are kept.                                                          *)
LEMMA TypesInductive ==
    TypeOK /\ [Next]_vars => TypeOK'
<1> SUFFICES ASSUME TypeOK, [Next]_vars PROVE TypeOK'
  OBVIOUS
<1>1. CASE FindMeta
  BY <1>1, FindMetaTypes
<1>2. CASE Collect
  <2>1. Head(dirs) \in OverrideDirs /\ dirs # <<>>
    BY <1>2 DEF Collect, TypeOK
  <2>2. list' \in Seq(OverrideFile)
    BY <1>2, <2>1, SubListsType DEF Collect, TypeOK
  <2>. QED
    BY <1>2, <2>1, <2>2 DEF Collect, TypeOK
<1>8. CASE Visit
  <2>1. dirs # <<>> /\ Head(dirs) \in OverrideDirs /\ Tail(dirs) \in Seq(OverrideDirs)
    BY <1>8 DEF Visit, TypeOK
  <2>2. Top(disk.override[Head(dirs)]) \in Levels \cup {-1}
    BY <2>1, TopType
  <2>3. level' \in Levels /\ dirs' \in Seq(OverrideDirs)
    BY <1>8, <2>1, <2>2 DEF Visit, TypeOK
  <2>4. found # <<>> /\ pc' \in {"visit", "collect"} /\ (pc' = "collect" => dirs' # <<>>)
    BY <1>8, <2>1 DEF Visit, TypeOK
  <2>5. UNCHANGED <<disk, found, list, values, version, result, steady>>
    BY <1>8 DEF Visit
  <2>. QED
    BY <2>3, <2>4, <2>5 DEF TypeOK
<1>9. CASE Climb
  <2>1. dirs # <<>> /\ Tail(dirs) \in Seq(OverrideDirs)
    BY <1>9 DEF Climb, TypeOK
  <2>2. 0 \in Levels /\ (level # 0 => level - 1 \in Levels)
    BY DEF TypeOK, Levels
  <2>3. level' \in Levels /\ dirs' \in Seq(OverrideDirs)
    BY <1>9, <2>1, <2>2 DEF Climb, TypeOK
  <2>4. found # <<>> /\ pc' \in {"visit", "collect"} /\ (pc' = "collect" => dirs' # <<>>)
    BY <1>9, <2>1 DEF Climb, TypeOK
  <2>5. UNCHANGED <<disk, found, list, values, version, result, steady>>
    BY <1>9 DEF Climb
  <2>. QED
    BY <2>3, <2>4, <2>5 DEF TypeOK
<1>3. CASE LoadMeta
  BY <1>3, LoadMetaTypes
<1>4. CASE Override
  <2>1. \A k \in DOMAIN values : values[k] \in Item /\ k \in Keys
    BY DEF TypeOK, Partial
  <2>2. \A k \in DOMAIN values : values'[k] \in Item
    BY <1>4, <2>1, OverrideEffect, OverriddenType
  <2>3. Partial(values', Keys, Item)
    BY <1>4, <2>1, <2>2, OverrideEffect DEF Partial
  <2>4. found # <<>>
    BY <1>4 DEF Override, TypeOK
  <2>. QED
    BY <1>4, <2>3, <2>4, OverrideEffect DEF TypeOK
<1>5. CASE Finish
  BY <1>5 DEF Finish, Return, TypeOK
<1>6. ASSUME NEW d \in Packages, Install(d) PROVE TypeOK'
  BY <1>6 DEF Install, TypeOK
<1>7. CASE UNCHANGED vars
  BY <1>7 DEF vars, TypeOK
<1>. QED
  BY <1>1, <1>2, <1>3, <1>4, <1>5, <1>6, <1>7, <1>8, <1>9 DEF Next, Load

(* Every variable of the loader has its type, whatever is installed when.   *)
THEOREM MetaTypeCorrect == Spec => []TypeOK
<1>1. ASSUME Init PROVE TypeOK
  <2>1. Partial(<<>>, Keys, Item)
    BY DEF Partial
  <2>2. dirs \in Seq(OverrideDirs) /\ list \in Seq(OverrideFile) /\ level \in Levels
    BY <1>1 DEF Init, Levels
  <2>. QED
    BY <1>1, <2>1, <2>2 DEF Init, TypeOK
<1>. QED
  BY <1>1, TypesInductive, PTL DEF Spec

-----------------------------------------------------------------------------
(* Where the items come from.                                               *)
ItemsInv == EveryItemHasValue /\ FirmItems

LEMMA LoadMetaItems ==
    ASSUME TypeOK, ItemsInv, LoadMeta PROVE ItemsInv'
<1> DEFINE doc == MetaAt(found)
           c == doc.contents
           missing == {k \in DOMAIN c : c[k].value = Undefined}
           taken == {k \in DOMAIN c : \A m \in missing : k < m}
<1>1. IsDoc(doc, Item)
  BY MetaAtType DEF LoadMeta, TypeOK
<1>2. CASE doc.status # "ok" \/ doc.major > Supported
  BY <1>2 DEF LoadMeta, ItemsInv, EveryItemHasValue, FirmItems, GivenBySomeMeta
<1>3. CASE ~(doc.status # "ok" \/ doc.major > Supported)
  <2>1. values' = [k \in taken \cup DOMAIN values |->
                      IF k \in taken THEN c[k] ELSE values[k]]
    BY <1>3 DEF LoadMeta
  <2>2. ASSUME NEW k \in taken PROVE c[k].value # Undefined
    <3>1. k \in Nat
      BY <1>1 DEF IsDoc, Partial
    <3>. QED
      BY <3>1
  <2>3. /\ disk \in Disks \cup Packages
        /\ found \in MetaDirs \X Levels
        /\ found[2] \in DOMAIN disk.meta[found[1]].files
        /\ doc = disk.meta[found[1]].files[found[2]]
    BY <1>3 DEF LoadMeta, TypeOK, MetaAt, NoFile
  <2>4. ASSUME NEW k \in taken PROVE GivenBySomeMeta(k)'
    BY <2>1, <2>3 DEF GivenBySomeMeta
  <2>5. ASSUME NEW k \in DOMAIN values, k \notin taken, values[k].nooverride
        PROVE  GivenBySomeMeta(k)'
    BY <2>1, <2>5 DEF GivenBySomeMeta, ItemsInv, FirmItems
  <2>. QED
    BY <2>1, <2>2, <2>4, <2>5 DEF ItemsInv, EveryItemHasValue, FirmItems
<1>. QED
  BY <1>2, <1>3

LEMMA ItemsInductive ==
    TypeOK /\ ItemsInv /\ [Next]_vars => ItemsInv'
<1> SUFFICES ASSUME TypeOK, ItemsInv, [Next]_vars PROVE ItemsInv'
  OBVIOUS
<1>1. CASE UNCHANGED values
  BY <1>1 DEF ItemsInv, EveryItemHasValue, FirmItems, GivenBySomeMeta
<1>2. CASE LoadMeta
  BY <1>2, LoadMetaItems
<1>3. CASE Override
  <2>1. \A k \in DOMAIN values : values[k] \in Item
    BY DEF TypeOK, Partial
  <2>2. DOMAIN values' = DOMAIN values
    BY <1>3, OverrideEffect
  <2>3. ASSUME NEW k \in DOMAIN values
        PROVE  /\ values'[k].value # Undefined
               /\ values'[k].nooverride => values'[k] = values[k]
    <3>1. CASE values'[k] = values[k]
      BY <3>1 DEF ItemsInv, EveryItemHasValue
    <3>2. CASE values'[k] # values[k]
      <4>1. PICK change \in Change : /\ change.value # Undefined
                                     /\ values'[k] = Overridden(values[k], change)
        BY <1>3, <3>2, OverrideEffect
      <4>2. ~values[k].nooverride
        BY <1>3, <3>2, OverrideEffect
      <4>. QED
        BY <2>1, <4>1, <4>2 DEF Overridden, Item
    <3>. QED
      BY <3>1, <3>2
  <2>. QED
    BY <2>2, <2>3 DEF ItemsInv, EveryItemHasValue, FirmItems, GivenBySomeMeta
<1>. QED
  BY <1>1, <1>2, <1>3 DEF Next, Load, FindMeta, Visit, Collect, Climb, Finish, Install, vars

LEMMA ItemsAlways == Spec => []ItemsInv
<1>1. Init => ItemsInv
  BY DEF Init, ItemsInv, EveryItemHasValue, FirmItems
<1>. QED
  BY <1>1, ItemsInductive, MetaTypeCorrect, PTL DEF Spec

(* Every known item has a value, whatever files were damaged, incomplete or *)
(* replaced half way.                                                       *)
THEOREM ItemsHaveValues == Spec => []EveryItemHasValue
BY ItemsAlways, PTL DEF ItemsInv

(* No override ever touches an item flagged "nooverride".                   *)
THEOREM ItemsStayFirm == Spec => []FirmItems
BY ItemsAlways, PTL DEF ItemsInv
-----------------------------------------------------------------------------
(* The order of the override files.  Rank is where a directory is visited. *)
Files(n) == UNION {FilesIn(AllDirs[i]) : i \in 1 .. n}
Ascending(s) == \A i, j \in DOMAIN s : i < j => Beats(s[j], s[i])

(* What the files in A give, and what an item is once these are applied.   *)
Giving(A, k, field) ==
    {f \in A : LET doc == OverrideAt(f) IN
               /\ doc.status = "ok"
               /\ k \in DOMAIN doc.contents /\ doc.contents[k][field] # Undefined}

Settled(A, k, field) ==
    LET base == MetaAt(found).contents[k] IN
    IF base.nooverride \/ Giving(A, k, field) = {} THEN values[k][field] = base[field]
    ELSE \E f \in Giving(A, k, field) :
            /\ \A g \in Giving(A, k, field) \ {f} : Beats(f, g)
            /\ values[k][field] = OverrideAt(f).contents[k][field]

Fields == {"value", "serial", "readWrite"}

(* loadOverrides: the files of the directories it is done with, and of the *)
(* levels of the next one it has climbed through, are there and in order.  *)
Below(d, l) == {f \in FilesIn(d) : f[2][1] >= l}
Begun ==
    IF pc = "collect" THEN Below(Head(dirs), level + 1)
    ELSE IF pc = "climb" THEN Below(Head(dirs), level) ELSE {}

Remaining(n) ==
    Len(dirs) = Len(AllDirs) - n /\ \A i \in 1 .. Len(dirs) : dirs[i] = AllDirs[n + i]

Collecting ==
    /\ pc \in {"collect", "climb"} => level <= Top(disk.override[Head(dirs)])
    /\ Ascending(list)
    /\ \E n \in 0 .. Len(AllDirs) : Remaining(n) /\ Range(list) = Files(n) \cup Begun

(* load(meta, overrides): the files applied are those the ones to come     *)
(* beat, and the items are as these leave them.                            *)
Applied == Visited \ Range(list)
Applying ==
    /\ Range(list) \subseteq Visited /\ Ascending(list)
    /\ \A f \in Range(list), g \in Applied : Beats(f, g)
    /\ \A g \in Applied : ~Alien(g)
    /\ \A k \in DOMAIN MetaAt(found).contents :
          /\ k \in DOMAIN values
          /\ values[k].nooverride = MetaAt(found).contents[k].nooverride
          /\ \A field \in Fields : Settled(Applied, k, field)

(* After load(): all effective files are applied.                          *)
AllSettled ==
    /\ found # <<>>
    /\ \E A \in SUBSET Visited :
          /\ Effective = {f \in A : OverrideAt(f).status = "ok"}
          /\ \A k \in DOMAIN MetaAt(found).contents : \A field \in Fields : Settled(A, k, field)

RankInv == steady =>
    /\ pc \in {"visit", "collect", "climb"} => Collecting
    /\ pc = "override" => Applying
    /\ pc = "idle" /\ result => AllSettled

LEMMA DirsApart ==
    ASSUME NEW app \in BOOLEAN
    PROVE  /\ AllOverrideDirs(app) \in Seq(OverrideDirs)
           /\ Len(AllOverrideDirs(app)) \in Nat
           /\ DOMAIN AllOverrideDirs(app) = 1 .. Len(AllOverrideDirs(app))
           /\ \A i, j \in DOMAIN AllOverrideDirs(app) :
                 AllOverrideDirs(app)[i] = AllOverrideDirs(app)[j] => i = j
<1>1. AllOverrideDirs(app) \in Seq(OverrideDirs)
  BY AllOverrideDirsType
<1>2. PICK n \in Nat : n = DataDirs + 1
  OBVIOUS
<1>3. ASSUME NEW b \in BOOLEAN
      PROVE  /\ OverrideDirsOf(b) \in Seq(OverrideDirs)
             /\ Len(OverrideDirsOf(b)) = n /\ DOMAIN OverrideDirsOf(b) = 1 .. n
             /\ \A i \in 1 .. n : /\ OverrideDirsOf(b)[i][1] = n - i
                                 /\ OverrideDirsOf(b)[i][2] = b
  <2>1. \A i \in 1 .. n : <<n - i, b>> \in OverrideDirs
    BY <1>2 DEF OverrideDirs
  <2>2. OverrideDirsOf(b) = [i \in 1 .. n |-> <<n - i, b>>]
    BY <1>2 DEF OverrideDirsOf
  <2>3. OverrideDirsOf(b) \in [1 .. n -> OverrideDirs]
    BY <2>1, <2>2
  <2>4. OverrideDirsOf(b) \in Seq(OverrideDirs) /\ Len(OverrideDirsOf(b)) = n
    BY <1>2, <2>3
  <2>5. \A i \in 1 .. n : OverrideDirsOf(b)[i] = <<n - i, b>>
    BY <2>2
  <2>. QED
    BY <2>3, <2>4, <2>5
<1>4. CASE app
  <2>1. PICK a : a = AllOverrideDirs(app) /\ a = OverrideDirsOf(TRUE)
    BY <1>4 DEF AllOverrideDirs
  <2>2. /\ Len(a) = n /\ DOMAIN a = 1 .. n
        /\ \A i \in 1 .. n : a[i][1] = n - i
    BY <1>3, <2>1
  <2>3. \A i, j \in 1 .. n : n - i = n - j => i = j
    BY <1>2
  <2>4. \A i, j \in 1 .. n : a[i] = a[j] => i = j
    BY <2>2, <2>3
  <2>. QED
    BY <1>1, <1>2, <2>1, <2>2, <2>4
<1>5. CASE ~app
  <2>1. PICK s \in Seq(OverrideDirs) :
            /\ s = OverrideDirsOf(FALSE) /\ Len(s) = n
            /\ \A i \in 1 .. n : s[i][1] = n - i /\ s[i][2] = FALSE
    BY <1>3
  <2>2. PICK t \in Seq(OverrideDirs) :
            /\ t = OverrideDirsOf(TRUE) /\ Len(t) = n
            /\ \A i \in 1 .. n : t[i][1] = n - i /\ t[i][2] = TRUE
    BY <1>3
  <2>3. PICK a : a = AllOverrideDirs(app) /\ a = s \o t
    BY <1>5, <2>1, <2>2 DEF AllOverrideDirs
  <2>4. PICK m \in Nat : m = n + n
    BY <1>2
  <2>5. /\ Len(a) = m /\ DOMAIN a = 1 .. m
        /\ \A i \in 1 .. m : i <= n => a[i] = s[i]
        /\ \A i \in 1 .. m : ~(i <= n) => a[i] = t[i - n]
    <3>1. Len(s \o t) = Len(s) + Len(t)
      BY ConcatProperties
    <3>2. \A i \in 1 .. Len(s) + Len(t) :
             (s \o t)[i] = IF i <= Len(s) THEN s[i] ELSE t[i - Len(s)]
      BY ConcatProperties
    <3>3. s \o t \in Seq(OverrideDirs)
      BY ConcatProperties
    <3>4. Len(s) + Len(t) = m
      BY <2>1, <2>2, <2>4
    <3>5. Len(a) = m /\ DOMAIN a = 1 .. m
      BY <2>3, <3>1, <3>3, <3>4, LenProperties
    <3>6. \A i \in 1 .. m : a[i] = IF i <= n THEN s[i] ELSE t[i - n]
      BY <2>1, <2>3, <3>2, <3>4
    <3>. QED
      BY <3>5, <3>6
  <2>6. \A i \in 1 .. m : i <= n => i \in 1 .. n
    BY <1>2, <2>4
  <2>7. \A i \in 1 .. m : ~(i <= n) => i - n \in 1 .. n
    BY <1>2, <2>4
  <2>8. \A i \in 1 .. m : i <= n => a[i][1] = n - i /\ a[i][2] = FALSE
    <3>1. ASSUME NEW i \in 1 .. m, i <= n PROVE a[i][1] = n - i /\ a[i][2] = FALSE
      <4>1. i \in 1 .. n /\ a[i] = s[i]
        BY <2>5, <2>6, <3>1
      <4>. QED
        BY <2>1, <4>1
    <3>. QED
      BY <3>1
  <2>9. \A i \in 1 .. m : ~(i <= n) => a[i][1] = n - (i - n) /\ a[i][2] = TRUE
    BY <2>2, <2>5, <2>7
  <2>10. \A i, j \in 1 .. m : n - i = n - j => i = j
    BY <1>2, <2>4
  <2>11. \A i, j \in 1 .. m : n - (i - n) = n - (j - n) => i = j
    BY <1>2, <2>4
  <2>12. ASSUME NEW i \in 1 .. m, NEW j \in 1 .. m, a[i] = a[j] PROVE i = j
    BY <2>8, <2>9, <2>10, <2>11, <2>12
  <2>. QED
    BY <1>1, <1>2, <2>3, <2>4, <2>5, <2>12
<1>. QED
  BY <1>4, <1>5

(* Levels and names are numbers.                                           *)
LEMMA PlacesAreNumbers == \A q \in Places : q[1] \in Nat /\ q[2] \in Nat
<1>1. Names \subseteq Nat /\ Levels \subseteq Nat
  BY DEF Levels
<1>. QED
  BY <1>1 DEF Places

LEMMA RankOfDir ==
    ASSUME TypeOK, found # <<>>
    PROVE  /\ AllDirs \in Seq(OverrideDirs) /\ Len(AllDirs) \in Nat
           /\ DOMAIN AllDirs = 1 .. Len(AllDirs)
           /\ \A i \in 1 .. Len(AllDirs) : AllDirs[i] \in OverrideDirs /\ Rank(AllDirs[i]) = i
<1>1. found[1][2] \in BOOLEAN
  BY DEF TypeOK, MetaDirs
<1>2. /\ AllDirs \in Seq(OverrideDirs) /\ Len(AllDirs) \in Nat
      /\ DOMAIN AllDirs = 1 .. Len(AllDirs)
      /\ \A i, j \in DOMAIN AllDirs : AllDirs[i] = AllDirs[j] => i = j
  BY <1>1, DirsApart DEF AllDirs
<1>3. ASSUME NEW i \in 1 .. Len(AllDirs)
      PROVE  AllDirs[i] \in OverrideDirs /\ Rank(AllDirs[i]) = i
  <2>1. AllDirs[i] \in OverrideDirs
    BY <1>2
  <2>2. \E j \in DOMAIN AllDirs : AllDirs[j] = AllDirs[i]
    BY <1>2
  <2>3. Rank(AllDirs[i]) \in DOMAIN AllDirs /\ AllDirs[Rank(AllDirs[i])] = AllDirs[i]
    BY <2>2 DEF Rank
  <2>. QED
    BY <1>2, <2>1, <2>3
<1>. QED
  BY <1>2, <1>3

LEMMA VisitedFiles ==
    ASSUME TypeOK, found # <<>>
    PROVE  /\ Visited = Files(Len(AllDirs)) /\ Files(0) = {}
           /\ Visited \subseteq OverrideFile
           /\ \A i \in 1 .. Len(AllDirs) : \A f \in FilesIn(AllDirs[i]) :
                 f \in Visited /\ f[1] = AllDirs[i] /\ Rank(f[1]) = i /\ f[2] \in Places
           /\ \A f \in Visited : Rank(f[1]) \in Nat /\ f[2] \in Places
<1>1. /\ Visited = Files(Len(AllDirs))
      /\ \A i \in 1 .. Len(AllDirs) : AllDirs[i] \in OverrideDirs /\ Rank(AllDirs[i]) = i
  BY RankOfDir DEF Visited, Files
<1>2. ASSUME NEW i \in 1 .. Len(AllDirs), NEW f \in FilesIn(AllDirs[i])
      PROVE  /\ f \in Visited /\ f[1] = AllDirs[i] /\ Rank(f[1]) = i /\ f[2] \in Places
             /\ f \in OverrideFile
  <2>1. f \in {AllDirs[i]} \X Places
    BY DEF FilesIn
  <2>2. f[1] = AllDirs[i] /\ f[2] \in Places /\ f \in OverrideFile
    BY <1>1, <2>1 DEF OverrideFile
  <2>. QED
    BY <1>1, <2>2 DEF Files
<1>3. \A f \in Visited : \E i \in 1 .. Len(AllDirs) : f \in FilesIn(AllDirs[i])
  BY <1>1 DEF Files
<1>4. Files(0) = {}
  BY DEF Files
<1>. QED
  BY <1>1, <1>2, <1>3, <1>4, RankOfDir

(* Precedence is an order, so that at most one file is the best.           *)
LEMMA BeatsIsOrder ==
    ASSUME TypeOK, found # <<>>
    PROVE  \A f, g \in Visited : Beats(f, g) => ~Beats(g, f)
<1>1. ASSUME NEW f \in Visited, NEW g \in Visited, Beats(f, g) PROVE ~Beats(g, f)
  <2>1. /\ Rank(f[1]) \in Nat /\ Rank(g[1]) \in Nat
        /\ f[2] \in Places /\ g[2] \in Places
    BY VisitedFiles
  <2>2. /\ f[2][1] \in Nat /\ f[2][2] \in Nat /\ g[2][1] \in Nat /\ g[2][2] \in Nat
    BY <2>1, PlacesAreNumbers
  <2>. QED
    BY <1>1, <2>1, <2>2 DEF Beats
<1>. QED
  BY <1>1

(* loadOverrides finds each file of a level once and sorts them.           *)
LEMMA SubListIsSorted ==
    ASSUME NEW d \in OverrideDirs, NEW l, NEW s \in SubLists(d, l)
    PROVE  /\ s \in Seq(OverrideFile) /\ Range(s) = FilesAt(d, l)
           /\ \A i, j \in DOMAIN s : i < j => s[i][2][2] < s[j][2][2]
<1>. DEFINE n == Cardinality(FilesAt(d, l))
<1>1. FilesAt(d, l) \subseteq {d} \X Places /\ FilesAt(d, l) \subseteq OverrideFile
  BY FilesAtType
<1>2. IsFiniteSet(FilesAt(d, l)) /\ n \in Nat
  BY FilesAtType
<1>3. /\ s \in [1 .. n -> FilesAt(d, l)]
      /\ \A i, j \in 1 .. n : i < j => s[i][2][2] < s[j][2][2]
  BY DEF SubLists
<1>4. ASSUME NEW i \in 1 .. n, NEW j \in 1 .. n, i < j PROVE s[i] # s[j]
  <2>1. s[j][2] \in Places
    BY <1>1, <1>3
  <2>2. s[j][2][2] \in Nat
    BY <2>1, PlacesAreNumbers
  <2>. QED
    BY <1>3, <1>4, <2>2
<1>5. s \in Injection(1 .. n, FilesAt(d, l))
  <2>1. \A i, j \in 1 .. n : s[i] = s[j] => i = j
    BY <1>2, <1>4
  <2>. QED
    BY <1>3, <2>1 DEF Injection, IsInjective
<1>6. s \in Surjection(1 .. n, FilesAt(d, l))
  <2>1. Cardinality(1 .. n) = n
    BY <1>2, FS_Interval
  <2>. QED
    BY <1>2, <1>5, <2>1, FS_Injection
<1>7. Range(s) = FilesAt(d, l)
  BY <1>3, <1>6 DEF Surjection, Range
<1>. QED
  BY <1>1, <1>2, <1>3, <1>7

(* In a list put together from two, what comes from the first is before    *)
(* what comes from the second.                                             *)
JoinOf(u, s, t) ==
    /\ Range(u) = Range(s) \cup Range(t)
    /\ \A i, j \in DOMAIN u : i < j =>
          \/ \E k, h \in DOMAIN s : k < h /\ u[i] = s[k] /\ u[j] = s[h]
          \/ u[i] \in Range(s) /\ u[j] \in Range(t)
          \/ \E k, h \in DOMAIN t : k < h /\ u[i] = t[k] /\ u[j] = t[h]

LEMMA Joined ==
    ASSUME NEW T, NEW s \in Seq(T), NEW t \in Seq(T)
    PROVE  s \o t \in Seq(T) /\ JoinOf(s \o t, s, t)
<1>1. PICK l \in Nat : l = Len(s)
  BY LenProperties
<1>2. PICK m \in Nat : m = Len(t)
  BY LenProperties
<1>3. PICK u \in Seq(T) : u = s \o t
  BY ConcatProperties
<1>4. /\ DOMAIN s = 1 .. l /\ DOMAIN t = 1 .. m /\ DOMAIN u = 1 .. (l + m)
      /\ \A i \in 1 .. (l + m) : u[i] = IF i <= l THEN s[i] ELSE t[i - l]
  BY <1>1, <1>2, <1>3, ConcatProperties, LenProperties
<1>5. \A i \in 1 .. l : i \in 1 .. (l + m) /\ u[i] = s[i]
  BY <1>4
<1>6. ASSUME NEW i \in 1 .. m PROVE l + i \in 1 .. (l + m) /\ u[l + i] = t[i]
  <2>1. l + i \in 1 .. (l + m) /\ ~(l + i <= l) /\ (l + i) - l = i
    OBVIOUS
  <2>. QED
    BY <1>4, <2>1
<1>7. ASSUME NEW i \in 1 .. (l + m), i \notin 1 .. l
      PROVE  i - l \in 1 .. m /\ u[i] = t[i - l]
  BY <1>4, <1>7
<1>8. Range(u) = Range(s) \cup Range(t)
  <2>1. \A i \in 1 .. (l + m) : u[i] \in Range(s) \cup Range(t)
    BY <1>4, <1>5, <1>7 DEF Range
  <2>2. \A i \in 1 .. l : s[i] \in Range(u)
    BY <1>4, <1>5 DEF Range
  <2>3. \A i \in 1 .. m : t[i] \in Range(u)
    BY <1>4, <1>6 DEF Range
  <2>. QED
    BY <1>4, <2>1, <2>2, <2>3 DEF Range
<1>9. ASSUME NEW i \in 1 .. (l + m), NEW j \in 1 .. (l + m), i < j
      PROVE  \/ \E k, h \in DOMAIN s : k < h /\ u[i] = s[k] /\ u[j] = s[h]
             \/ u[i] \in Range(s) /\ u[j] \in Range(t)
             \/ \E k, h \in DOMAIN t : k < h /\ u[i] = t[k] /\ u[j] = t[h]
  <2>1. CASE i \in 1 .. l /\ j \in 1 .. l
    BY <1>4, <1>5, <1>9, <2>1
  <2>2. CASE i \in 1 .. l /\ j \notin 1 .. l
    BY <1>4, <1>5, <1>7, <2>2 DEF Range
  <2>3. CASE i \notin 1 .. l
    <3>1. j \notin 1 .. l /\ i - l < j - l
      BY <1>9, <2>3
    <3>. QED
      BY <1>4, <1>7, <2>3, <3>1
  <2>. QED
    BY <2>1, <2>2, <2>3
<1>10. JoinOf(u, s, t)
  BY <1>4, <1>8, <1>9 DEF JoinOf
<1>. QED
  BY <1>3, <1>10

(* The directory loadOverrides turns to, and what is done with it.         *)
LEMMA NextDir ==
    ASSUME TypeOK, found # <<>>, dirs # <<>>, NEW n \in 0 .. Len(AllDirs), Remaining(n)
    PROVE  /\ Head(dirs) \in OverrideDirs /\ Head(dirs) = AllDirs[n + 1]
           /\ n + 1 \in 1 .. Len(AllDirs) /\ n + 1 \in 0 .. Len(AllDirs)
           /\ Files(n + 1) = Files(n) \cup FilesIn(Head(dirs))
           /\ UNCHANGED found /\ dirs' = Tail(dirs) => Remaining(n + 1)'
<1>1. /\ Len(dirs) = Len(AllDirs) - n
      /\ \A i \in 1 .. Len(dirs) : dirs[i] = AllDirs[n + i]
      /\ dirs \in Seq(OverrideDirs)
  BY DEF Remaining, TypeOK
<1>2. PICK d \in OverrideDirs : d = Head(dirs) /\ d = AllDirs[n + 1]
  <2>1. Len(dirs) \in Nat \ {0} /\ Head(dirs) = dirs[1] /\ Head(dirs) \in OverrideDirs
    BY <1>1, EmptySeq, HeadTailProperties
  <2>. QED
    BY <1>1, <2>1
<1>3. /\ Len(AllDirs) \in Nat /\ n + 1 \in 1 .. Len(AllDirs) /\ n + 1 \in 0 .. Len(AllDirs)
  <2>1. Len(dirs) \in Nat \ {0} /\ Len(AllDirs) \in Nat
    BY <1>1, EmptySeq, LenProperties, RankOfDir
  <2>. QED
    BY <1>1, <2>1
<1>4. Files(n + 1) = Files(n) \cup FilesIn(d)
  <2>1. 1 .. (n + 1) = (1 .. n) \cup {n + 1}
    OBVIOUS
  <2>. QED
    BY <1>2, <2>1 DEF Files
<1>5. ASSUME UNCHANGED found, dirs' = Tail(dirs) PROVE Remaining(n + 1)'
  <2>1. AllDirs' = AllDirs
    BY <1>5 DEF AllDirs
  <2>2. /\ Len(Tail(dirs)) = Len(dirs) - 1
        /\ \A i \in 1 .. Len(Tail(dirs)) : Tail(dirs)[i] = dirs[i + 1]
    BY <1>1, HeadTailProperties
  <2>3. Len(dirs') = Len(AllDirs) - (n + 1)
    BY <1>1, <1>3, <1>5, <2>2
  <2>4. ASSUME NEW i \in 1 .. Len(dirs') PROVE dirs'[i] = AllDirs[(n + 1) + i]
    <3>1. i + 1 \in 1 .. Len(dirs) /\ n + (i + 1) = (n + 1) + i
      BY <1>1, <1>3, <2>3
    <3>2. dirs'[i] = dirs[i + 1]
      BY <1>5, <2>2
    <3>. QED
      BY <1>1, <3>1, <3>2
  <2>. QED
    BY <2>1, <2>3, <2>4 DEF Remaining
<1>. QED
  BY <1>2, <1>3, <1>4, <1>5

LEMMA FilesUnmoved ==
    ASSUME UNCHANGED <<disk, found, version>>
    PROVE  /\ AllDirs' = AllDirs /\ \A n : Files(n)' = Files(n)
           /\ \A d, l : Below(d, l)' = Below(d, l)
           /\ \A f, g : Beats(f, g)' <=> Beats(f, g)
<1>1. AllDirs' = AllDirs
  BY DEF AllDirs
<1>. QED
  BY <1>1 DEF Files, FilesIn, Below, Beats, Rank

(* Turning to a directory takes no files; one that does not exist has none. *)
LEMMA VisitOrders ==
    ASSUME TypeOK, found # <<>>, Collecting, Visit
    PROVE  Collecting'
<1>1. PICK n \in 0 .. Len(AllDirs) : Remaining(n) /\ Range(list) = Files(n) \cup Begun
  BY DEF Collecting
<1>2. /\ dirs # <<>> /\ pc = "visit" /\ Begun = {} /\ Ascending(list)
      /\ UNCHANGED <<disk, found, list, version>>
  BY DEF Visit, Begun, Collecting
<1>3. PICK d \in OverrideDirs : d = Head(dirs) /\ FilesIn(d) \subseteq {d} \X Places
  BY <1>1, <1>2, NextDir DEF FilesIn
<1>4. PICK top \in Levels \cup {-1} : top = Top(disk.override[d])
  BY TopType
<1>5. \A f \in FilesIn(d) : f[2][1] \in Levels /\ f[2][1] <= top
  BY <1>3, <1>4 DEF FilesIn, Places
<1>6. Ascending(list)'
  BY <1>2, FilesUnmoved DEF Ascending
<1>7. CASE top < 0
  <2>1. dirs' = Tail(dirs) /\ pc' = "visit"
    BY <1>2, <1>3, <1>4, <1>7 DEF Visit
  <2>2. FilesIn(d) = {}
    BY <1>5, <1>7 DEF Levels
  <2>3. Files(n + 1) = Files(n) /\ Remaining(n + 1)' /\ n + 1 \in 0 .. Len(AllDirs)
    BY <1>1, <1>2, <1>3, <2>1, <2>2, NextDir
  <2>4. Range(list') = Files(n + 1)' \cup Begun' /\ AllDirs' = AllDirs
    BY <1>1, <1>2, <2>1, <2>3, FilesUnmoved DEF Begun
  <2>. QED
    BY <1>6, <2>1, <2>3, <2>4 DEF Collecting
<1>8. CASE ~(top < 0)
  <2>1. level' = top /\ pc' = "collect" /\ dirs' = dirs
    BY <1>2, <1>3, <1>4, <1>8 DEF Visit
  <2>2. Below(d, top + 1) = {}
    BY <1>4, <1>5 DEF Below, Levels
  <2>3. Begun' = {}
    BY <1>2, <1>3, <2>1, <2>2, FilesUnmoved DEF Begun
  <2>4. Remaining(n)' /\ AllDirs' = AllDirs
    BY <1>1, <1>2, <2>1, FilesUnmoved DEF Remaining
  <2>5. level' <= Top(disk.override[Head(dirs)])'
    BY <1>2, <1>3, <1>4, <2>1 DEF Levels
  <2>6. Range(list') = Files(n)' \cup Begun'
    BY <1>1, <1>2, <2>3, FilesUnmoved
  <2>. QED
    BY <1>6, <2>4, <2>5, <2>6 DEF Collecting
<1>. QED
  BY <1>7, <1>8

(* The files of a level are put before those of deeper levels, and before  *)
(* those of the directories visited earlier.                               *)
LEMMA CollectOrders ==
    ASSUME TypeOK, found # <<>>, Collecting, Collect
    PROVE  Collecting'
<1>1. PICK n \in 0 .. Len(AllDirs) : Remaining(n) /\ Range(list) = Files(n) \cup Begun
  BY DEF Collecting
<1>2. /\ dirs # <<>> /\ dirs' = dirs /\ list \in Seq(OverrideFile)
      /\ level \in Levels /\ level' = level /\ pc = "collect" /\ pc' = "climb"
      /\ UNCHANGED <<disk, found, version>> /\ Ascending(list)
  BY DEF Collect, TypeOK, Collecting
<1>3. PICK d \in OverrideDirs :
          /\ d = Head(dirs) /\ d = AllDirs[n + 1] /\ n + 1 \in 1 .. Len(AllDirs)
          /\ level <= Top(disk.override[d])
  BY <1>1, <1>2, NextDir DEF Collecting
<1>4. PICK s : s \in SubLists(d, level) /\ list' = s \o list
  BY <1>3 DEF Collect
<1>5. /\ s \in Seq(OverrideFile) /\ Range(s) = FilesAt(d, level)
      /\ \A i, j \in DOMAIN s : i < j => s[i][2][2] < s[j][2][2]
  BY <1>4, SubListIsSorted
<1>6. JoinOf(s \o list, s, list)
  BY <1>2, <1>5, Joined
<1>7. Range(list') = Range(s) \cup Range(list)
  BY <1>4, <1>6 DEF JoinOf
<1>8. FilesAt(d, level) \cup Below(d, level + 1) = Below(d, level)
  <2>1. \A f \in {d} \X Places : f[2][1] \in Nat
    BY PlacesAreNumbers
  <2>2. FilesAt(d, level) = {f \in FilesIn(d) : f[2][1] = level}
    BY <1>3 DEF FilesAt, FilesIn
  <2>3. \A f \in FilesIn(d) : f[2][1] \in Nat
    BY <2>1 DEF FilesIn
  <2>4. \A f \in FilesIn(d) : f[2][1] >= level <=> f[2][1] = level \/ f[2][1] >= level + 1
    BY <1>2, <2>3 DEF Levels
  <2>. QED
    BY <2>2, <2>4 DEF Below
<1>9. Range(list') = Files(n) \cup Below(d, level)
  BY <1>1, <1>2, <1>3, <1>5, <1>7, <1>8 DEF Begun
<1>10. \A f \in Range(s) : f[1] = d /\ Rank(f[1]) = n + 1 /\ f[2][1] = level
  <2>1. \A f \in Range(s) : f \in {d} \X Places /\ f[2][1] = level
    BY <1>5 DEF FilesAt
  <2>2. Rank(d) = n + 1
    BY <1>3, RankOfDir
  <2>. QED
    BY <2>1, <2>2
<1>11. \A g \in Range(list) :
          \/ Rank(g[1]) \in 1 .. n
          \/ g[1] = d /\ g[2][1] \in Nat /\ g[2][1] > level
  <2>1. \A i \in 1 .. Len(AllDirs) : \A f \in FilesIn(AllDirs[i]) :
           f[1] = AllDirs[i] /\ Rank(f[1]) = i /\ f[2] \in Places
    BY VisitedFiles
  <2>2. \A i \in 1 .. n : i \in 1 .. Len(AllDirs)
    BY RankOfDir
  <2>3. ASSUME NEW g \in Files(n) PROVE Rank(g[1]) \in 1 .. n
    BY <2>1, <2>2 DEF Files
  <2>4. ASSUME NEW g \in Below(d, level + 1)
        PROVE  g[1] = d /\ g[2][1] \in Nat /\ g[2][1] > level
    <3>1. g \in FilesIn(d) /\ g[2][1] >= level + 1
      BY DEF Below
    <3>2. g[1] = d /\ g[2][1] \in Nat
      BY <1>3, <2>1, <3>1, PlacesAreNumbers
    <3>. QED
      BY <1>2, <3>1, <3>2 DEF Levels
  <2>5. Range(list) = Files(n) \cup Below(d, level + 1)
    BY <1>1, <1>2, <1>3 DEF Begun
  <2>. QED
    BY <2>3, <2>4, <2>5
<1>12. Ascending(s \o list)
  <2>. DEFINE t == s \o list
  <2>1. ASSUME NEW i \in DOMAIN t, NEW j \in DOMAIN t, i < j
        PROVE  Beats(t[j], t[i])
    <3>1. ASSUME NEW k \in DOMAIN s, NEW h \in DOMAIN s, k < h
          PROVE  Beats(s[h], s[k])
      <4>1. s[k] \in Range(s) /\ s[h] \in Range(s)
        BY DEF Range
      <4>2. s[k][1] = d /\ s[h][1] = d /\ s[k][2][1] = level /\ s[h][2][1] = level
        BY <1>10, <4>1
      <4>3. s[k] \in OverrideFile /\ s[h] \in OverrideFile /\ s[k][2][2] < s[h][2][2]
        BY <1>5, <3>1
      <4>4. s[k][2][2] \in Nat /\ s[h][2][2] \in Nat
        BY <4>3, PlacesAreNumbers DEF OverrideFile
      <4>. QED
        BY <4>2, <4>3, <4>4 DEF Beats
    <3>2. ASSUME NEW f \in Range(s), NEW g \in Range(list) PROVE Beats(g, f)
      <4>1. f[1] = d /\ Rank(f[1]) = n + 1 /\ f[2][1] = level
        BY <1>10
      <4>2. CASE Rank(g[1]) \in 1 .. n
        BY <4>1, <4>2 DEF Beats
      <4>3. CASE g[1] = d /\ g[2][1] \in Nat /\ g[2][1] > level
        BY <4>1, <4>3 DEF Beats
      <4>. QED
        BY <1>11, <4>2, <4>3
    <3>3. \A k, h \in DOMAIN list : k < h => Beats(list[h], list[k])
      BY <1>2 DEF Ascending
    <3>. QED
      BY <1>6, <2>1, <3>1, <3>2, <3>3 DEF JoinOf
  <2>. QED
    BY <2>1 DEF Ascending
<1>13. Ascending(list)'
  BY <1>2, <1>4, <1>12, FilesUnmoved DEF Ascending
<1>14. Remaining(n)' /\ AllDirs' = AllDirs
  BY <1>1, <1>2, FilesUnmoved DEF Remaining
<1>15. Begun' = Below(d, level)
  BY <1>2, <1>3, FilesUnmoved DEF Begun
<1>16. Range(list') = Files(n)' \cup Begun'
  BY <1>2, <1>9, <1>15, FilesUnmoved
<1>17. level' <= Top(disk.override[Head(dirs)])'
  BY <1>2, <1>3
<1>. QED
  BY <1>13, <1>14, <1>16, <1>17 DEF Collecting

(* On a disk that stands still the climb ends at the base directory only,  *)
(* when the files of all levels are taken.                                 *)
LEMMA ClimbOrders ==
    ASSUME TypeOK, found # <<>>, Collecting, Climb
    PROVE  Collecting'
<1>1. PICK n \in 0 .. Len(AllDirs) : Remaining(n) /\ Range(list) = Files(n) \cup Begun
  BY DEF Collecting
<1>2. /\ dirs # <<>> /\ level \in Levels /\ pc = "climb"
      /\ UNCHANGED <<disk, found, list, version>> /\ Ascending(list)
  BY DEF Climb, TypeOK, Collecting
<1>3. PICK d \in OverrideDirs : d = Head(dirs) /\ level <= Top(disk.override[d])
  BY <1>1, <1>2, NextDir DEF Collecting
<1>4. level <= disk.override[d].deep /\ disk.override[d].deep \in Int
  BY <1>2, <1>3, TopType DEF Levels
<1>5. Begun = Below(d, level) /\ Ascending(list)'
  BY <1>2, <1>3, FilesUnmoved DEF Begun, Ascending
<1>6. CASE level = 0
  <2>1. pc' = "visit" /\ dirs' = Tail(dirs)
    BY <1>6 DEF Climb
  <2>2. Below(d, 0) = FilesIn(d)
    <3>1. \A f \in FilesIn(d) : f[2][1] \in Nat
      BY PlacesAreNumbers DEF FilesIn
    <3>. QED
      BY <3>1 DEF Below
  <2>3. /\ Files(n + 1) = Files(n) \cup Below(d, 0)
        /\ Remaining(n + 1)' /\ n + 1 \in 0 .. Len(AllDirs)
    BY <1>1, <1>2, <1>3, <2>1, <2>2, NextDir
  <2>4. Range(list') = Files(n + 1)' \cup Begun' /\ AllDirs' = AllDirs
    BY <1>1, <1>2, <1>5, <1>6, <2>1, <2>3, FilesUnmoved DEF Begun
  <2>. QED
    BY <1>5, <2>1, <2>3, <2>4 DEF Collecting
<1>7. CASE level # 0
  <2>1. ~(level - 1 > disk.override[d].deep)
    BY <1>2, <1>4 DEF Levels
  <2>2. pc' = "collect" /\ level' = level - 1 /\ dirs' = dirs
    BY <1>3, <1>7, <2>1 DEF Climb
  <2>3. level' + 1 = level
    BY <1>2, <2>2 DEF Levels
  <2>4. Begun' = Below(d, level)
    BY <1>2, <1>3, <2>2, <2>3, FilesUnmoved DEF Begun
  <2>5. Remaining(n)' /\ AllDirs' = AllDirs
    BY <1>1, <1>2, <2>2, FilesUnmoved DEF Remaining
  <2>6. level' <= Top(disk.override[Head(dirs)])'
    BY <1>2, <1>3, <2>2, TopType DEF Levels
  <2>7. Range(list') = Files(n)' \cup Begun'
    BY <1>1, <1>2, <1>5, <2>4, FilesUnmoved
  <2>. QED
    BY <1>5, <2>5, <2>6, <2>7 DEF Collecting
<1>. QED
  BY <1>6, <1>7

(* While nothing is installed and no other path is found, what the files   *)
(* are, and which beats which, stays.                                      *)
LEMMA FilesStand ==
    ASSUME UNCHANGED <<disk, found, version>>
    PROVE  /\ AllDirs' = AllDirs /\ Visited' = Visited
           /\ MetaAt(found)' = MetaAt(found)
           /\ \A f : OverrideAt(f)' = OverrideAt(f) /\ (Alien(f)' <=> Alien(f))
           /\ \A f, g : Beats(f, g)' <=> Beats(f, g)
           /\ Effective' = Effective
<1>1. AllDirs' = AllDirs /\ MetaAt(found)' = MetaAt(found)
  BY DEF AllDirs, MetaAt
<1>2. Visited' = Visited
  BY <1>1 DEF Visited, FilesIn
<1>3. \A f : OverrideAt(f)' = OverrideAt(f)
  BY DEF OverrideAt
<1>4. \A f : Alien(f)' <=> Alien(f)
  BY <1>3 DEF Alien
<1>5. \A f, g : Beats(f, g)' <=> Beats(f, g)
  BY <1>1 DEF Beats, Rank
<1>6. Effective' = Effective
  BY <1>2, <1>3, <1>4, <1>5 DEF Effective
<1>. QED
  BY <1>1, <1>2, <1>3, <1>4, <1>5, <1>6

(* Items that all effective files have settled are as ranked.              *)
LEMMA SettledIsExpected ==
    ASSUME TypeOK, found # <<>>,
           NEW A \in SUBSET Visited, Effective = {f \in A : OverrideAt(f).status = "ok"},
           NEW k \in DOMAIN MetaAt(found).contents, NEW field,
           Settled(A, k, field)
    PROVE  values[k][field] = Expected(k, field)
<1>1. Giving(A, k, field) = Given(k, field)
  BY DEF Giving, Given
<1>2. CASE MetaAt(found).contents[k].nooverride \/ Given(k, field) = {}
  BY <1>1, <1>2 DEF Settled, Expected
<1>3. CASE ~(MetaAt(found).contents[k].nooverride \/ Given(k, field) = {})
  <2>1. PICK f \in Given(k, field) :
           /\ \A g \in Given(k, field) \ {f} : Beats(f, g)
           /\ values[k][field] = OverrideAt(f).contents[k][field]
    BY <1>1, <1>3 DEF Settled
  <2>2. Given(k, field) \subseteq Visited
    BY <1>1 DEF Giving
  <2>3. ASSUME NEW h \in Given(k, field), \A g \in Given(k, field) \ {h} : Beats(h, g)
        PROVE  h = f
    BY <2>1, <2>2, <2>3, BeatsIsOrder
  <2>4. Best(Given(k, field)) = f
    BY <2>1, <2>3 DEF Best
  <2>. QED
    BY <1>3, <2>1, <2>4 DEF Expected
<1>. QED
  BY <1>2, <1>3

LEMMA SettledIsRanked == TypeOK /\ AllSettled => LoadedAsRanked
<1>. SUFFICES ASSUME TypeOK, AllSettled PROVE LoadedAsRanked
  OBVIOUS
<1>1. PICK A \in SUBSET Visited :
         /\ Effective = {f \in A : OverrideAt(f).status = "ok"}
         /\ \A k \in DOMAIN MetaAt(found).contents : \A field \in Fields : Settled(A, k, field)
  BY DEF AllSettled
<1>2. ASSUME NEW k \in DOMAIN MetaAt(found).contents, NEW field \in Fields
      PROVE  values[k][field] = Expected(k, field)
  <2>1. Settled(A, k, field) /\ found # <<>>
    BY <1>1 DEF AllSettled
  <2>. QED
    BY <1>1, <2>1, SettledIsExpected
<1>. QED
  BY <1>2 DEF LoadedAsRanked, Fields

(* What a return leaves settled.                                           *)
LEMMA SettledStays ==
    ASSUME AllSettled, UNCHANGED <<disk, found, version, values>>
    PROVE  AllSettled'
<1>1. PICK A \in SUBSET Visited :
         /\ Effective = {f \in A : OverrideAt(f).status = "ok"}
         /\ \A k \in DOMAIN MetaAt(found).contents : \A field \in Fields : Settled(A, k, field)
  BY DEF AllSettled
<1>2. A \in SUBSET (Visited') /\ Effective' = {f \in A : OverrideAt(f)'.status = "ok"}
  BY <1>1, FilesStand
<1>3. ASSUME NEW k \in DOMAIN MetaAt(found).contents, NEW field \in Fields
      PROVE  Settled(A, k, field)'
  <2>1. Settled(A, k, field)
    BY <1>1
  <2>2. Giving(A, k, field)' = Giving(A, k, field)
    BY FilesStand DEF Giving
  <2>. QED
    BY <2>1, <2>2, FilesStand DEF Settled
<1>4. MetaAt(found)' = MetaAt(found) /\ found' # <<>>
  BY FilesStand DEF AllSettled
<1>. QED
  BY <1>2, <1>3, <1>4 DEF AllSettled

-----------------------------------------------------------------------------
(* The steps of a load.                                                    *)
LEMMA FindMetaRanks ==
    ASSUME TypeOK, FindMeta PROVE RankInv'
<1>. DEFINE app == MetaFiles(TRUE) # {}
<1>1. CASE MetaFiles(app) = {}
  <2>1. pc' = "idle" /\ result' = FALSE
    BY <1>1 DEF FindMeta, Return
  <2>. QED
    BY <2>1 DEF RankInv
<1>2. CASE MetaFiles(app) # {}
  <2>1. /\ pc' = "visit" /\ list' = <<>> /\ dirs' = AllOverrideDirs(app)
        /\ found' \in MetaFiles(app)
    BY <1>2 DEF FindMeta
  <2>2. found'[1][2] = app
    BY <2>1 DEF MetaFiles
  <2>3. AllDirs' = dirs'
    BY <2>1, <2>2 DEF AllDirs
  <2>4. Len(dirs') \in Nat
    BY <2>1, DirsApart
  <2>5. Files(0)' = {} /\ Begun' = {} /\ Range(list') = {} /\ Ascending(list)'
    BY <2>1 DEF Files, Begun, Range, Ascending
  <2>6. /\ Len(dirs') = Len(AllDirs') - 0 /\ 0 \in 0 .. Len(AllDirs')
        /\ \A i \in 1 .. Len(dirs') : dirs'[i] = AllDirs'[0 + i]
    BY <2>3, <2>4
  <2>7. Collecting'
    BY <2>1, <2>5, <2>6 DEF Collecting, Remaining
  <2>. QED
    BY <2>1, <2>7 DEF RankInv
<1>. QED
  BY <1>1, <1>2

LEMMA LoadMetaRanks ==
    ASSUME TypeOK, found # <<>>, Collecting, LoadMeta PROVE RankInv'
<1>1. PICK doc, c : doc = MetaAt(found) /\ c = doc.contents
  OBVIOUS
<1>2. CASE doc.status # "ok" \/ doc.major > Supported
  <2>1. pc' = "idle" /\ result' = FALSE
    BY <1>1, <1>2 DEF LoadMeta, Return
  <2>. QED
    BY <2>1 DEF RankInv
<1>3. CASE /\ ~(doc.status # "ok" \/ doc.major > Supported)
           /\ {k \in DOMAIN c : c[k].value = Undefined} # {}
  <2>1. pc' = "idle" /\ result' = FALSE
    BY <1>1, <1>3 DEF LoadMeta, Return
  <2>. QED
    BY <2>1 DEF RankInv
<1>4. CASE /\ ~(doc.status # "ok" \/ doc.major > Supported)
           /\ {k \in DOMAIN c : c[k].value = Undefined} = {}
  <2>1. /\ pc' = "override" /\ UNCHANGED <<disk, found, list>> /\ pc = "visit" /\ dirs = <<>>
        /\ \A k \in DOMAIN c : k \in DOMAIN values' /\ values'[k] = c[k]
    BY <1>1, <1>4 DEF LoadMeta
  <2>2. Range(list) = Visited /\ Ascending(list)
    <3>1. PICK n \in 0 .. Len(AllDirs) : /\ Len(dirs) = Len(AllDirs) - n
                                        /\ Range(list) = Files(n) /\ Ascending(list)
      BY <2>1 DEF Collecting, Remaining, Begun
    <3>2. Len(dirs) = 0 /\ Len(AllDirs) \in Nat
      BY <2>1, RankOfDir
    <3>3. n = Len(AllDirs)
      BY <3>1, <3>2
    <3>. QED
      BY <3>1, <3>3, VisitedFiles
  <2>3. AllDirs' = AllDirs /\ MetaAt(found)' = doc
    BY <1>1, <2>1 DEF AllDirs, MetaAt
  <2>4. /\ Visited' = Visited
        /\ \A f, g : Beats(f, g)' <=> Beats(f, g)
    BY <2>1, <2>3 DEF Visited, FilesIn, Beats, Rank
  <2>5. Range(list)' = Visited' /\ Applied' = {} /\ Ascending(list)'
    BY <2>1, <2>2, <2>4 DEF Applied, Ascending, Range
  <2>6. ASSUME NEW k \in DOMAIN c
        PROVE  /\ k \in DOMAIN values' /\ values'[k].nooverride = c[k].nooverride
               /\ \A field \in Fields : Settled(Applied, k, field)'
    <3>1. k \in DOMAIN values' /\ values'[k] = c[k]
      BY <2>1
    <3>2. ASSUME NEW field \in Fields PROVE Settled(Applied, k, field)'
      <4>1. Giving(Applied, k, field)' = {}
        BY <2>5 DEF Giving
      <4>. QED
        BY <1>1, <2>3, <3>1, <4>1 DEF Settled
    <3>. QED
      BY <3>1, <3>2
  <2>7. Applying'
    BY <1>1, <2>3, <2>5, <2>6 DEF Applying
  <2>. QED
    BY <2>1, <2>7 DEF RankInv
<1>. QED
  BY <1>2, <1>3, <1>4

(* The file that is applied next is beaten by those after it.              *)
LEMMA NextIsLeast ==
    ASSUME NEW s \in Seq(OverrideFile), s # <<>>, Ascending(s)
    PROVE  /\ Range(s) = Range(Tail(s)) \cup {Head(s)}
           /\ \A g \in Range(Tail(s)) : Beats(g, Head(s))
           /\ Ascending(Tail(s))
<1>1. /\ Len(s) \in Nat \ {0} /\ DOMAIN s = 1 .. Len(s) /\ s[1] = Head(s)
      /\ DOMAIN Tail(s) = 1 .. (Len(s) - 1)
      /\ \A i \in 1 .. (Len(s) - 1) : Tail(s)[i] = s[i + 1]
  BY HeadTailProperties, EmptySeq, LenProperties
<1>2. \A i \in DOMAIN Tail(s) : i + 1 \in DOMAIN s /\ 1 \in DOMAIN s /\ 1 < i + 1
  BY <1>1
<1>3. ASSUME NEW g \in Range(Tail(s)) PROVE Beats(g, Head(s))
  <2>1. PICK i \in DOMAIN Tail(s) : g = Tail(s)[i]
    BY DEF Range
  <2>2. Beats(s[i + 1], s[1])
    BY <1>2 DEF Ascending
  <2>. QED
    BY <1>1, <2>1, <2>2
<1>4. ASSUME NEW i \in DOMAIN Tail(s), NEW j \in DOMAIN Tail(s), i < j
      PROVE  Beats(Tail(s)[j], Tail(s)[i])
  <2>1. i + 1 \in DOMAIN s /\ j + 1 \in DOMAIN s /\ i + 1 < j + 1
    BY <1>1, <1>2, <1>4
  <2>2. Beats(s[j + 1], s[i + 1])
    BY <2>1 DEF Ascending
  <2>. QED
    BY <1>1, <2>2
<1>. QED
  BY <1>3, <1>4, TakenIsFirst DEF Ascending

(* Which files are effective when the loop over the overrides ends.        *)
LEMMA AppliedIsEffective ==
    ASSUME TypeOK, found # <<>>, Applying,
           list = <<>> \/ (list # <<>> /\ Alien(Head(list)))
    PROVE  AllSettled
<1>1. /\ Range(list) \subseteq Visited /\ Applied \in SUBSET Visited
      /\ \A f \in Range(list), g \in Applied : Beats(f, g)
      /\ \A g \in Applied : ~Alien(g)
  BY DEF Applying, Applied
<1>2. ASSUME NEW g \in Applied, OverrideAt(g).status = "ok" PROVE g \in Effective
  <2>1. \A f \in Visited : Alien(f) => f \in Range(list)
    BY <1>1 DEF Applied
  <2>. QED
    BY <1>1, <1>2, <2>1 DEF Effective
<1>3. ASSUME NEW g \in Effective PROVE g \in Applied /\ OverrideAt(g).status = "ok"
  <2>1. g \in Visited /\ OverrideAt(g).status = "ok"
    BY DEF Effective
  <2>2. CASE list = <<>>
    BY <2>1, <2>2 DEF Applied, Range
  <2>3. CASE list # <<>> /\ Alien(Head(list))
    <3>1. /\ Range(list) = Range(Tail(list)) \cup {Head(list)}
          /\ \A h \in Range(Tail(list)) : Beats(h, Head(list))
      BY <2>3, NextIsLeast DEF Applying, TypeOK
    <3>2. Head(list) \in Visited /\ Beats(Head(list), g)
      BY <1>1, <2>3, <3>1 DEF Effective
    <3>3. ~Beats(g, Head(list)) /\ g # Head(list)
      BY <2>1, <3>2, BeatsIsOrder
    <3>4. g \notin Range(list)
      BY <3>1, <3>3
    <3>. QED
      BY <2>1, <3>4 DEF Applied
  <2>. QED
    BY <2>2, <2>3
<1>4. Effective = {f \in Applied : OverrideAt(f).status = "ok"}
  <2>1. Effective \subseteq {f \in Applied : OverrideAt(f).status = "ok"}
    BY <1>3
  <2>. QED
    BY <1>2, <2>1
<1>5. \A k \in DOMAIN MetaAt(found).contents : \A field \in Fields : Settled(Applied, k, field)
  BY DEF Applying
<1>. QED
  BY <1>1, <1>4, <1>5 DEF AllSettled

LEMMA FinishRanks ==
    ASSUME TypeOK, found # <<>>, Applying, Finish PROVE RankInv'
<1>1. list = <<>> /\ pc' = "idle" /\ UNCHANGED <<disk, found, version, values>>
  BY DEF Finish, Return
<1>2. AllSettled
  BY <1>1, AppliedIsEffective
<1>. QED
  BY <1>1, <1>2, SettledStays DEF RankInv

(* What one more file gives, and that it prevails over those before it.    *)
LEMMA NextSettles ==
    ASSUME NEW A, NEW f, NEW k, NEW field,
           Settled(A, k, field), \A g \in A : Beats(f, g)
    PROVE  /\ Giving(A \cup {f}, k, field) = Giving(A, k, field) =>
                 Settled(A \cup {f}, k, field)
           /\ f \in Giving(A \cup {f}, k, field) =>
                 \A g \in Giving(A \cup {f}, k, field) \ {f} : Beats(f, g)
<1>1. Giving(A \cup {f}, k, field) = Giving(A, k, field) => Settled(A \cup {f}, k, field)
  BY DEF Settled
<1>2. Giving(A \cup {f}, k, field) \subseteq A \cup {f}
  BY DEF Giving
<1>. QED
  BY <1>1, <1>2

(* What an override file does to an item, field by field.                  *)
LEMMA FieldsOverridden ==
    ASSUME NEW item \in Item, NEW change \in Change, change.value # Undefined,
           NEW field \in Fields
    PROVE  /\ Overridden(item, change).nooverride = item.nooverride
           /\ Overridden(item, change)[field] =
                 IF change[field] = Undefined THEN item[field] ELSE change[field]
<1>1. CASE field = "value"
  BY <1>1 DEF Overridden, Item, Change
<1>2. CASE field = "serial"
  BY <1>2 DEF Overridden, Item, Change
<1>3. CASE field = "readWrite"
  BY <1>3 DEF Overridden, Item, Change
<1>. QED
  BY <1>1, <1>2, <1>3 DEF Fields

LEMMA OverrideRanks ==
    ASSUME TypeOK, found # <<>>, Applying, Override PROVE RankInv'
<1>1. /\ list # <<>> /\ list \in Seq(OverrideFile) /\ list' = Tail(list)
      /\ UNCHANGED <<disk, found, version>>
      /\ Ascending(list) /\ pc = "override"
  BY DEF Override, TypeOK, Applying
<1>2. PICK f \in OverrideFile : f = Head(list)
  BY <1>1, TakenIsFirst
<1>3. PICK doc, c : doc = OverrideAt(f) /\ c = doc.contents
  OBVIOUS
<1>4. IsDoc(doc, Change)
  BY <1>3, OverrideAtType DEF TypeOK
<1>5. CASE doc.status = "foreign" \/ (doc.status = "ok" /\ doc.major # version)
  <2>1. pc' = "idle" /\ values' = values
    BY <1>2, <1>3, <1>5 DEF Override, Return
  <2>2. Alien(Head(list))
    BY <1>2, <1>3, <1>5 DEF Alien
  <2>3. AllSettled
    BY <1>1, <2>2, AppliedIsEffective
  <2>. QED
    BY <1>1, <2>1, <2>3, SettledStays DEF RankInv
<1>6. CASE ~(doc.status = "foreign" \/ (doc.status = "ok" /\ doc.major # version))
  <2>1. PICK A : A = Applied
    OBVIOUS
  <2>2. /\ Range(list) = Range(list') \cup {f}
        /\ \A g \in Range(list') : Beats(g, f)
        /\ Ascending(Tail(list))
    BY <1>1, <1>2, NextIsLeast
  <2>3. /\ Range(list) \subseteq Visited /\ A = Visited \ Range(list) /\ f \in Visited
        /\ \A g \in Range(list), h \in A : Beats(g, h)
        /\ \A g \in A : ~Alien(g)
    BY <2>1, <2>2 DEF Applying, Applied
  <2>4. f \notin Range(list')
    BY <2>2, <2>3, BeatsIsOrder
  <2>5. Applied' = A \cup {f}
    BY <1>1, <2>2, <2>3, <2>4, FilesStand DEF Applied
  <2>6. /\ Range(list') \subseteq Visited' /\ Ascending(list)'
        /\ \A g \in Range(list'), h \in A \cup {f} : Beats(g, h)'
    <3>1. Range(list') \subseteq Visited'
      BY <1>1, <2>2, <2>3, FilesStand
    <3>2. Ascending(list)'
      BY <1>1, <2>2, FilesStand DEF Ascending
    <3>3. ASSUME NEW g \in Range(list'), NEW h \in A \cup {f} PROVE Beats(g, h)'
      BY <1>1, <2>2, <2>3, FilesStand
    <3>. QED
      BY <3>1, <3>2, <3>3
  <2>7. \A h \in A \cup {f} : ~Alien(h)'
    <3>1. ~Alien(f)
      BY <1>3, <1>6 DEF Alien
    <3>. QED
      BY <1>1, <2>3, <3>1, FilesStand
  <2>8. \A g \in A : Beats(f, g)
    BY <2>2, <2>3
  <2>9. CASE doc.status = "unparsable"
    <3>1. UNCHANGED <<pc, values>>
      BY <1>2, <1>3, <2>9 DEF Override
    <3>2. ASSUME NEW k \in DOMAIN MetaAt(found).contents, NEW field \in Fields
          PROVE  Settled(A \cup {f}, k, field)
      <4>1. Giving(A \cup {f}, k, field) = Giving(A, k, field)
        BY <1>3, <2>9 DEF Giving
      <4>2. Settled(A, k, field)
        BY <2>1 DEF Applying
      <4>. QED
        BY <2>8, <4>1, <4>2, NextSettles
    <3>3. ASSUME NEW k \in DOMAIN MetaAt(found).contents, NEW field \in Fields
          PROVE  Settled(Applied, k, field)'
      <4>1. Giving(Applied, k, field)' = Giving(A \cup {f}, k, field)
        BY <1>1, <2>5, FilesStand DEF Giving
      <4>2. MetaAt(found)' = MetaAt(found) /\ values' = values
        BY <1>1, <3>1, FilesStand
      <4>3. Settled(A \cup {f}, k, field)
        BY <3>2
      <4>. QED
        BY <1>1, <4>1, <4>2, <4>3, FilesStand DEF Settled
    <3>4. Applying'
      BY <1>1, <2>5, <2>6, <2>7, <3>1, <3>3, FilesStand DEF Applying
    <3>. QED
      BY <1>1, <3>1, <3>4 DEF RankInv
  <2>10. CASE /\ doc.status = "ok"
              /\ {k \in Applicable(c) : c[k].value = Undefined} # {}
    <3>1. pc' = "idle" /\ result' = FALSE
      BY <1>2, <1>3, <1>6, <2>10 DEF Override, Return
    <3>. QED
      BY <3>1 DEF RankInv
  <2>11. CASE /\ doc.status = "ok"
              /\ {k \in Applicable(c) : c[k].value = Undefined} = {}
    <3>1. /\ UNCHANGED pc
          /\ DOMAIN values' = DOMAIN values
          /\ \A k \in DOMAIN values : values'[k] =
                IF k \in Applicable(c) THEN Overridden(values[k], c[k]) ELSE values[k]
      BY <1>2, <1>3, <1>6, <2>11 DEF Override
    <3>2. ASSUME NEW k \in DOMAIN MetaAt(found).contents
          PROVE  /\ k \in DOMAIN values'
                 /\ values'[k].nooverride = MetaAt(found).contents[k].nooverride
                 /\ \A field \in Fields : Settled(Applied, k, field)'
      <4>1. PICK base : base = MetaAt(found).contents[k]
        OBVIOUS
      <4>2. /\ k \in DOMAIN values /\ values[k] \in Item
            /\ values[k].nooverride = base.nooverride
            /\ \A field \in Fields : Settled(A, k, field)
        BY <2>1, <4>1 DEF Applying, TypeOK, Partial
      <4>3. k \in Applicable(c) <=> k \in DOMAIN c /\ ~base.nooverride
        BY <4>2 DEF Applicable
      <4>4. k \in DOMAIN c => c[k] \in Change
        BY <1>3, <1>4 DEF IsDoc, Partial
      <4>5. k \in Applicable(c) => c[k].value # Undefined
        BY <2>11
      <4>6. values'[k].nooverride = base.nooverride
        BY <3>1, <4>2, <4>3, <4>4, <4>5, FieldsOverridden DEF Fields
      <4>7. ASSUME NEW field \in Fields PROVE Settled(Applied, k, field)'
        <5>1. Giving(Applied, k, field)' = Giving(A \cup {f}, k, field)
          BY <1>1, <2>5, FilesStand DEF Giving
        <5>2. MetaAt(found)'.contents[k] = base
          BY <1>1, <4>1, FilesStand
        <5>3. CASE base.nooverride
          <6>1. values'[k][field] = values[k][field]
            BY <3>1, <4>2, <4>3, <5>3
          <6>. QED
            BY <4>1, <4>2, <5>2, <5>3, <6>1 DEF Settled
        <5>4. CASE ~base.nooverride /\ k \in DOMAIN c /\ c[k][field] # Undefined
          <6>1. values'[k][field] = c[k][field]
            BY <3>1, <4>2, <4>3, <4>4, <4>5, <5>4, FieldsOverridden
          <6>2. f \in Giving(A \cup {f}, k, field)
            BY <1>3, <2>11, <5>4 DEF Giving
          <6>3. \A g \in Giving(A \cup {f}, k, field) \ {f} : Beats(f, g)
            BY <2>8, <4>2, <6>2, NextSettles
          <6>4. OverrideAt(f)' = doc
            BY <1>1, <1>3, FilesStand
          <6>. QED
            BY <1>1, <1>3, <5>1, <5>2, <5>4, <6>1, <6>2, <6>3, <6>4, FilesStand DEF Settled
        <5>5. CASE ~base.nooverride /\ ~(k \in DOMAIN c /\ c[k][field] # Undefined)
          <6>1. values'[k][field] = values[k][field]
            BY <3>1, <4>2, <4>3, <4>4, <4>5, <5>5, FieldsOverridden
          <6>2. Giving(A \cup {f}, k, field) = Giving(A, k, field)
            BY <1>3, <5>5 DEF Giving
          <6>3. Settled(A \cup {f}, k, field)
            BY <2>8, <4>2, <6>2, NextSettles
          <6>. QED
            BY <1>1, <4>1, <5>1, <5>2, <6>1, <6>3, FilesStand DEF Settled
        <5>. QED
          BY <5>3, <5>4, <5>5
      <4>. QED
        BY <3>1, <4>1, <4>2, <4>6, <4>7
    <3>3. Applying'
      BY <1>1, <2>5, <2>6, <2>7, <3>2, FilesStand DEF Applying
    <3>. QED
      BY <1>1, <3>1, <3>3 DEF RankInv
  <2>. QED
    BY <1>4, <1>6, <2>9, <2>10, <2>11 DEF IsDoc
<1>. QED
  BY <1>5, <1>6

LEMMA RanksInductive ==
    TypeOK /\ RankInv /\ [Next]_vars => RankInv'
<1>. SUFFICES ASSUME TypeOK, RankInv, [Next]_vars PROVE RankInv'
  OBVIOUS
<1>1. pc # "idle" => found # <<>>
  BY DEF TypeOK
<1>2. CASE FindMeta
  BY <1>2, FindMetaRanks
<1>3. CASE Install(disk')
  BY <1>3 DEF Install, RankInv
<1>4. CASE \E d \in Packages : Install(d)
  BY <1>4 DEF Install, RankInv
<1>5. ASSUME ~steady, UNCHANGED steady PROVE RankInv'
  BY <1>5 DEF RankInv
<1>6. CASE (Visit \/ Collect \/ Climb) /\ steady
  <2>1. Collecting /\ found # <<>> /\ pc' \in {"visit", "collect", "climb"}
    BY <1>1, <1>6 DEF RankInv, Visit, Collect, Climb
  <2>2. Collecting'
    BY <1>6, <2>1, VisitOrders, CollectOrders, ClimbOrders
  <2>. QED
    BY <2>1, <2>2 DEF RankInv
<1>7. CASE LoadMeta /\ steady
  BY <1>1, <1>7, LoadMetaRanks DEF RankInv, LoadMeta
<1>8. CASE Override /\ steady
  BY <1>1, <1>8, OverrideRanks DEF RankInv, Override
<1>9. CASE Finish /\ steady
  BY <1>1, <1>9, FinishRanks DEF RankInv, Finish
<1>10. CASE UNCHANGED vars
  <2>1. /\ UNCHANGED <<disk, found, version, values>>
        /\ UNCHANGED <<pc, dirs, level, list, result, steady>>
    BY <1>10 DEF vars
  <2>2. Collecting => Collecting'
    <3>1. Begun' = Begun /\ \A n : (Remaining(n)' <=> Remaining(n)) /\ Files(n)' = Files(n)
      BY <2>1, FilesStand DEF Begun, Below, Remaining, Files, FilesIn
    <3>2. Ascending(list) => Ascending(list)'
      BY <2>1, FilesStand DEF Ascending
    <3>. QED
      BY <2>1, <3>1, <3>2, FilesStand DEF Collecting
  <2>3. Applying => Applying'
    <3>1. Applied' = Applied
      BY <2>1, FilesStand DEF Applied
    <3>2. ASSUME NEW k, NEW field, Settled(Applied, k, field)
          PROVE  Settled(Applied, k, field)'
      <4>1. Giving(Applied, k, field)' = Giving(Applied, k, field)
        BY <2>1, <3>1, FilesStand DEF Giving
      <4>2. MetaAt(found)' = MetaAt(found) /\ values' = values
        BY <2>1, FilesStand
      <4>. QED
        BY <2>1, <3>2, <4>1, <4>2, FilesStand DEF Settled
    <3>. QED
      BY <2>1, <3>1, <3>2, FilesStand DEF Applying, Ascending
  <2>. QED
    BY <2>1, <2>2, <2>3, SettledStays DEF RankInv
<1>11. UNCHANGED steady \/ FindMeta \/ \E d \in Packages : Install(d)
  BY DEF Next, Load, Visit, Collect, Climb, LoadMeta, Override, Finish, vars
<1>. QED
  BY <1>2, <1>4, <1>5, <1>6, <1>7, <1>8, <1>9, <1>10, <1>11 DEF Next, Load

(* A load that succeeds on a disk that stands still gives every item of    *)
(* the meta each field from the file of highest precedence that gives it,  *)
(* for any number of directories, levels, override files and items         *)
(* (loadOverrides and load(meta, overrides) in dconfigfile.cpp).           *)
THEOREM LoadsAreRanked == Spec => []LoadedAsRanked
<1>1. Init => RankInv
  BY DEF Init, RankInv
<1>2. TypeOK /\ RankInv => LoadedAsRanked
  BY SettledIsRanked DEF RankInv, LoadedAsRanked
<1>. QED
  BY <1>1, <1>2, RanksInductive, MetaTypeCorrect, PTL DEF Spec
=============================================================================
