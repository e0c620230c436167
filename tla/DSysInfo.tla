------------------------------- MODULE DSysInfo -------------------------------
(***************************************************************************)
(* DSysInfo (src/dsysinfo.cpp): what is known of the system is read from   *)
(* several files when it is first asked for and kept.  What could not be   *)
(* read, a first place of zero and an unknown product are read again each  *)
(* time.  The files are replaced by upgrades.                              *)
(*                                                                         *)
(* A version has five places, digits 0 .. 9 or letters from 65; Bad stands *)
(* for a character that is neither.  A minor version is a sequence of      *)
(* parts between dots, a part a sequence of digits 0 .. 9 and letters      *)
(* 10 .. 35.                                                               *)
(***************************************************************************)
EXTENDS Integers, Sequences, TLC

CONSTANTS
    OsFiles,      \* contents of os-version: [build, minor], and None
    ReleaseFiles, \* contents of the release files: functions from fields
    DeepinFiles,  \* contents of deepin-version: [type, edition], and None
    Blocks,       \* what lsblk prints: sequence of [name, parent, size, root]; the
                  \* parents make no circle
    Known,        \* values of "id" that name a product
    Alike,        \* other values that begin with the letter of a known one
    MaxUpgrades,  \* bound: times the files are replaced
    None

Bad == -1

DSysInfoAssumption ==
    /\ \A f \in OsFiles \ {None} : f.build \in Seq(Nat \cup {Bad})
    /\ \A i \in DOMAIN Blocks : Blocks[i].size \in Nat

Fields == {"id", "name", "version"}

VARIABLES
    osFile, releaseFiles, deepinFile, \* the files; releaseFiles[i]: os-release,
                                      \* the one below /usr, lsb-release
    osBuild,     \* five places, 0 at first
    minVersion,  \* [type, sp, update]
    release,     \* release[f], None if empty
    productType, \* "unset", "unknown" or a known id
    deepin,      \* [type, edition]
    cpuModel, diskSize,
    wholeFiles,  \* history: the versions os-version ever had, while all were whole
    upgrades

sysVars == <<osFile, releaseFiles, deepinFile, osBuild, minVersion, release,
             productType, deepin, cpuModel, diskSize, wholeFiles, upgrades>>
osVars      == <<osBuild, minVersion>>
releaseVars == <<release, productType>>
files       == <<osFile, releaseFiles, deepinFile, wholeFiles, upgrades>>

Fresh   == [type |-> "none", sp |-> 0, update |-> 0]
NoBuild == [i \in 1 .. 5 |-> 0]

-----------------------------------------------------------------------------
IsNumber(s) == s # <<>> /\ \A i \in DOMAIN s : s[i] <= 9
Number(s)   ==
    LET read[k \in 0 .. Len(s)] == IF k = 0 THEN 0 ELSE 10 * read[k - 1] + s[k]
    IN IF IsNumber(s) THEN read[Len(s)] ELSE 0

(* splitA_BC_DMode: BC is the service pack, D the update.                  *)
SplitA_BC_DMode(minor, old) ==
    LET whole == minor[1]
        last  == minor[Len(minor)]
        lone  == Len(minor) = 1
    IN [type   |-> "A_BC_D",
        sp     |-> IF lone \/ Len(whole) >= 3 THEN Number(SubSeq(whole, 1, 3)) % 100 ELSE 0,
        update |-> IF last = <<>> THEN (IF lone THEN old.update ELSE 0)
                   ELSE last[Len(last)]]

(* By the product line: x.y.z, A.B.C or A-BC-D.                            *)
MinVersion(line, minor, old) ==
    CASE line = 7 -> [type |-> "X_Y_Z", sp |-> old.sp, update |-> old.update]
      [] line = 3 /\ Len(minor) = 1 /\ Len(minor[1]) # 2 -> SplitA_BC_DMode(minor, old)
      [] line = 3 /\ (Len(minor) # 1 \/ Len(minor[1]) = 2) ->
            [type   |-> "A_B_C",
             sp     |-> IF Len(minor) \in 2 .. 3 THEN Number(minor[2])
                        ELSE IF Len(minor) = 1 THEN 0 ELSE old.sp,
             update |-> IF Len(minor) = 3 THEN Number(minor[3])
                        ELSE IF Len(minor) \in 1 .. 2 THEN 0 ELSE old.update]
      [] OTHER -> SplitA_BC_DMode(minor, old)

(* ensureOsVersion fills in the places until one is neither a digit nor a  *)
(* capital letter.  The first place tells that the file was read.          *)
Ensured(f, build, min) ==
    IF build[1] > 0 \/ f = None \/ Len(f.build) # 5 THEN [build |-> build, min |-> min]
    ELSE LET bad == {i \in 1 .. 5 : f.build[i] = Bad}
         IN IF bad = {} THEN [build |-> f.build, min |-> MinVersion(f.build[4], f.minor, min)]
            ELSE LET first == CHOOSE i \in bad : \A j \in bad : i <= j
                 IN [build |-> [i \in 1 .. 5 |-> IF i < first THEN f.build[i]
                                                 ELSE IF i = first THEN 0 ELSE build[i]],
                     min |-> min]

EnsureOsVersionSlip ==
    /\ osBuild' = Ensured(osFile, osBuild, minVersion).build
    /\ minVersion' = Ensured(osFile, NoBuild, minVersion).min
    /\ UNCHANGED <<files, releaseVars, deepin, cpuModel, diskSize>>

EnsureOsVersion ==
    LET e == Ensured(osFile, osBuild, minVersion)
    IN /\ osBuild' = e.build /\ minVersion' = e.min
       /\ UNCHANGED <<files, releaseVars, deepin, cpuModel, diskSize>>

(* spVersion, udpateVersion and uosType, which is told of deepin and uos   *)
(* only, uosEditionType, which is told of any product.                     *)
SpVersion(min) == IF min.type = "X_Y_Z" THEN 0 ELSE min.sp
UpdateVersion(min) ==
    IF min.type = "X_Y_Z" \/ (min.type = "A_BC_D" /\ min.update > 35) THEN 0 ELSE min.update
IsDeepin(type) == type \in {"deepin", "uos"}
UosType(build, type) == IF IsDeepin(type) /\ build[2] \in 1 .. 3 THEN build[2] ELSE 0
UosEditionType(build) ==
    LET desktop == 1 :> "Professional" @@ 2 :> "Home" @@ 7 :> "Home" @@ 3 :> "Community"
                   @@ 4 :> "Military" @@ 9 :> "Military" @@ 5 :> "Device" @@ 6 :> "Education"
        server  == 1 :> "Enterprise" @@ 2 :> "EnterpriseC" @@ 3 :> "Euler" @@ 4 :> "MilitaryS"
                   @@ 5 :> "Device" @@ 9 :> "Education" @@ 65 :> "Defense"
        Of(table) == IF build[4] \in DOMAIN table THEN table[build[4]] ELSE "Unknown"
    IN CASE build[2] = 1 -> Of(desktop) [] build[2] = 2 -> Of(server)
         [] build[2] = 3 -> "Enterprise" [] OTHER -> "Unknown"

-----------------------------------------------------------------------------
(* readEtcFile fills in the fields that are still empty and tells whether  *)
(* it found any.                                                           *)
ReadEtcFile(r, f) == [x \in Fields |-> IF r[x] = None /\ x \in DOMAIN f THEN f[x] ELSE r[x]]
ReadOsRelease(r) ==
    LET first == ReadEtcFile(r, releaseFiles[1])
    IN IF first # r THEN first ELSE ReadEtcFile(r, releaseFiles[2])
ReadLsbRelease(r) == ReadEtcFile(r, releaseFiles[3])

(* An id with the first letter of a known one leaves the type as it was.   *)
EnsureReleaseInfo ==
    LET r == ReadLsbRelease(ReadOsRelease(release)) IN
    /\ productType \in {"unset", "unknown"}
    /\ release' = r
    /\ productType' = IF r["id"] \in Known THEN r["id"]
                      ELSE IF r["id"] \in Alike THEN productType ELSE "unknown"
    /\ UNCHANGED <<files, osVars, deepin, cpuModel, diskSize>>

(* The edition stays if the file no longer has one.                        *)
EnsureDeepinInfo ==
    /\ deepin.type \in {"unset", "unknown"}
    /\ deepin' = IF deepinFile = None THEN [deepin EXCEPT !.type = "unknown"]
                 ELSE [type    |-> IF deepinFile.type = None THEN "unknown" ELSE deepinFile.type,
                       edition |-> IF deepinFile.edition = None THEN deepin.edition
                                   ELSE deepinFile.edition]
    /\ UNCHANGED <<files, osVars, releaseVars, cpuModel, diskSize>>

(* /proc/cpuinfo first, then lscpu, either of which may not tell.          *)
CpuModelName ==
    /\ cpuModel = None
    /\ \E found \in {"cpuinfo", "lscpu", None} : cpuModel' = found
    /\ UNCHANGED <<files, osVars, releaseVars, deepin, diskSize>>

(* systemDiskSize: from the first entry mounted at "/" up to a device that *)
(* has no parent; 0 if the parent is not listed.  Of the entries of one    *)
(* device the last counts.  If lsblk fails or lists nothing the size stays.*)
Device(name) ==
    LET at == {i \in DOMAIN Blocks : Blocks[i].name = name}
    IN IF at = {} THEN 0 ELSE CHOOSE i \in at : \A j \in at : j <= i
RootDevice ==
    LET at == {i \in DOMAIN Blocks : Blocks[i].root}
    IN IF at = {} THEN 0 ELSE Device(Blocks[CHOOSE i \in at : \A j \in at : i <= j].name)
TopOf[i \in DOMAIN Blocks] ==
    IF Blocks[i].parent = None THEN i
    ELSE IF Device(Blocks[i].parent) = 0 THEN 0 ELSE TopOf[Device(Blocks[i].parent)]
SystemDiskSize ==
    /\ \/ UNCHANGED diskSize
       \/ diskSize' = IF RootDevice # 0 /\ TopOf[RootDevice] \in DOMAIN Blocks
                      THEN Blocks[TopOf[RootDevice]].size ELSE 0
    /\ UNCHANGED <<files, osVars, releaseVars, deepin, cpuModel>>

-----------------------------------------------------------------------------
Whole(f) == f # None /\ Len(f.build) = 5 /\ f.build[1] # 0
            /\ \A i \in 1 .. 5 : f.build[i] # Bad

Upgrade(f, rs, d) ==
    /\ upgrades < MaxUpgrades
    /\ osFile' = f /\ releaseFiles' = rs /\ deepinFile' = d
    /\ wholeFiles' = IF Whole(f) /\ wholeFiles # {} THEN wholeFiles \cup {f} ELSE {}
    /\ upgrades' = upgrades + 1
    /\ UNCHANGED <<osVars, releaseVars, deepin, cpuModel, diskSize>>

Init ==
    /\ osFile \in OsFiles /\ releaseFiles \in ReleaseFiles /\ deepinFile \in DeepinFiles
    /\ osBuild = NoBuild /\ minVersion = Fresh
    /\ release = [x \in Fields |-> None] /\ productType = "unset"
    /\ deepin = [type |-> "unset", edition |-> None]
    /\ cpuModel = None /\ diskSize = 0
    /\ wholeFiles = (IF Whole(osFile) THEN {osFile} ELSE {}) /\ upgrades = 0

Next ==
    \/ EnsureOsVersion
    \/ EnsureReleaseInfo
    \/ EnsureDeepinInfo
    \/ CpuModelName
    \/ SystemDiskSize
    \/ \E f \in OsFiles, rs \in ReleaseFiles, d \in DeepinFiles : Upgrade(f, rs, d)

Spec == Init /\ [][Next]_sysVars

-----------------------------------------------------------------------------
TypeOK ==
    /\ osBuild \in [1 .. 5 -> Nat] /\ DOMAIN release = Fields
    /\ productType \in {"unset", "unknown"} \cup Known
    /\ diskSize \in Nat

(* What is told of the version is that of one of the files that were       *)
(* installed, read by itself, whatever was asked when, as long as all of   *)
(* them were whole.                                                        *)
VersionIsOneFiles ==
    wholeFiles # {} /\ osBuild # NoBuild =>
        \E f \in wholeFiles :
            LET e == Ensured(f, NoBuild, Fresh)
            IN /\ SpVersion(minVersion) = SpVersion(e.min)
               /\ UpdateVersion(minVersion) = UpdateVersion(e.min)
               /\ UosType(osBuild, productType) = UosType(e.build, productType)
               /\ UosEditionType(osBuild) = UosEditionType(e.build)
=============================================================================
