------------------------- MODULE DConfigFileProofs -------------------------
(***************************************************************************)
(* Theorems about DConfigFile, for every set of users, keys, values,       *)
(* metas and faults.                                                       *)
(***************************************************************************)
EXTENDS DConfigFile, TLAPS

(* The constants are as DConfigInfo and DConfigFile assume.                *)
USE DConfigInfoAssumption, DConfigFileAssumption

LEMMA EmptyTypes ==
    /\ NoEntry \in Entry
    /\ NoItem \in Item
    /\ EmptyCache \in [Keys -> Entry]
    /\ EmptyMeta \in [Keys -> Item]
BY DEF NoEntry, Entry, NoItem, Item, EmptyCache, EmptyMeta, MaybeValue, NoSerial

(* What setValue stores is a value or a refusal.                           *)
LEMMA CoerceType ==
    ASSUME NEW v \in Values, NEW m \in MaybeValue
    PROVE  Coerce(v, m) \in MaybeValue
BY DEF Coerce, MaybeValue

LEMMA MergeType ==
    ASSUME NEW S, NEW hash \in [Keys -> S], NEW doc \in [Keys -> S]
    PROVE  Merge(hash, doc) \in [Keys -> S]
BY DEF Merge

LEMMA LoadCacheType ==
    ASSUME TypeOK, NEW c \in created, LoadCache(c)
    PROVE  /\ cache' \in [Caches -> [Keys -> Entry]]
           /\ loaded' \subseteq created
           /\ ret' \in BOOLEAN
<1>1. CASE file[c].status = "foreign"
  BY <1>1 DEF LoadCache, TypeOK
<1>2. CASE file[c].status # "foreign"
  <2>1. c \in Caches /\ cache[c] \in [Keys -> Entry] /\ file[c].content \in [Keys -> Entry]
    BY DEF TypeOK, CacheFile
  <2>2. Merge(cache[c], file[c].content) \in [Keys -> Entry]
    BY <2>1, MergeType
  <2>. QED
    BY <1>2, <2>1, <2>2 DEF LoadCache, TypeOK
<1>. QED
  BY <1>1, <1>2

(* The cache a call on an existing user cache resolves to exists.          *)
LEMMA GetCacheType ==
    ASSUME TypeOK, Idle, NEW k \in Keys, NEW u \in created \cup {None},
           GetCache(k, u) # None
    PROVE  GetCache(k, u) \in created
BY DEF GetCache, TypeOK, Idle

LEMMA SetValueType ==
    ASSUME TypeOK, NEW k \in Keys, NEW v \in Values, NEW u \in Users \cup {None},
           SetValue(k, v, u)
    PROVE  /\ cache' \in [Caches -> [Keys -> Entry]]
           /\ changed' \in [Caches -> BOOLEAN]
           /\ ret' \in BOOLEAN
<1> DEFINE c == GetCache(k, u)
           w == Coerce(v, meta[k].value)
           s == meta[k].serial
<1>1. meta[k].value \in MaybeValue /\ s \in Serials
  BY DEF TypeOK, Item
<1>2. w \in MaybeValue
  BY <1>1, CoerceType
<1>3. CASE c # None /\ w # NoValue /\ NeedsUpdate(cache[c][k], w, s)
  <2>1. c \in Caches
    BY <1>3, GetCacheType DEF SetValue, TypeOK
  <2>2. NewEntry(w, s) \in Entry
    BY <1>1, <1>2 DEF NewEntry, Entry
  <2>3. cache' = [cache EXCEPT ![c][k] = NewEntry(w, s)]
    BY <1>3 DEF SetValue
  <2>. QED
    BY <1>3, <2>1, <2>2, <2>3 DEF SetValue, TypeOK
<1>4. CASE ~(c # None /\ w # NoValue /\ NeedsUpdate(cache[c][k], w, s))
  BY <1>4 DEF SetValue, TypeOK
<1>. QED
  BY <1>3, <1>4

(* Every variable keeps its type.                                          *)
THEOREM TypeCorrect == Spec => []TypeOK
<1>1. Init => TypeOK
  <2> SUFFICES ASSUME Init PROVE TypeOK
    OBVIOUS
  <2>1. installed \in [Keys -> Item] /\ meta \in [Keys -> Item]
    BY EmptyTypes DEF Init
  <2>2. file \in [Caches -> CacheFile]
    BY EmptyTypes DEF Init, CacheFile
  <2>3. cache \in [Caches -> [Keys -> Entry]] /\ changed \in [Caches -> BOOLEAN]
    BY EmptyTypes DEF Init
  <2>. QED
    BY <2>1, <2>2, <2>3 DEF Init, TypeOK
<1>2. TypeOK /\ [Next]_vars => TypeOK'
  <2> SUFFICES ASSUME TypeOK, [Next]_vars PROVE TypeOK'
    OBVIOUS
  <2>1. CASE Start
    BY <2>1 DEF Start, TypeOK, env, Caches
  <2>2. CASE Load
    <3>1. meta' \in [Keys -> Item]
      BY <2>2, MergeType DEF Load, TypeOK
    <3>2. CASE installed = EmptyMeta
      BY <2>2, <3>1, <3>2 DEF Load, TypeOK, env
    <3>3. CASE installed # EmptyMeta
      <4>1. GlobalCache \in created
        BY <2>2 DEF Load, Idle, TypeOK
      <4>. QED
        BY <2>2, <3>1, <3>3, <4>1, LoadCacheType DEF Load, TypeOK, env
    <3>. QED
      BY <3>2, <3>3
  <2>3. CASE Stop
    BY <2>3, EmptyTypes DEF Stop, TypeOK, env
  <2>4. ASSUME NEW u \in Users, CreateUserCache(u) PROVE TypeOK'
    BY <2>4 DEF CreateUserCache, TypeOK, env, Caches, Idle
  <2>5. ASSUME NEW u \in Users, LoadUserCache(u) PROVE TypeOK'
    BY <2>5, LoadCacheType DEF LoadUserCache, TypeOK, env
  <2>6. ASSUME NEW k \in Keys, NEW u \in Users \cup {None}, Reset(k, u)
        PROVE  TypeOK'
    <3> DEFINE c == GetCache(k, u)
    <3>1. CASE c # None
      <4>1. c \in Caches
        BY <2>6, <3>1, GetCacheType DEF Reset, TypeOK
      <4>2. cache' = [cache EXCEPT ![c][k] = NoEntry]
        BY <2>6, <3>1 DEF Reset
      <4>3. cache' \in [Caches -> [Keys -> Entry]]
        BY <4>1, <4>2, EmptyTypes DEF TypeOK
      <4>4. changed' \in [Caches -> BOOLEAN]
        BY <2>6, <3>1, <4>1 DEF Reset, TypeOK
      <4>. QED
        BY <2>6, <3>1, <4>3, <4>4 DEF Reset, TypeOK, env
    <3>2. CASE GetCache(k, u) = None
      BY <2>6, <3>2 DEF Reset, TypeOK, env
    <3>. QED
      BY <3>1, <3>2
  <2>7. ASSUME NEW k \in Keys, NEW u \in Users \cup {None}, NEW v \in Values,
               SetValue(k, v, u)
        PROVE  TypeOK'
    BY <2>7, SetValueType DEF SetValue, TypeOK, env
  <2>8. CASE Save
    <3>1. ASSUME NEW c \in Caches, SaveUnchanged(c) PROVE TypeOK'
      BY <3>1 DEF SaveUnchanged, TypeOK, env, objs
    <3>2. ASSUME NEW c \in Caches, SaveFails(c) PROVE TypeOK'
      BY <3>2 DEF SaveFails, TypeOK, env
    <3>3. ASSUME NEW c \in Caches, SaveOpen(c) PROVE TypeOK'
      BY <3>3, EmptyTypes DEF SaveOpen, Unreadable, CacheFile, TypeOK
    <3>. QED
      BY <2>8, <3>1, <3>2, <3>3 DEF Save
  <2>9. CASE SaveWrite
    BY <2>9 DEF SaveWrite, Stored, CacheFile, TypeOK, env, objs
  <2>10. CASE SaveShort \/ SaveLost
    BY <2>10 DEF SaveShort, SaveLost, TypeOK, env, objs
  <2>11. ASSUME NEW m \in Metas, Upgrade(m) PROVE TypeOK'
    BY <2>11 DEF Upgrade, TypeOK, env, objs
  <2>12. CASE UNCHANGED vars
    BY <2>12 DEF vars, TypeOK
  <2>. QED
    BY <2>1, <2>2, <2>3, <2>4, <2>5, <2>6, <2>7, <2>8, <2>9, <2>10, <2>11,
       <2>12 DEF Next
<1>. QED
  BY <1>1, <1>2, PTL DEF Spec

-----------------------------------------------------------------------------
(* CleanMeansStored.  A cache that is neither changed, nor being saved, nor *)
(* left behind agrees with its file, or is still as constructed; no entry   *)
(* without a value carries a serial.                                        *)
WellFormed(hash) == \A k \in Keys : hash[k].value = NoValue => hash[k] = NoEntry

Agrees(c) ==
    \/ changed[c] \/ saving = c \/ c \in faulted
    \/ file[c].content = cache[c]
    \/ c \notin loaded /\ cache[c] = EmptyCache

CleanInv ==
    \A c \in Caches :
        WellFormed(cache[c]) /\ WellFormed(file[c].content) /\ Agrees(c)

LEMMA EmptyWellFormed == WellFormed(EmptyCache)
BY DEF WellFormed, EmptyCache

LEMMA MergeWellFormed ==
    ASSUME NEW hash \in [Keys -> Entry], NEW doc \in [Keys -> Entry],
           WellFormed(hash), WellFormed(doc)
    PROVE  WellFormed(Merge(hash, doc))
BY DEF WellFormed, Merge, Present

(* Loading a file into a fresh cache, or once more into the cache it came   *)
(* from, yields exactly what the file holds.                                *)
LEMMA MergeIdentity ==
    ASSUME NEW hash \in [Keys -> Entry], NEW doc \in [Keys -> Entry],
           WellFormed(doc), hash = doc \/ hash = EmptyCache
    PROVE  Merge(hash, doc) = doc
<1>1. ASSUME NEW k \in Keys PROVE Merge(hash, doc)[k] = doc[k]
  BY <1>1 DEF Merge, WellFormed, Present, EmptyCache
<1>2. Merge(hash, doc) \in [Keys -> Entry]
  BY MergeType
<1>. QED
  BY <1>1, <1>2

LEMMA LoadCacheClean ==
    ASSUME TypeOK, CleanInv, NEW c \in created, LoadCache(c),
           UNCHANGED <<file, changed, saving, faulted>>
    PROVE  CleanInv'
<1>1. CASE file[c].status = "foreign"
  BY <1>1 DEF LoadCache, CleanInv, Agrees
<1>2. CASE file[c].status # "foreign"
  <2>1. c \in Caches /\ cache[c] \in [Keys -> Entry] /\ file[c].content \in [Keys -> Entry]
    BY DEF TypeOK, CacheFile
  <2>2. WellFormed(cache[c]) /\ WellFormed(file[c].content) /\ Agrees(c)
    BY <2>1 DEF CleanInv
  <2>3. /\ cache' = [cache EXCEPT ![c] = Merge(cache[c], file[c].content)]
        /\ loaded' = loaded \cup {c}
    BY <1>2 DEF LoadCache
  <2>4. cache'[c] = Merge(cache[c], file[c].content)
    BY <2>1, <2>3 DEF TypeOK
  <2>5. WellFormed(cache'[c])
    BY <2>1, <2>2, <2>4, MergeWellFormed
  <2>6. Agrees(c)'
    BY <2>1, <2>2, <2>4, MergeIdentity DEF Agrees
  <2>7. ASSUME NEW d \in Caches, d # c
        PROVE  WellFormed(cache'[d]) /\ Agrees(d)'
    <3>1. cache'[d] = cache[d]
      BY <2>1, <2>3, <2>7 DEF TypeOK
    <3>. QED
      BY <2>3, <2>7, <3>1 DEF CleanInv, Agrees
  <2>. QED
    BY <2>2, <2>5, <2>6, <2>7 DEF CleanInv
<1>. QED
  BY <1>1, <1>2

(* Writing one entry of a cache and marking it changed keeps CleanInv.      *)
LEMMA WriteEntryClean ==
    ASSUME TypeOK, CleanInv, NEW c \in Caches, NEW k \in Keys, NEW e \in Entry,
           e.value = NoValue => e = NoEntry,
           cache' = [cache EXCEPT ![c][k] = e],
           changed' = [changed EXCEPT ![c] = TRUE],
           UNCHANGED <<file, loaded, saving, faulted>>
    PROVE  CleanInv'
<1>1. cache'[c] = [cache[c] EXCEPT ![k] = e] /\ changed'[c]
  BY DEF TypeOK
<1>2. WellFormed(cache'[c])
  BY <1>1 DEF CleanInv, WellFormed, TypeOK
<1>3. ASSUME NEW d \in Caches, d # c
      PROVE  WellFormed(cache'[d]) /\ Agrees(d)'
  <2>1. cache'[d] = cache[d] /\ changed'[d] = changed[d]
    BY <1>3 DEF TypeOK
  <2>. QED
    BY <1>3, <2>1 DEF CleanInv, Agrees
<1>. QED
  BY <1>1, <1>2, <1>3 DEF CleanInv, Agrees

LEMMA CleanInvInductive == TypeOK /\ CleanInv /\ [Next]_vars => CleanInv'
<1> SUFFICES ASSUME TypeOK, CleanInv, [Next]_vars PROVE CleanInv'
  OBVIOUS
<1>1. CASE Start
  BY <1>1 DEF Start, CleanInv, Agrees, env
<1>2. CASE Load
  <2>1. CASE installed = EmptyMeta
    BY <1>2, <2>1 DEF Load, CleanInv, Agrees, env
  <2>2. CASE installed # EmptyMeta
    <3>1. GlobalCache \in created
      BY <1>2 DEF Load, Idle, TypeOK
    <3>. QED
      BY <1>2, <2>2, <3>1, LoadCacheClean DEF Load, env
  <2>. QED
    BY <2>1, <2>2
<1>3. CASE Stop
  <2>1. \A c \in Caches : cache'[c] = EmptyCache /\ file'[c] = file[c] /\ loaded' = {}
    BY <1>3 DEF Stop, env
  <2>. QED
    BY <2>1, EmptyWellFormed DEF CleanInv, Agrees
<1>4. ASSUME NEW u \in Users, CreateUserCache(u) PROVE CleanInv'
  BY <1>4 DEF CreateUserCache, CleanInv, Agrees, env
<1>5. ASSUME NEW u \in Users, LoadUserCache(u) PROVE CleanInv'
  BY <1>5, LoadCacheClean DEF LoadUserCache, env
<1>6. ASSUME NEW k \in Keys, NEW u \in Users \cup {None}, Reset(k, u)
      PROVE  CleanInv'
  <2> DEFINE c == GetCache(k, u)
  <2>1. CASE c # None
    <3>1. c \in Caches
      BY <1>6, <2>1, GetCacheType DEF Reset, TypeOK
    <3>. QED
      BY <1>6, <2>1, <3>1, WriteEntryClean, EmptyTypes DEF Reset, env
  <2>2. CASE c = None
    BY <1>6, <2>2 DEF Reset, CleanInv, Agrees, env
  <2>. QED
    BY <2>1, <2>2
<1>7. ASSUME NEW k \in Keys, NEW u \in Users \cup {None}, NEW v \in Values,
             SetValue(k, v, u)
      PROVE  CleanInv'
  <2> DEFINE c == GetCache(k, u)
             w == Coerce(v, meta[k].value)
             s == meta[k].serial
             e == NewEntry(w, s)
  <2>1. CASE c # None /\ w # NoValue /\ NeedsUpdate(cache[c][k], w, s)
    <3>1. c \in Caches
      BY <1>7, <2>1, GetCacheType DEF SetValue, TypeOK
    <3>2. w \in MaybeValue /\ s \in Serials
      BY CoerceType DEF TypeOK, Item
    <3>3. e \in Entry /\ e.value # NoValue
      BY <2>1, <3>2 DEF NewEntry, Entry
    <3>4. cache' = [cache EXCEPT ![c][k] = e] /\ changed' = [changed EXCEPT ![c] = TRUE]
      BY <1>7, <2>1 DEF SetValue
    <3>5. UNCHANGED <<file, loaded, saving, faulted>>
      BY <1>7 DEF SetValue, env
    <3> HIDE DEF c, e
    <3>. QED
      BY <3>1, <3>3, <3>4, <3>5, WriteEntryClean
  <2>2. CASE ~(c # None /\ w # NoValue /\ NeedsUpdate(cache[c][k], w, s))
    BY <1>7, <2>2 DEF SetValue, CleanInv, Agrees, env
  <2>. QED
    BY <2>1, <2>2
<1>8. CASE Save
  <2>1. ASSUME NEW c \in Caches, SaveUnchanged(c) PROVE CleanInv'
    BY <2>1 DEF SaveUnchanged, CleanInv, Agrees, env, objs
  <2>2. ASSUME NEW c \in Caches, SaveFails(c) PROVE CleanInv'
    BY <2>2 DEF SaveFails, CleanInv, Agrees, env, TypeOK
  <2>3. ASSUME NEW c \in Caches, SaveOpen(c) PROVE CleanInv'
    <3>1. file'[c].content = EmptyCache /\ saving' = c
      BY <2>3 DEF SaveOpen, Unreadable, TypeOK
    <3>2. \A d \in Caches : d # c => file'[d] = file[d] /\ changed'[d] = changed[d]
      BY <2>3 DEF SaveOpen, TypeOK
    <3>. QED
      BY <2>3, <3>1, <3>2, EmptyWellFormed DEF SaveOpen, CleanInv, Agrees, Idle
  <2>. QED
    BY <1>8, <2>1, <2>2, <2>3 DEF Save
<1>9. CASE SaveWrite
  <2>1. saving \in Caches
    BY <1>9 DEF SaveWrite, TypeOK
  <2>2. file'[saving].content = cache[saving]
    BY <1>9, <2>1 DEF SaveWrite, Stored, TypeOK
  <2>3. \A d \in Caches : d # saving => file'[d] = file[d]
    BY <1>9, <2>1 DEF SaveWrite, TypeOK
  <2>4. UNCHANGED <<cache, changed, loaded>> /\ faulted' = faulted \ {saving}
    BY <1>9 DEF SaveWrite, objs
  <2>. QED
    BY <2>1, <2>2, <2>3, <2>4 DEF CleanInv, Agrees
<1>10. CASE SaveShort \/ SaveLost
  BY <1>10 DEF SaveShort, SaveLost, CleanInv, Agrees, env, objs
<1>11. ASSUME NEW m \in Metas, Upgrade(m) PROVE CleanInv'
  BY <1>11 DEF Upgrade, CleanInv, Agrees, objs
<1>12. CASE UNCHANGED vars
  BY <1>12 DEF vars, CleanInv, Agrees
<1>. QED
  BY <1>1, <1>2, <1>3, <1>4, <1>5, <1>6, <1>7, <1>8, <1>9, <1>10, <1>11,
     <1>12 DEF Next

(* A loaded, unchanged cache that no failed save left behind is what its    *)
(* file holds: the change flag of DConfigCacheImpl misses no set or reset.  *)
THEOREM CleanStored == Spec => []CleanMeansStored
<1>1. Init => CleanInv
  BY EmptyWellFormed DEF Init, CleanInv, Agrees
<1>2. TypeOK /\ CleanInv => CleanMeansStored
  BY DEF CleanInv, Agrees, CleanMeansStored, TypeOK
<1>. QED
  BY <1>1, <1>2, CleanInvInductive, TypeCorrect, PTL DEF Spec

-----------------------------------------------------------------------------
(* SerialsNeverAhead.  While serials only grow, every entry, cached or on   *)
(* disk, was written under a serial the installed meta has reached; and so  *)
(* was every one this process judges by the meta it has loaded.             *)
Dated(entry, k) ==
    /\ ~Ahead(entry, installed[k])
    /\ Present(k, meta) => ~Ahead(entry, meta[k])

SerialInv ==
    /\ \A k \in Keys : Present(k, meta) => meta[k].serial <= installed[k].serial
    /\ \A c \in Caches, k \in Keys :
          Dated(file[c].content[k], k) /\ Dated(cache[c][k], k)

LEMMA SerialTypes ==
    ASSUME TypeOK
    PROVE  /\ \A k \in Keys : meta[k].serial \in Int /\ installed[k].serial \in Int
           /\ \A c \in Caches, k \in Keys :
                 cache[c][k].serial \in Int /\ file[c].content[k].serial \in Int
           /\ NoEntry.serial < 0
<1>1. \A k \in Keys : meta[k] \in Item /\ installed[k] \in Item
  BY DEF TypeOK
<1>2. \A c \in Caches, k \in Keys : cache[c][k] \in Entry /\ file[c].content[k] \in Entry
  BY DEF TypeOK, CacheFile
<1>3. \A x \in Item : x.serial \in Int
  BY DEF Item
<1>4. \A x \in Entry : x.serial \in Int
  BY DEF Entry
<1>5. NoEntry.serial < 0
  BY DEF NoEntry, NoSerial
<1>. QED
  BY <1>1, <1>2, <1>3, <1>4, <1>5

(* If the metas stay as they are, only new entries have to be checked.      *)
LEMMA SerialFrame ==
    ASSUME TypeOK, SerialInv, UNCHANGED <<meta, installed>>,
           \A c \in Caches, k \in Keys :
              /\ \/ file'[c].content[k] = file[c].content[k]
                 \/ Dated(file'[c].content[k], k)
              /\ \/ cache'[c][k] = cache[c][k]
                 \/ Dated(cache'[c][k], k)
    PROVE  SerialInv'
<1>1. ASSUME NEW c \in Caches, NEW k \in Keys
      PROVE  Dated(file'[c].content[k], k) /\ Dated(cache'[c][k], k)
  BY <1>1 DEF SerialInv
<1>2. \A c \in Caches, k \in Keys :
         Dated(file[c].content[k], k)' /\ Dated(cache[c][k], k)'
  BY <1>1 DEF Dated, Ahead, Present
<1>. QED
  BY <1>2 DEF SerialInv, Present

LEMMA EmptyDated ==
    ASSUME TypeOK, NEW k \in Keys
    PROVE  Dated(EmptyCache[k], k) /\ Dated(NoEntry, k)
BY DEF Dated, Ahead, EmptyCache, NoEntry, NoSerial

LEMMA LoadCacheSerial ==
    ASSUME TypeOK, SerialInv, NEW d \in created, LoadCache(d),
           UNCHANGED <<meta, installed, file>>
    PROVE  SerialInv'
<1>1. CASE file[d].status = "foreign"
  BY <1>1, SerialFrame DEF LoadCache
<1>2. CASE file[d].status # "foreign"
  <2>1. ASSUME NEW c \in Caches, NEW k \in Keys
        PROVE  cache'[c][k] = cache[c][k] \/ Dated(cache'[c][k], k)
    <3>1. \/ cache'[c][k] = cache[c][k]
          \/ c = d /\ cache'[c][k] = file[d].content[k]
      BY <1>2, <2>1 DEF LoadCache, Merge, TypeOK
    <3>. QED
      BY <2>1, <3>1 DEF SerialInv
  <2>. QED
    BY <2>1, SerialFrame
<1>. QED
  BY <1>1, <1>2

LEMMA SerialInvInductive ==
    ASSUME ~Downgrades
    PROVE  TypeOK /\ SerialInv /\ [Next]_vars => SerialInv'
<1> SUFFICES ASSUME TypeOK, SerialInv, [Next]_vars PROVE SerialInv'
  OBVIOUS
<1>1. CASE Start
  BY <1>1, SerialFrame DEF Start, env
<1>2. CASE Load
  <2>1. \A k \in Keys : \/ meta'[k] = meta[k]
                         \/ meta'[k] = installed[k]
    BY <1>2 DEF Load, Merge, TypeOK
  <2>2. UNCHANGED <<installed, file>>
    BY <1>2 DEF Load, env
  <2>3. ASSUME NEW c \in Caches, NEW k \in Keys
        PROVE  cache'[c][k] = cache[c][k] \/ cache'[c][k] = file[c].content[k]
    BY <1>2, <2>3 DEF Load, LoadCache, Merge, TypeOK
  <2>4. \A k \in Keys : installed[k].serial <= installed[k].serial
    BY SerialTypes
  <2>. QED
    BY <2>1, <2>2, <2>3, <2>4 DEF SerialInv, Dated, Ahead, Present
<1>3. CASE Stop
  <2>1. \A c \in Caches, k \in Keys : cache'[c][k] = NoEntry
    BY <1>3 DEF Stop, EmptyCache
  <2>2. UNCHANGED <<installed, file>>
    BY <1>3 DEF Stop, env
  <2>3. ASSUME NEW k \in Keys PROVE ~Ahead(NoEntry, installed[k])
    BY EmptyDated DEF Dated
  <2>4. ASSUME NEW k \in Keys PROVE meta'[k].value = NoValue
    BY <1>3 DEF Stop, EmptyMeta, NoItem
  <2>5. ASSUME NEW c \in Caches, NEW k \in Keys
        PROVE  Dated(file[c].content[k], k)' /\ Dated(cache[c][k], k)'
    <3>1. cache'[c][k] = NoEntry /\ ~Present(k, meta)'
      BY <2>1, <2>4, <2>5 DEF Present
    <3>2. ~Ahead(NoEntry, installed[k]) /\ ~Ahead(file[c].content[k], installed[k])
      BY <2>3, <2>5 DEF SerialInv, Dated
    <3>. QED
      BY <3>1, <3>2, <2>2 DEF Dated, Ahead
  <2>. QED
    BY <2>4, <2>5 DEF SerialInv, Present
<1>4. ASSUME NEW u \in Users, CreateUserCache(u) PROVE SerialInv'
  BY <1>4, SerialFrame DEF CreateUserCache, env
<1>5. ASSUME NEW u \in Users, LoadUserCache(u) PROVE SerialInv'
  BY <1>5, LoadCacheSerial DEF LoadUserCache, env
<1>6. ASSUME NEW k \in Keys, NEW u \in Users \cup {None}, Reset(k, u)
      PROVE  SerialInv'
  <2>1. ASSUME NEW c \in Caches, NEW i \in Keys
        PROVE  cache'[c][i] = cache[c][i] \/ cache'[c][i] = NoEntry
    BY <1>6, <2>1 DEF Reset, TypeOK
  <2>2. UNCHANGED <<meta, installed, file>>
    BY <1>6 DEF Reset, env
  <2>. QED
    BY <2>1, <2>2, EmptyDated, SerialFrame
<1>7. ASSUME NEW k \in Keys, NEW u \in Users \cup {None}, NEW v \in Values,
             SetValue(k, v, u)
      PROVE  SerialInv'
  <2> DEFINE e == NewEntry(Coerce(v, meta[k].value), meta[k].serial)
  <2>1. UNCHANGED <<meta, installed, file>>
    BY <1>7 DEF SetValue, env
  <2>2. CASE Coerce(v, meta[k].value) # NoValue
    <3>1. Present(k, meta)
      BY <2>2 DEF Coerce, Present
    <3>2. Dated(e, k)
      BY <3>1, SerialTypes DEF Dated, Ahead, NewEntry, SerialInv
    <3>3. ASSUME NEW c \in Caches, NEW i \in Keys
          PROVE  cache'[c][i] = cache[c][i] \/ (i = k /\ cache'[c][i] = e)
      <4>1. PICK d : d = GetCache(k, u)
        OBVIOUS
      <4>2. cache' = cache \/ cache' = [cache EXCEPT ![d][k] = e]
        BY <1>7, <4>1 DEF SetValue
      <4>. HIDE DEF e
      <4>. QED
        BY <4>2 DEF TypeOK
    <3>. QED
      BY <2>1, <3>2, <3>3, SerialFrame
  <2>3. CASE Coerce(v, meta[k].value) = NoValue
    BY <1>7, <2>1, <2>3, SerialFrame DEF SetValue
  <2>. QED
    BY <2>2, <2>3
<1>8. CASE Save
  <2>1. UNCHANGED <<meta, installed, cache>>
    BY <1>8 DEF Save, SaveUnchanged, SaveFails, SaveOpen, env, objs
  <2>2. ASSUME NEW c \in Caches, NEW k \in Keys
        PROVE  \/ file'[c].content[k] = file[c].content[k]
               \/ file'[c].content[k] = EmptyCache[k]
    BY <1>8, <2>2
    DEF Save, SaveUnchanged, SaveFails, SaveOpen, Unreadable, env, TypeOK
  <2>. QED
    BY <2>1, <2>2, EmptyDated, SerialFrame
<1>9. CASE SaveWrite
  <2>1. UNCHANGED <<meta, installed, cache>>
    BY <1>9 DEF SaveWrite, objs
  <2>2. ASSUME NEW c \in Caches, NEW k \in Keys
        PROVE  \/ file'[c].content[k] = file[c].content[k]
               \/ file'[c].content[k] = cache[c][k]
    BY <1>9, <2>2 DEF SaveWrite, Stored, TypeOK
  <2>3. \A c \in Caches, k \in Keys : Dated(cache[c][k], k)
    BY DEF SerialInv
  <2>. QED
    BY <2>1, <2>2, <2>3, SerialFrame
<1>10. CASE SaveShort \/ SaveLost
  BY <1>10, SerialFrame DEF SaveShort, SaveLost, env, objs
<1>11. ASSUME NEW m \in Metas, Upgrade(m) PROVE SerialInv'
  <2>1. \A k \in Keys : installed'[k].serial >= installed[k].serial
    BY <1>11 DEF Upgrade
  <2>2. \A k \in Keys : installed'[k].serial \in Int
    BY <1>11 DEF Upgrade, Item
  <2>3. UNCHANGED <<meta, cache, file>>
    BY <1>11 DEF Upgrade, objs
  <2>. QED
    BY <2>1, <2>2, <2>3, SerialTypes DEF SerialInv, Dated, Ahead, Present
<1>12. CASE UNCHANGED vars
  BY <1>12, SerialFrame DEF vars
<1>. QED
  BY <1>1, <1>2, <1>3, <1>4, <1>5, <1>6, <1>7, <1>8, <1>9, <1>10, <1>11,
     <1>12 DEF Next

LEMMA SerialInvAlways ==
    ASSUME ~Downgrades
    PROVE  Spec => []SerialInv
<1>1. Init => SerialInv
  BY EmptyTypes DEF Init, SerialInv, Dated, Ahead, Present, EmptyCache, NoEntry,
     EmptyMeta, NoItem, NoSerial
<1>2. TypeOK /\ SerialInv /\ [Next]_vars => SerialInv'
  BY SerialInvInductive
<1>. QED
  BY <1>1, <1>2, TypeCorrect, PTL DEF Spec

(* While the package manager only ever raises serials, no entry is ahead of *)
(* the meta it is judged against.                                           *)
THEOREM SerialsInThePast ==
    ASSUME ~Downgrades
    PROVE  Spec => []SerialsNeverAhead
<1>1. SerialInv => SerialsNeverAhead
  BY DEF SerialInv, Dated, SerialsNeverAhead
<1>. QED
  BY <1>1, SerialInvAlways, PTL

-----------------------------------------------------------------------------
(* The properties of single calls.                                          *)

(* A value setValue accepts for a writable item is read at once: by every   *)
(* user if the item is global, by the caller's user otherwise.              *)
THEOREM AcceptedVisible == Spec => AcceptedIsVisible
<1> DEFINE Property ==
      \A k \in Keys, v \in Values, u \in Users \cup {None} :
         SetValue(k, v, u) /\ ret' /\ meta[k].readWrite =>
            \A w \in (IF meta[k].global THEN Users ELSE {u}) :
               Value(k, w)' = Coerce(v, meta[k].value)
<1>1. ASSUME TypeOK PROVE Property
  <2> SUFFICES ASSUME NEW k \in Keys, NEW v \in Values, NEW u \in Users \cup {None},
                      SetValue(k, v, u), ret', meta[k].readWrite,
                      NEW w \in (IF meta[k].global THEN Users ELSE {u})
               PROVE  Value(k, w)' = Coerce(v, meta[k].value)
    OBVIOUS
  <2> DEFINE c == GetCache(k, u)
             e == NewEntry(Coerce(v, meta[k].value), meta[k].serial)
  <2>1. /\ c # None
        /\ Coerce(v, meta[k].value) # NoValue
        /\ cache' = [cache EXCEPT ![c][k] = e]
        /\ meta' = meta
    BY DEF SetValue
  <2>2. GetCache(k, w)' = c
    BY <2>1 DEF GetCache
  <2>3. c \in Caches
    BY <2>1 DEF GetCache, Caches
  <2>4. cache'[c][k] = e
    BY <2>1, <2>3, <1>1 DEF TypeOK
  <2>5. CheckSerial(meta[k].serial, e.serial)
    BY <1>1, SerialTypes DEF CheckSerial, NewEntry
  <2>6. Value(k, w)' = ItemValue(meta[k], e)
    BY <2>1, <2>2, <2>4 DEF Value
  <2>. QED
    BY <2>1, <2>5, <2>6 DEF ItemValue, CacheValue, OrElse, NewEntry
<1>2. TypeOK => [Property]_vars
  BY <1>1
<1>. QED
  BY <1>2, TypeCorrect, PTL DEF AcceptedIsVisible

(* While serials only grow, setValue refuses a convertible value of a       *)
(* writable item only if the caller reads that value already.               *)
THEOREM RefusedNoOp ==
    ASSUME ~Downgrades
    PROVE  Spec => RefusedIsNoOp
<1> DEFINE Property ==
      \A k \in Keys, v \in Values, u \in Users :
         /\ SetValue(k, v, u)
         /\ ~ret'
         /\ meta[k].readWrite
         /\ Coerce(v, meta[k].value) # NoValue
         => Value(k, u)' = Coerce(v, meta[k].value)
<1>1. ASSUME TypeOK, SerialInv PROVE Property
  <2> SUFFICES ASSUME NEW k \in Keys, NEW v \in Values, NEW u \in Users,
                      SetValue(k, v, u), ~ret', meta[k].readWrite,
                      Coerce(v, meta[k].value) # NoValue
               PROVE  Value(k, u)' = Coerce(v, meta[k].value)
    OBVIOUS
  <2> DEFINE c == GetCache(k, u)
             w == Coerce(v, meta[k].value)
  <2>1. c \in Caches /\ c # None
    BY DEF GetCache, Caches
  <2>2. UNCHANGED <<meta, cache>> /\ ~NeedsUpdate(cache[c][k], w, meta[k].serial)
    BY <2>1 DEF SetValue
  <2>3. Present(k, meta)
    BY DEF Coerce, Present
  <2>4. ~Ahead(cache[c][k], meta[k])
    BY <1>1, <2>1, <2>3 DEF SerialInv, Dated
  <2>5. CheckSerial(meta[k].serial, cache[c][k].serial)
    BY <1>1, <2>1, <2>2, <2>4, SerialTypes DEF NeedsUpdate, CheckSerial, Ahead
  <2>6. Value(k, u)' = ItemValue(meta[k], cache[c][k])
    BY <2>1, <2>2 DEF Value, GetCache
  <2>. QED
    BY <2>2, <2>5, <2>6 DEF NeedsUpdate, ItemValue, CacheValue, OrElse
<1>2. TypeOK /\ SerialInv => [Property]_vars
  BY <1>1
<1>. QED
  BY <1>2, TypeCorrect, SerialInvAlways, PTL DEF RefusedIsNoOp

LEMMA RetiredSerial ==
    ASSUME NEW m \in Int, NEW n \in Int, NEW e \in Int, n >= m,
           ~(e >= 0 /\ e > m), ~CheckSerial(m, e)
    PROVE  ~CheckSerial(n, e)
BY DEF CheckSerial

(* While serials only grow, a stored entry the installed meta has retired   *)
(* is never accepted again.                                                 *)
THEOREM RetiredForGood ==
    ASSUME ~Downgrades
    PROVE  Spec => RetiredStaysRetired
<1> DEFINE Property ==
      \A c \in Caches, k \in Keys :
         LET e == file[c].content[k] IN
         /\ e = file'[c].content[k]
         /\ ~CheckSerial(installed[k].serial, e.serial)
         => ~CheckSerial(installed'[k].serial, e.serial)
<1>1. ASSUME TypeOK, TypeOK', SerialInv, [Next]_vars PROVE Property
  <2>1. \/ installed' = installed
        \/ \A k \in Keys : installed'[k].serial >= installed[k].serial
    BY <1>1
    DEF Next, vars, env, Start, Load, Stop, CreateUserCache, LoadUserCache,
        SetValue, Reset, Save, SaveUnchanged, SaveFails, SaveOpen, SaveWrite,
        SaveShort, SaveLost, Upgrade
  <2>2. ASSUME NEW c \in Caches, NEW k \in Keys,
               ~CheckSerial(installed[k].serial, file[c].content[k].serial)
        PROVE  ~CheckSerial(installed'[k].serial, file[c].content[k].serial)
    <3>1. ~Ahead(file[c].content[k], installed[k])
      BY <1>1, <2>2 DEF SerialInv, Dated
    <3>2. /\ installed[k].serial \in Int
          /\ installed'[k].serial \in Int
          /\ file[c].content[k].serial \in Int
      <4>1. installed[k] \in Item /\ installed'[k] \in Item
        BY <1>1, <2>2 DEF TypeOK
      <4>. QED
        BY <1>1, <2>2, <4>1, SerialTypes DEF Item
    <3>3. installed'[k].serial >= installed[k].serial
      BY <2>1, <2>2, <3>2
    <3>4. ~(file[c].content[k].serial >= 0
            /\ file[c].content[k].serial > installed[k].serial)
      BY <3>1 DEF Ahead
    <3>. QED
      BY <2>2, <3>2, <3>3, <3>4, RetiredSerial
  <2>. QED
    BY <2>2
<1>2. TypeOK /\ TypeOK' /\ SerialInv /\ [Next]_vars => [Property]_vars
  BY <1>1
<1>. QED
  BY <1>2, TypeCorrect, SerialInvAlways, PTL DEF Spec, RetiredStaysRetired

-----------------------------------------------------------------------------
(* DConfigFile implements DConfigView.                                      *)
Sees(u, k) == Value(k, IF u \in created THEN u ELSE None)

LEMMA ViewConsistent == View!Consistent /\ View!Consistent'
BY DEF View!Consistent, Value, GetCache, ItemValue, CacheValue, OrElse

(* A call that touches one user's cache only.                               *)
LEMMA PrivateStep ==
    ASSUME NEW u \in Users, meta' = meta,
           cache'[GlobalCache] = cache[GlobalCache],
           \A w \in Users \ {u} : /\ cache'[w] = cache[w]
                                  /\ w \in created' <=> w \in created
    PROVE  View!PrivateChange(u)
<1>1. ASSUME NEW w \in Users, NEW k \in Keys,
             \/ w # u
             \/ ~meta[k].readWrite
             \/ meta[k].global
      PROVE  Sees(w, k)' = Sees(w, k)
  BY <1>1 DEF Sees, Value, GetCache, ItemValue, CacheValue, OrElse
<1>2. View!items' = View!items
  BY DEF View!items
<1>. QED
  BY <1>1, <1>2 DEF View!PrivateChange, Sees

(* A call that touches the global cache only.                               *)
LEMMA SharedStep ==
    ASSUME UNCHANGED <<meta, created>>, \A w \in Users : cache'[w] = cache[w]
    PROVE  View!SharedChange
<1>1. ASSUME NEW w \in Users, NEW k \in Keys,
             ~(meta[k].readWrite /\ meta[k].global)
      PROVE  Sees(w, k)' = Sees(w, k)
  BY <1>1 DEF Sees, Value, GetCache, ItemValue, CacheValue, OrElse
<1>2. View!items' = View!items
  BY DEF View!items
<1>. QED
  BY <1>1, <1>2, ViewConsistent DEF View!SharedChange, Sees

(* Nothing a client can see.                                                *)
LEMMA HiddenStep ==
    ASSUME UNCHANGED <<meta, created, cache>>
    PROVE  UNCHANGED View!vars
BY DEF View!vars, View!items, Value, GetCache

LEMMA SameItemsSameMeta ==
    ASSUME meta \in [Keys -> Item], meta' \in [Keys -> Item],
           View!items' = View!items
    PROVE  meta' = meta
<1>1. ASSUME NEW k \in Keys PROVE meta'[k] = meta[k]
  <2>1. meta[k] \in Item /\ meta'[k] \in Item
    OBVIOUS
  <2> DEFINE values == [i \in Keys |-> meta[i].value]
             serials == [i \in Keys |-> meta[i].serial]
             globals == {i \in Keys : meta[i].global}
             writables == {i \in Keys : meta[i].readWrite}
  <2>2. values' = values /\ serials' = serials /\ globals' = globals
        /\ writables' = writables
    BY DEF View!items
  <2>3. values'[k] = values[k] /\ serials'[k] = serials[k]
    BY <2>2
  <2>4. (k \in globals' <=> k \in globals) /\ (k \in writables' <=> k \in writables)
    BY <2>2
  <2>. QED
    BY <2>1, <2>3, <2>4 DEF Item
<1>. QED
  BY <1>1

LEMMA LoadCacheFrame ==
    ASSUME TypeOK, NEW d \in Caches, LoadCache(d) \/ UNCHANGED cache
    PROVE  \A c \in Caches \ {d} : cache'[c] = cache[c]
BY DEF LoadCache, TypeOK

LEMMA ViewStep ==
    TypeOK /\ TypeOK' /\ [Next]_vars => [View!Next]_(View!vars)
<1> SUFFICES ASSUME TypeOK, TypeOK', [Next]_vars
             PROVE  View!Next \/ UNCHANGED View!vars
  OBVIOUS
<1>1. CASE Start
  <2>1. created = {} /\ \A u \in Users : u \notin created'
    BY <1>1 DEF Start, TypeOK
  <2>2. UNCHANGED <<meta, cache>>
    BY <1>1 DEF Start
  <2>. QED
    BY <2>1, <2>2 DEF View!vars, View!items, Value, GetCache
<1>2. CASE Load
  <2>1. CASE View!items' = View!items
    <3>1. meta' = meta
      BY <2>1, SameItemsSameMeta DEF TypeOK
    <3>2. created' = created /\ \A w \in Users : cache'[w] = cache[w]
      BY <1>2, LoadCacheFrame DEF Load, Caches
    <3>. QED
      BY <3>1, <3>2, SharedStep DEF View!Next
  <2>2. CASE View!items' # View!items
    BY <2>2, ViewConsistent DEF View!Next, View!Reload
  <2>. QED
    BY <2>1, <2>2
<1>3. CASE Stop
  <2>1. CASE View!items' = View!items
    <3>1. meta' = meta /\ meta' = EmptyMeta
      BY <1>3, <2>1, SameItemsSameMeta DEF Stop, TypeOK
    <3>2. ASSUME NEW u \in Users, NEW k \in Keys PROVE Sees(u, k)' = Sees(u, k)
      BY <3>1 DEF Sees, Value, ItemValue, CacheValue, OrElse, EmptyMeta, NoItem
    <3>. QED
      BY <2>1, <3>2 DEF View!vars, Sees, View!items
  <2>2. CASE View!items' # View!items
    BY <2>2, ViewConsistent DEF View!Next, View!Reload
  <2>. QED
    BY <2>1, <2>2
<1>4. ASSUME NEW u \in Users, CreateUserCache(u) PROVE View!Next
  <2>1. View!PrivateChange(u)
    BY <1>4, PrivateStep DEF CreateUserCache
  <2>. QED
    BY <2>1 DEF View!Next
<1>5. ASSUME NEW u \in Users, LoadUserCache(u) PROVE View!Next
  <2>1. View!PrivateChange(u)
    BY <1>5, LoadCacheFrame, PrivateStep DEF LoadUserCache, Caches
  <2>. QED
    BY <2>1 DEF View!Next
<1>6. ASSUME NEW k \in Keys, NEW u \in Users \cup {None}, UNCHANGED <<meta, created>>,
             \A c \in Caches : c # GetCache(k, u) => cache'[c] = cache[c],
             GetCache(k, u) = None => cache' = cache
      PROVE  View!Next \/ UNCHANGED View!vars
  <2>1. CASE GetCache(k, u) = None
    BY <1>6, <2>1, HiddenStep
  <2>2. CASE GetCache(k, u) = GlobalCache
    BY <1>6, <2>2, SharedStep DEF View!Next, Caches
  <2>3. CASE GetCache(k, u) \in Users
    <3>1. View!PrivateChange(GetCache(k, u))
      BY <1>6, <2>3, PrivateStep DEF Caches
    <3>. QED
      BY <2>3, <3>1 DEF View!Next
  <2>. QED
    BY <1>6, <2>1, <2>2, <2>3 DEF GetCache
<1>7. ASSUME NEW k \in Keys, NEW u \in Users \cup {None}, Reset(k, u)
      PROVE  View!Next \/ UNCHANGED View!vars
  BY <1>6, <1>7 DEF Reset, TypeOK
<1>8. ASSUME NEW k \in Keys, NEW u \in Users \cup {None}, NEW v \in Values,
             SetValue(k, v, u)
      PROVE  View!Next \/ UNCHANGED View!vars
  BY <1>6, <1>8 DEF SetValue, TypeOK
<1>9. CASE Save \/ SaveWrite \/ SaveShort \/ SaveLost
  BY <1>9, HiddenStep
  DEF Save, SaveUnchanged, SaveFails, SaveOpen, SaveWrite, SaveShort, SaveLost, objs
<1>10. ASSUME NEW m \in Metas, Upgrade(m) PROVE UNCHANGED View!vars
  BY <1>10, HiddenStep DEF Upgrade, objs
<1>11. CASE UNCHANGED vars
  BY <1>11, HiddenStep DEF vars
<1>. QED
  BY <1>1, <1>2, <1>3, <1>4, <1>5, <1>7, <1>8, <1>9, <1>10, <1>11 DEF Next

(* Whatever the process does, its clients see what DConfigView allows: a    *)
(* call for one user never shows to another, global items read alike for    *)
(* everyone, read-only items keep their default.                            *)
THEOREM ImplementsView == Spec => ViewSpec
<1>1. Init => View!Init
  BY ViewConsistent DEF View!Init
<1>. QED
  BY <1>1, ViewStep, TypeCorrect, PTL DEF Spec, ViewSpec, View!Spec
=============================================================================
