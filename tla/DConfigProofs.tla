---------------------------- MODULE DConfigProofs ----------------------------
(***************************************************************************)
(* Theorems about DConfig, for any number of processes, configurations and *)
(* users, any metas and any faults.                                        *)
(***************************************************************************)
EXTENDS DConfig, SequenceTheorems, TLAPS

LEMMA EntryTypes ==
    /\ NoEntry \in Entry
    /\ EmptyCache \in [Keys -> Entry]
    /\ NoCaches \in [Files -> [Keys -> Entry]]
    /\ [status |-> "torn", content |-> EmptyCache] \in CacheFile
BY DConfigInfoAssumption
   DEF NoEntry, Entry, EmptyCache, NoCaches, CacheFile, MaybeValue

LEMMA OwnFiles ==
    ASSUME NEW p \in Procs
    PROVE  /\ UserFile(p) \in Files /\ GlobalFile(p) \in Files
           /\ Own(p) \subseteq Files
           /\ \A f \in Own(p) : f[1] = ConfigOf[p]
           /\ <<Generic, UserOf[p]>> \in Files /\ <<Generic, GlobalCache>> \in Files
           /\ \A k \in Keys : Target(p, k) \in Own(p)
BY DConfigAssumption DEF UserFile, GlobalFile, Own, Files, Target

LEMMA MetaTypes ==
    ASSUME NEW c \in Configs, NEW k \in Keys
    PROVE  Meta[c][k].value \in MaybeValue /\ Meta[c][k].serial \in Serials
BY DConfigAssumption DEF Item

LEMMA CoerceType ==
    ASSUME NEW v \in Values, NEW m \in MaybeValue
    PROVE  Coerce(v, m) \in MaybeValue
BY DConfigInfoAssumption DEF Coerce, MaybeValue

(* What a process sets or resets, in one place: entry e of file f.         *)
Put(p, f, k, e) ==
    /\ cache' = [cache EXCEPT ![p][f][k] = e]
    /\ changed' = [changed EXCEPT ![p] = @ \cup {f}]
    /\ promise' = [promise EXCEPT ![f][k] = e.value]
    /\ announced' = <<p, k>>
    /\ UNCHANGED <<file, pc, generic, todo, writing>>

LEMMA SetIsPut ==
    ASSUME NEW p \in Procs, NEW k \in Keys, Valid(p),
           Reset(p, k) \/ \E v \in Values : SetValue(p, k, v)
    PROVE  \E f \in Own(p), e \in Entry : Put(p, f, k, e)
<1>1. Target(p, k) \in Own(p)
  BY OwnFiles
<1>2. CASE Reset(p, k)
  <2>1. NoEntry \in Entry /\ NoEntry.value = NoValue
    BY EntryTypes DEF NoEntry
  <2>2. Put(p, Target(p, k), k, NoEntry)
    BY <1>2, <2>1 DEF Reset, Put
  <2>. QED
    BY <1>1, <2>1, <2>2
<1>3. ASSUME NEW v \in Values, SetValue(p, k, v)
      PROVE  \E f \in Own(p), e \in Entry : Put(p, f, k, e)
  <2>. DEFINE item == Meta[ConfigOf[p]][k]
              w == Coerce(v, item.value)
              e == NewEntry(w, item.serial)
  <2>1. w \in MaybeValue /\ item.serial \in Serials
    BY DConfigAssumption, MetaTypes, CoerceType
  <2>2. e \in Entry /\ e.value = w
    BY <2>1 DEF NewEntry, Entry
  <2>3. Put(p, Target(p, k), k, e)
    BY <1>3, <2>2 DEF SetValue, Put
  <2>. HIDE DEF e
  <2>. QED
    BY <1>1, <2>2, <2>3
<1>. QED
  BY <1>2, <1>3

-----------------------------------------------------------------------------
(* Types.  A process writes the files of its own configuration only.       *)
WritesOwn == \A p \in Procs : writing[p] => Head(todo[p]) \in Own(p)

TypeInv == TypeOK /\ WritesOwn

LEMMA VanishTypes ==
    ASSUME TypeInv, NEW p \in Procs, Lose(p) \/ promise' = promise, Vanish(p),
           file' = file, NEW q \in {"off", "crashed"}, pc' = [pc EXCEPT ![p] = q]
    PROVE  TypeInv'
<1>. USE DEF TypeInv, TypeOK
<1>1. /\ pc' \in [Procs -> {"off", "on", "closing", "crashed"}]
      /\ cache' \in [Procs -> [Files -> [Keys -> Entry]]]
      /\ changed' \in [Procs -> SUBSET Files]
      /\ generic' \in [Procs -> BOOLEAN]
      /\ todo' \in [Procs -> Seq(Files)]
      /\ writing' \in [Procs -> BOOLEAN]
      /\ announced' = None
  BY EntryTypes DEF Vanish
<1>2. promise' \in [Files -> [Keys -> MaybeValue]]
  <2>1. \A f \in Files : Values0(f) \in [Keys -> MaybeValue]
    BY DEF Values0, CacheFile, Entry
  <2>. QED
    BY <2>1 DEF Lose
<1>3. \A r \in Procs : changed'[r] \subseteq Own(r)
  BY DEF Vanish
<1>4. \A r \in Procs : writing'[r] =>
          pc'[r] = "closing" /\ todo'[r] # <<>> /\ Head(todo'[r]) \in Own(r)
  BY DEF Vanish, WritesOwn
<1>. QED
  BY <1>1, <1>2, <1>3, <1>4 DEF WritesOwn

LEMMA TypeStep == TypeInv /\ [Next]_vars => TypeInv'
<1>. SUFFICES ASSUME TypeInv, [Next]_vars PROVE TypeInv'
  OBVIOUS
<1>0. TypeOK /\ WritesOwn
  BY DEF TypeInv
<1>1. ASSUME NEW p \in Procs, Open(p) PROVE TypeInv'
  <2>1. cache' \in [Procs -> [Files -> [Keys -> Entry]]]
    <3>1. [f \in Files |-> IF f \in Loaded(p) THEN file[f].content ELSE EmptyCache]
             \in [Files -> [Keys -> Entry]]
      BY <1>0, EntryTypes DEF TypeOK, CacheFile
    <3>. QED
      BY <1>0, <1>1, <3>1 DEF Open, TypeOK
  <2>2. Fallback(p) \in BOOLEAN
    BY DEF Fallback
  <2>3. generic' \in [Procs -> BOOLEAN]
    BY <1>0, <1>1, <2>2 DEF Open, TypeOK
  <2>. QED
    BY <1>0, <1>1, <2>1, <2>3 DEF Open, TypeInv, TypeOK, WritesOwn
<1>2. ASSUME NEW p \in Procs, Close(p) PROVE TypeInv'
  <2>. DEFINE s == <<UserFile(p), GlobalFile(p)>> \o
                   (IF generic[p] THEN <<<<Generic, UserOf[p]>>, <<Generic, GlobalCache>>>>
                    ELSE <<>>)
  <2>1. s \in Seq(Files)
    BY OwnFiles
  <2>2. todo' = [todo EXCEPT ![p] = s]
    BY <1>2 DEF Close
  <2>. HIDE DEF s
  <2>3. pc[p] = "on" /\ ~writing[p]
    BY <1>0, <1>2 DEF Close, TypeOK
  <2>. QED
    BY <1>0, <1>2, <2>1, <2>2, <2>3 DEF Close, TypeInv, TypeOK, WritesOwn
<1>3. ASSUME NEW p \in Procs, Closed(p) PROVE TypeInv'
  BY <1>3, VanishTypes DEF Closed
<1>4. ASSUME NEW p \in Procs, Kill(p) PROVE TypeInv'
  BY <1>4, VanishTypes DEF Kill
<1>5. ASSUME NEW p \in Procs, NEW k \in Keys, ReadNull(p, k) PROVE TypeInv'
  BY <1>5, VanishTypes DEF ReadNull
<1>6. ASSUME NEW p \in Procs, NEW k \in Keys,
             Reset(p, k) \/ \E v \in Values : SetValue(p, k, v)
      PROVE  TypeInv'
  <2>1. PICK f \in Own(p), e \in Entry : Put(p, f, k, e)
    BY <1>6, SetIsPut DEF Reset, SetValue
  <2>2. f \in Files /\ e.value \in MaybeValue
    BY OwnFiles DEF Entry
  <2>3. cache' \in [Procs -> [Files -> [Keys -> Entry]]]
    BY <1>0, <2>1, <2>2 DEF Put, TypeOK
  <2>4. changed' \in [Procs -> SUBSET Files] /\ \A q \in Procs : changed'[q] \subseteq Own(q)
    BY <1>0, <2>1, <2>2 DEF Put, TypeOK
  <2>5. promise' \in [Files -> [Keys -> MaybeValue]]
    BY <1>0, <2>1, <2>2 DEF Put, TypeOK
  <2>. QED
    BY <1>0, <2>1, <2>3, <2>4, <2>5 DEF Put, TypeInv, TypeOK, WritesOwn
<1>7. ASSUME NEW p \in Procs, SaveUnchanged(p) PROVE TypeInv'
  <2>1. Tail(todo[p]) \in Seq(Files) /\ ~writing[p]
    BY <1>0, <1>7 DEF SaveUnchanged, Saving, TypeOK
  <2>. QED
    BY <1>0, <1>7, <2>1 DEF SaveUnchanged, TypeInv, TypeOK, WritesOwn
<1>8. ASSUME NEW p \in Procs, SaveFails(p) PROVE TypeInv'
  <2>1. /\ Tail(todo[p]) \in Seq(Files) /\ ~writing[p]
        /\ Head(todo[p]) \in Files
    BY <1>0, <1>8 DEF SaveFails, Saving, TypeOK
  <2>2. Values0(Head(todo[p])) \in [Keys -> MaybeValue]
    BY <1>0, <2>1 DEF Values0, TypeOK, CacheFile, Entry
  <2>3. promise' \in [Files -> [Keys -> MaybeValue]]
    BY <1>0, <1>8, <2>1, <2>2 DEF SaveFails, TypeOK
  <2>4. changed' \in [Procs -> SUBSET Files] /\ \A q \in Procs : changed'[q] \subseteq Own(q)
    BY <1>0, <1>8 DEF SaveFails, TypeOK
  <2>. QED
    BY <1>0, <1>8, <2>1, <2>3, <2>4 DEF SaveFails, TypeInv, TypeOK, WritesOwn
<1>9. ASSUME NEW p \in Procs, SaveOpen(p) PROVE TypeInv'
  <2>1. /\ Head(todo[p]) \in Own(p) /\ pc[p] = "closing" /\ todo[p] # <<>>
        /\ Head(todo[p]) \in Files
    BY <1>0, <1>9 DEF SaveOpen, Saving, TypeOK
  <2>2. file' \in [Files -> CacheFile]
    BY <1>0, <1>9, <2>1, EntryTypes DEF SaveOpen, TypeOK
  <2>3. changed' \in [Procs -> SUBSET Files] /\ \A q \in Procs : changed'[q] \subseteq Own(q)
    BY <1>0, <1>9 DEF SaveOpen, TypeOK
  <2>4. /\ writing' \in [Procs -> BOOLEAN]
        /\ \A q \in Procs : writing'[q] => pc[q] = "closing" /\ todo[q] # <<>>
                                           /\ Head(todo[q]) \in Own(q)
    BY <1>0, <1>9, <2>1 DEF SaveOpen, TypeOK, WritesOwn
  <2>. QED
    BY <1>0, <1>9, <2>2, <2>3, <2>4 DEF SaveOpen, TypeInv, TypeOK, WritesOwn
<1>10. ASSUME NEW p \in Procs, SaveWrite(p) PROVE TypeInv'
  <2>1. /\ Head(todo[p]) \in Files /\ Tail(todo[p]) \in Seq(Files)
    BY <1>0, <1>10 DEF SaveWrite, TypeOK
  <2>2. file' \in [Files -> CacheFile]
    <3>1. [status |-> "ok", content |-> cache[p][Head(todo[p])]] \in CacheFile
      BY <1>0, <2>1 DEF TypeOK, CacheFile
    <3>. QED
      BY <1>0, <1>10, <2>1, <3>1, EntryTypes DEF SaveWrite, TypeOK
  <2>3. todo' \in [Procs -> Seq(Files)] /\ writing' \in [Procs -> BOOLEAN]
    BY <1>0, <1>10, <2>1 DEF SaveWrite, TypeOK
  <2>4. \A q \in Procs : writing'[q] => pc[q] = "closing" /\ todo'[q] # <<>>
                                        /\ Head(todo'[q]) \in Own(q)
    BY <1>0, <1>10 DEF SaveWrite, TypeOK, WritesOwn
  <2>. QED
    BY <1>0, <1>10, <2>2, <2>3, <2>4 DEF SaveWrite, TypeInv, TypeOK, WritesOwn
<1>11. CASE UNCHANGED vars
  BY <1>0, <1>11 DEF vars, TypeInv, TypeOK, WritesOwn
<1>. QED
  BY <1>1, <1>2, <1>3, <1>4, <1>5, <1>6, <1>7, <1>8, <1>9, <1>10, <1>11 DEF Next

LEMMA TypeInit == Init => TypeInv
<1>. SUFFICES ASSUME Init PROVE TypeInv
  OBVIOUS
<1>1. file \in [Files -> CacheFile]
  BY DConfigAssumption DEF Init
<1>2. promise \in [Files -> [Keys -> MaybeValue]]
  BY <1>1 DEF Init, Values0, CacheFile, Entry
<1>3. /\ cache \in [Procs -> [Files -> [Keys -> Entry]]]
      /\ todo \in [Procs -> Seq(Files)]
  BY EntryTypes DEF Init
<1>. QED
  BY <1>1, <1>2, <1>3 DEF Init, TypeInv, TypeOK, WritesOwn

LEMMA TypeInvariant == Spec => []TypeInv
BY TypeInit, TypeStep, PTL DEF Spec

(* Every variable keeps its type, and no process ever marks a cache of     *)
(* another configuration as changed.                                       *)
THEOREM DConfigTypes == Spec => []TypeOK
BY TypeInvariant, PTL DEF TypeInv

-----------------------------------------------------------------------------
(* What is read depends on the caches of the process alone, and of them on *)
(* the entries of the item alone.                                          *)
LEMMA ReadsOf ==
    ASSUME TypeOK, TypeOK', NEW p \in Procs, NEW k \in Keys,
           \A f \in Files : cache'[p][f][k] = cache[p][f][k],
           generic'[p] = generic[p]
    PROVE  Reads(p, k)' = Reads(p, k)
<1>1. \A c \in Configs : Cached(p, c, k)' = Cached(p, c, k)
  BY DConfigAssumption DEF Cached, Files
<1>2. \A c \in Configs : Default(p, c, k)' = Default(p, c, k)
  BY DConfigAssumption DEF Default, Files
<1>. QED
  BY <1>1, <1>2, DConfigAssumption DEF Reads

(* A program that reads again only after valueChanged never works with a   *)
(* stale value: what an open DConfig returns for an item changes in no     *)
(* step but those that emit valueChanged for it.                           *)
THEOREM ChangesAreAnnounced == Spec => ChangeIsAnnounced
<1>. DEFINE A == \A p \in Procs, k \in Keys :
                    pc[p] = "on" /\ pc'[p] = "on" /\ Reads(p, k)' # Reads(p, k)
                        => announced' = <<p, k>>
<1>1. ASSUME TypeInv, TypeInv', [Next]_vars PROVE A
  <2>. SUFFICES ASSUME NEW p \in Procs, NEW k \in Keys, pc[p] = "on", pc'[p] = "on",
                       announced' # <<p, k>>
                PROVE  Reads(p, k)' = Reads(p, k)
    OBVIOUS
  <2>0. TypeOK /\ TypeOK'
    BY <1>1 DEF TypeInv
  <2>. SUFFICES /\ \A f \in Files : cache'[p][f][k] = cache[p][f][k]
                /\ generic'[p] = generic[p]
    BY <2>0, ReadsOf
  <2>1. ASSUME NEW q \in Procs, NEW j \in Keys,
               Reset(q, j) \/ \E v \in Values : SetValue(q, j, v)
        PROVE  /\ \A f \in Files : cache'[p][f][k] = cache[p][f][k]
               /\ generic'[p] = generic[p]
    <3>1. PICK g \in Own(q), e \in Entry : Put(q, g, j, e)
      BY <2>1, SetIsPut DEF Reset, SetValue
    <3>2. g \in Files
      BY OwnFiles
    <3>3. q # p \/ j # k
      BY <3>1 DEF Put
    <3>. QED
      BY <2>0, <3>1, <3>2, <3>3 DEF Put, TypeOK
  <2>2. ASSUME NEW q \in Procs, Open(q) PROVE cache'[p] = cache[p] /\ generic'[p] = generic[p]
    BY <2>0, <2>2 DEF Open, TypeOK
  <2>3. ASSUME NEW q \in Procs, Closed(q) \/ Kill(q) \/ \E j \in Keys : ReadNull(q, j)
        PROVE  cache'[p] = cache[p] /\ generic'[p] = generic[p]
    <3>1. q # p
      BY <2>0, <2>3 DEF Closed, Kill, ReadNull, TypeOK
    <3>. QED
      BY <2>0, <2>3, <3>1 DEF Closed, Kill, ReadNull, Vanish, TypeOK
  <2>4. ASSUME NEW q \in Procs,
               \/ Close(q) \/ SaveUnchanged(q) \/ SaveFails(q) \/ SaveOpen(q) \/ SaveWrite(q)
        PROVE  cache' = cache /\ generic' = generic
    BY <2>4 DEF Close, SaveUnchanged, SaveFails, SaveOpen, SaveWrite
  <2>5. CASE UNCHANGED vars
    BY <2>5 DEF vars
  <2>. QED
    BY <1>1, <2>1, <2>2, <2>3, <2>4, <2>5 DEF Next
<1>2. TypeInv /\ TypeInv' /\ [Next]_vars => [A]_vars
  BY <1>1
<1>. HIDE DEF A
<1>3. Spec => [][A]_vars
  BY <1>2, TypeInvariant, PTL DEF Spec
<1>. QED
  BY <1>3 DEF A, ChangeIsAnnounced

(* A cache file changes by a process of its own configuration that closes  *)
(* it and by no other: applications read the generic configuration and     *)
(* never write it.                                                         *)
THEOREM OwnersWrite == Spec => OnlyOwnersWrite
<1>. DEFINE A == \A f \in Files : file'[f] # file[f] =>
                    \E p \in Procs : f \in Own(p) /\ pc[p] = "closing"
<1>1. ASSUME TypeInv, [Next]_vars PROVE A
  <2>1. ASSUME NEW p \in Procs, SaveOpen(p) \/ SaveWrite(p) PROVE A
    <3>1. pc[p] = "closing" /\ Head(todo[p]) \in Own(p)
      BY <1>1, <2>1 DEF SaveOpen, SaveWrite, Saving, TypeInv, TypeOK, WritesOwn
    <3>2. \A f \in Files : f # Head(todo[p]) => file'[f] = file[f]
      BY <1>1, <2>1 DEF SaveOpen, SaveWrite, TypeInv, TypeOK
    <3>. QED
      BY <3>1, <3>2
  <2>2. CASE file' = file
    BY <2>2
  <2>3. ASSUME NEW p \in Procs, NEW k \in Keys,
               \/ Open(p) \/ Close(p) \/ Closed(p) \/ Kill(p) \/ Reset(p, k) \/ ReadNull(p, k)
               \/ SaveUnchanged(p) \/ SaveFails(p) \/ \E v \in Values : SetValue(p, k, v)
        PROVE  file' = file
    BY <2>3 DEF Open, Close, Closed, Kill, Reset, ReadNull, SetValue, SaveUnchanged, SaveFails
  <2>4. ASSUME NEW p \in Procs,
               \/ Open(p) \/ Close(p) \/ Closed(p) \/ Kill(p)
               \/ SaveUnchanged(p) \/ SaveFails(p)
        PROVE  file' = file
    BY <2>4 DEF Open, Close, Closed, Kill, SaveUnchanged, SaveFails
  <2>5. CASE UNCHANGED vars
    BY <2>5 DEF vars
  <2>. HIDE DEF A
  <2>. QED
    BY <1>1, <2>1, <2>2, <2>3, <2>4, <2>5 DEF Next
<1>2. TypeInv /\ [Next]_vars => [A]_vars
  BY <1>1
<1>. HIDE DEF A
<1>3. Spec => [][A]_vars
  BY <1>2, TypeInvariant, PTL DEF Spec
<1>. QED
  BY <1>3 DEF A, OnlyOwnersWrite
-----------------------------------------------------------------------------
(* What is kept.  Two processes of one configuration write over each other *)
(* (each saves the whole cache it loaded), and a global cache file of a    *)
(* newer version keeps the user's from being loaded, but not from being    *)
(* saved: neither is part of what LastSettingKept promises.                *)
OneProcessEach == \A p, q \in Procs : ConfigOf[p] = ConfigOf[q] => p = q
GlobalsAreRead ==
    \A files \in InitialFiles, f \in Files :
        files[f].status = "foreign" => f[2] # GlobalCache /\ files[f].content = EmptyCache

InQueue(f, s) == \E i \in DOMAIN s : s[i] = f

(* f in the cache of p has what the file is to have.                       *)
Dirty(p, f) == f \in changed[p] \/ (writing[p] /\ f = Head(todo[p]))

AtRest    == \A p \in Procs : pc[p] \in {"off", "crashed"} => changed[p] = {}
WritesNow ==
    \A p \in Procs : writing[p] => /\ Head(todo[p]) \notin changed[p]
                                   /\ file[Head(todo[p])].status = "torn"
StillToDo ==
    \A p \in Procs : pc[p] = "closing" =>
        \A f \in changed[p] : InQueue(f, IF writing[p] THEN Tail(todo[p]) ELSE todo[p])
Promised  ==
    \A p \in Procs, f \in Files :
        Dirty(p, f) => \A k \in Keys : cache[p][f][k].value = promise[f][k]
Settled   ==
    \A f \in Files : (\A p \in Procs : ~Dirty(p, f)) => Values0(f) = promise[f]
AsLoaded  ==
    \A p \in Procs : pc[p] = "on" /\ Installed(ConfigOf[p]) =>
        \A f \in Own(p) \ changed[p] : cache[p][f] = file[f].content
Readable  ==
    \A f \in Files : file[f].status = "foreign" => f[2] # GlobalCache
                                                   /\ file[f].content = EmptyCache

KeptInv ==
    /\ TypeInv
    /\ AtRest /\ WritesNow /\ StillToDo /\ Promised /\ Settled /\ AsLoaded /\ Readable

LEMMA QueueTail ==
    ASSUME NEW T, NEW s \in Seq(T), s # <<>>, NEW f, InQueue(f, s), f # Head(s)
    PROVE  InQueue(f, Tail(s))
<1>1. /\ Len(s) \in Nat \ {0} /\ DOMAIN s = 1..Len(s)
      /\ DOMAIN Tail(s) = 1..(Len(s) - 1)
      /\ \A i \in 1..(Len(s) - 1) : Tail(s)[i] = s[i + 1]
      /\ s[1] = Head(s)
  BY HeadTailProperties, EmptySeq
<1>2. PICK i \in 1..Len(s) : s[i] = f
  BY <1>1 DEF InQueue
<1>3. i - 1 \in 1..(Len(s) - 1) /\ (i - 1) + 1 = i
  BY <1>1, <1>2
<1>4. i - 1 \in DOMAIN Tail(s) /\ Tail(s)[i - 1] = f
  BY <1>1, <1>2, <1>3
<1>. QED
  BY <1>4 DEF InQueue

(* No file is dirty for two.                                               *)
LEMMA OneWriter ==
    ASSUME OneProcessEach, TypeInv, NEW p \in Procs, NEW q \in Procs, NEW f \in Files
    PROVE  /\ f \in Own(p) /\ f \in Own(q) => p = q
           /\ Dirty(p, f) => f \in Own(p)
<1>1. ASSUME f \in Own(p), f \in Own(q) PROVE p = q
  <2>1. f[1] = ConfigOf[p]
    BY <1>1 DEF Own, UserFile, GlobalFile
  <2>2. f[1] = ConfigOf[q]
    BY <1>1 DEF Own, UserFile, GlobalFile
  <2>. QED
    BY <2>1, <2>2 DEF OneProcessEach
<1>2. changed[p] \subseteq Own(p)
  BY DEF TypeInv, TypeOK
<1>3. writing[p] => Head(todo[p]) \in Own(p)
  BY DEF TypeInv, TypeOK, WritesOwn
<1>. QED
  BY <1>1, <1>2, <1>3 DEF Dirty

(* What ends without saving loses what it has set and no more.             *)
LEMMA KeptWhenEnded ==
    ASSUME OneProcessEach, KeptInv, NEW p \in Procs, Vanish(p), file' = file, TypeInv',
           NEW where \in {"off", "crashed"}, pc' = [pc EXCEPT ![p] = where],
           \/ Lose(p)
           \/ promise' = promise /\ \A f \in Files : ~Dirty(p, f)
    PROVE  KeptInv'
<1>0. /\ TypeInv /\ TypeOK /\ WritesOwn
      /\ AtRest /\ WritesNow /\ StillToDo /\ Promised /\ Settled /\ AsLoaded /\ Readable
  BY DEF KeptInv, TypeInv
<1>1. /\ \A q \in Procs : q # p => /\ cache'[q] = cache[q] /\ changed'[q] = changed[q]
                                   /\ todo'[q] = todo[q] /\ writing'[q] = writing[q]
                                   /\ pc'[q] = pc[q]
      /\ changed'[p] = {} /\ ~writing'[p] /\ pc'[p] \in {"off", "crashed"}
  BY <1>0 DEF Vanish, TypeOK
<1>2. \A q \in Procs, f \in Files : Dirty(q, f)' <=> q # p /\ Dirty(q, f)
  BY <1>1 DEF Dirty
<1>3. \A f \in Files : promise'[f] = IF Dirty(p, f) THEN Values0(f) ELSE promise[f]
  BY DEF Lose, Dirty
<1>4. AtRest' /\ WritesNow' /\ StillToDo' /\ Readable'
  BY <1>0, <1>1 DEF AtRest, WritesNow, StillToDo, Readable
<1>5. AsLoaded'
  BY <1>0, <1>1 DEF AsLoaded
<1>6. Promised'
  <2>1. ASSUME NEW q \in Procs, NEW f \in Files, q # p, Dirty(q, f)
        PROVE  promise'[f] = promise[f]
    BY <1>0, <1>3, <2>1, OneWriter
  <2>. QED
    BY <1>0, <1>1, <1>2, <2>1 DEF Promised
<1>7. Settled'
  <2>1. \A f \in Files : Values0(f)' = Values0(f)
    BY DEF Values0
  <2>. QED
    BY <1>0, <1>2, <1>3, <2>1 DEF Settled
<1>. QED
  BY <1>4, <1>5, <1>6, <1>7 DEF KeptInv

LEMMA KeptWhenPut ==
    ASSUME OneProcessEach, KeptInv, TypeInv', NEW p \in Procs, Valid(p),
           NEW f \in Own(p), NEW k \in Keys, NEW e \in Entry, Put(p, f, k, e)
    PROVE  KeptInv'
<1>0. /\ TypeInv /\ TypeOK /\ WritesOwn
      /\ AtRest /\ WritesNow /\ StillToDo /\ Promised /\ Settled /\ AsLoaded /\ Readable
  BY DEF KeptInv, TypeInv
<1>1. /\ pc[p] = "on" /\ Installed(ConfigOf[p]) /\ ~writing[p] /\ f \in Files
  BY <1>0, OwnFiles DEF Valid, TypeOK
<1>2. /\ \A q \in Procs : q # p => cache'[q] = cache[q] /\ changed'[q] = changed[q]
      /\ changed'[p] = changed[p] \cup {f}
      /\ \A g \in Files : g # f => cache'[p][g] = cache[p][g] /\ promise'[g] = promise[g]
      /\ \A j \in Keys : /\ cache'[p][f][j] = IF j = k THEN e ELSE cache[p][f][j]
                         /\ promise'[f][j] = IF j = k THEN e.value ELSE promise[f][j]
      /\ UNCHANGED <<file, pc, todo, writing>>
  BY <1>0, <1>1 DEF Put, TypeOK
<1>3. \A q \in Procs, g \in Files : Dirty(q, g)' <=> Dirty(q, g) \/ (q = p /\ g = f)
  BY <1>1, <1>2 DEF Dirty
<1>4. \A q \in Procs : q # p => ~Dirty(q, f)
  BY <1>0, <1>1, OneWriter
<1>5. \A j \in Keys : cache[p][f][j].value = promise[f][j]
  <2>1. CASE Dirty(p, f)
    BY <1>0, <1>1, <2>1 DEF Promised
  <2>2. CASE ~Dirty(p, f)
    <3>1. Values0(f) = promise[f]
      BY <1>0, <1>1, <1>4, <2>2 DEF Settled
    <3>2. cache[p][f] = file[f].content
      BY <1>0, <1>1, <2>2 DEF AsLoaded, Dirty
    <3>3. \A j \in Keys : promise[f][j] = file[f].content[j].value
      BY <3>1 DEF Values0
    <3>. QED
      BY <3>2, <3>3
  <2>. QED
    BY <2>1, <2>2
<1>6. Promised'
  <2>1. \A j \in Keys : cache'[p][f][j].value = promise'[f][j]
    BY <1>2, <1>5
  <2>2. \A q \in Procs, g \in Files : Dirty(q, g)' /\ ~(q = p /\ g = f)
            => g # f /\ Dirty(q, g)
    BY <1>3, <1>4
  <2>3. \A q \in Procs, g \in Files : g # f /\ Dirty(q, g) =>
            \A j \in Keys : cache'[q][g][j].value = promise'[g][j]
    BY <1>0, <1>2 DEF Promised
  <2>. QED
    BY <2>1, <2>2, <2>3 DEF Promised
<1>7. Settled'
  <2>1. \A g \in Files : Values0(g)' = Values0(g)
    BY <1>2 DEF Values0
  <2>. QED
    BY <1>0, <1>2, <1>3, <2>1 DEF Settled
<1>8. AsLoaded'
  <2>1. ASSUME NEW q \in Procs, pc[q] = "on", Installed(ConfigOf[q]),
               NEW g \in Own(q) \ changed'[q]
        PROVE  cache'[q][g] = file[g].content
    <3>1. g \in Own(q) \ changed[q] /\ g \in Files /\ (q = p => g # f)
      BY <1>2, <2>1, OwnFiles
    <3>2. cache[q][g] = file[g].content
      BY <1>0, <2>1, <3>1 DEF AsLoaded
    <3>. QED
      BY <1>2, <3>1, <3>2
  <2>. QED
    BY <1>2, <2>1 DEF AsLoaded, Installed
<1>9. AtRest' /\ WritesNow' /\ StillToDo' /\ Readable'
  BY <1>0, <1>1, <1>2 DEF AtRest, WritesNow, StillToDo, Readable
<1>. QED
  BY <1>6, <1>7, <1>8, <1>9 DEF KeptInv
(* A step of p that leaves its caches, and what is promised, alone.        *)
LEMMA KeptWhenSaved ==
    ASSUME OneProcessEach, KeptInv, NEW p \in Procs, TypeInv', UNCHANGED <<cache, promise>>,
           \A q \in Procs : q # p => /\ pc'[q] = pc[q] /\ changed'[q] = changed[q]
                                     /\ todo'[q] = todo[q] /\ writing'[q] = writing[q],
           pc'[p] = "closing",
           NEW f \in Own(p), \A g \in Files : g # f => file'[g] = file[g],
           \A g \in Files : g # f => (Dirty(p, g)' <=> Dirty(p, g)),
           Dirty(p, f)' => Dirty(p, f),
           Dirty(p, f)' \/ Values0(f)' = promise[f],
           file'[f].status = "foreign" => file'[f] = file[f],
           \A g \in changed'[p] : InQueue(g, IF writing'[p] THEN Tail(todo'[p]) ELSE todo'[p]),
           writing'[p] => /\ Head(todo'[p]) \notin changed'[p]
                          /\ file'[Head(todo'[p])].status = "torn"
    PROVE  KeptInv'
<1>0. /\ TypeInv /\ TypeOK /\ WritesOwn
      /\ AtRest /\ WritesNow /\ StillToDo /\ Promised /\ Settled /\ AsLoaded /\ Readable
  BY DEF KeptInv, TypeInv
<1>1. f \in Files
  BY OwnFiles
<1>2. /\ \A q \in Procs, g \in Files : q # p => (Dirty(q, g)' <=> Dirty(q, g))
      /\ \A q \in Procs, g \in Files : Dirty(q, g)' => Dirty(q, g)
  BY DEF Dirty
<1>3. \A q \in Procs : q # p => f \notin Own(q)
  BY <1>0, <1>1, OneWriter
<1>4. AtRest'
  BY <1>0 DEF AtRest
<1>5. WritesNow'
  <2>1. ASSUME NEW q \in Procs, q # p, writing'[q]
        PROVE  /\ Head(todo'[q]) \notin changed'[q]
               /\ file'[Head(todo'[q])].status = "torn"
    <3>1. Head(todo[q]) \in Own(q) /\ Head(todo[q]) \in Files /\ Head(todo[q]) # f
      BY <1>0, <1>3, <2>1, OwnFiles DEF WritesOwn
    <3>. QED
      BY <1>0, <2>1, <3>1 DEF WritesNow
  <2>. QED
    BY <2>1 DEF WritesNow
<1>6. StillToDo'
  BY <1>0 DEF StillToDo
<1>7. Promised'
  BY <1>0, <1>2 DEF Promised
<1>8. Settled'
  <2>1. \A g \in Files : g # f => Values0(g)' = Values0(g)
    BY DEF Values0
  <2>2. ASSUME NEW g \in Files, \A q \in Procs : ~Dirty(q, g)' PROVE Values0(g)' = promise[g]
    <3>1. CASE g = f
      BY <2>2, <3>1
    <3>2. CASE g # f
      BY <1>0, <1>2, <2>1, <2>2, <3>2 DEF Settled
    <3>. QED
      BY <3>1, <3>2
  <2>. QED
    BY <2>2 DEF Settled
<1>9. AsLoaded'
  <2>1. ASSUME NEW q \in Procs, pc'[q] = "on", Installed(ConfigOf[q]),
               NEW g \in Own(q) \ changed'[q]
        PROVE  cache'[q][g] = file'[g].content
    <3>1. q # p /\ pc[q] = "on" /\ g \in Own(q) \ changed[q]
      BY <2>1
    <3>2. g \in Files /\ g # f
      BY <1>3, <3>1, OwnFiles
    <3>. QED
      BY <1>0, <2>1, <3>1, <3>2 DEF AsLoaded
  <2>. QED
    BY <2>1 DEF AsLoaded, Installed
<1>10. Readable'
  BY <1>0, <1>1 DEF Readable
<1>. QED
  BY <1>4, <1>5, <1>6, <1>7, <1>8, <1>9, <1>10 DEF KeptInv

LEMMA KeptStep == OneProcessEach /\ KeptInv /\ [Next]_vars => KeptInv'
<1>. SUFFICES ASSUME OneProcessEach, KeptInv, [Next]_vars PROVE KeptInv'
  OBVIOUS
<1>0. /\ TypeInv /\ TypeOK /\ WritesOwn
      /\ AtRest /\ WritesNow /\ StillToDo /\ Promised /\ Settled /\ AsLoaded /\ Readable
  BY DEF KeptInv, TypeInv
<1>a. TypeInv' /\ TypeOK'
  BY <1>0, TypeStep DEF TypeInv
<1>b. \A p \in Procs : todo[p] \in Seq(Files) /\ changed[p] \subseteq Own(p)
  BY <1>0 DEF TypeOK
<1>1. ASSUME NEW p \in Procs, Open(p) PROVE KeptInv'
  <2>1. /\ pc[p] \in {"off", "crashed"} /\ changed[p] = {} /\ ~writing[p]
        /\ pc'[p] = "on"
        /\ \A q \in Procs : q # p => pc'[q] = pc[q] /\ cache'[q] = cache[q]
        /\ \A f \in Files : cache'[p][f] = IF f \in Loaded(p) THEN file[f].content
                                           ELSE EmptyCache
        /\ UNCHANGED <<file, changed, todo, writing, promise>>
    BY <1>0, <1>1 DEF Open, TypeOK, AtRest
  <2>2. \A q \in Procs, f \in Files : (Dirty(q, f)' <=> Dirty(q, f)) /\ ~Dirty(p, f)
    BY <2>1 DEF Dirty
  <2>3. Promised' /\ Settled'
    <3>1. \A f \in Files : Values0(f)' = Values0(f)
      BY <2>1 DEF Values0
    <3>. QED
      BY <1>0, <2>1, <2>2, <3>1 DEF Promised, Settled
  <2>4. Installed(ConfigOf[p]) => \A f \in Own(p) : cache'[p][f] = file[f].content
    <3>. SUFFICES ASSUME Installed(ConfigOf[p]), NEW f \in Own(p)
                  PROVE  cache'[p][f] = file[f].content
      OBVIOUS
    <3>1. f \in Files /\ GlobalFile(p) \in Files
      BY OwnFiles
    <3>2. Sound(GlobalFile(p))
      BY <1>0, <3>1 DEF Sound, Readable, GlobalFile
    <3>3. CASE Sound(f)
      BY <2>1, <3>1, <3>2, <3>3 DEF Loaded
    <3>4. CASE ~Sound(f)
      <4>1. file[f].content = EmptyCache
        BY <1>0, <3>1, <3>4 DEF Sound, Readable
      <4>. QED
        BY <2>1, <3>1, <4>1
    <3>. QED
      BY <3>3, <3>4
  <2>5. AsLoaded'
    BY <1>0, <2>1, <2>4 DEF AsLoaded, Installed
  <2>6. AtRest' /\ WritesNow' /\ StillToDo' /\ Readable'
    BY <1>0, <2>1 DEF AtRest, WritesNow, StillToDo, Readable
  <2>. QED
    BY <1>a, <2>3, <2>5, <2>6 DEF KeptInv
<1>2. ASSUME NEW p \in Procs, Close(p) PROVE KeptInv'
  <2>1. /\ pc[p] = "on" /\ pc'[p] = "closing" /\ ~writing[p]
        /\ \A q \in Procs : q # p => pc'[q] = pc[q] /\ todo'[q] = todo[q]
        /\ todo'[p] = <<UserFile(p), GlobalFile(p)>> \o
                   (IF generic[p] THEN <<<<Generic, UserOf[p]>>, <<Generic, GlobalCache>>>>
                    ELSE <<>>)
        /\ UNCHANGED <<file, cache, changed, writing, promise>>
    BY <1>0, <1>2 DEF Close, TypeOK
  <2>2. InQueue(UserFile(p), todo'[p]) /\ InQueue(GlobalFile(p), todo'[p])
    <3>1. /\ 1 \in DOMAIN todo'[p] /\ todo'[p][1] = UserFile(p)
          /\ 2 \in DOMAIN todo'[p] /\ todo'[p][2] = GlobalFile(p)
      BY <2>1
    <3>. QED
      BY <3>1 DEF InQueue
  <2>3. \A f \in changed'[p] : InQueue(f, todo'[p])
    BY <1>b, <2>1, <2>2 DEF Own
  <2>4. \A q \in Procs, f \in Files : Dirty(q, f)' <=> Dirty(q, f)
    BY <2>1 DEF Dirty
  <2>5. Promised' /\ Settled'
    <3>1. \A f \in Files : Values0(f)' = Values0(f)
      BY <2>1 DEF Values0
    <3>. QED
      BY <1>0, <2>1, <2>4, <3>1 DEF Promised, Settled
  <2>6. AsLoaded' /\ AtRest' /\ WritesNow' /\ StillToDo' /\ Readable'
    BY <1>0, <2>1, <2>3 DEF AsLoaded, AtRest, WritesNow, StillToDo, Readable, Installed
  <2>. QED
    BY <1>a, <2>5, <2>6 DEF KeptInv
<1>3. ASSUME NEW p \in Procs, Closed(p) PROVE KeptInv'
  <2>1. pc[p] = "closing" /\ ~writing[p] /\ todo[p] = <<>>
    BY <1>0, <1>3 DEF Closed, TypeOK
  <2>2. changed[p] = {}
    <3>1. \A f : ~InQueue(f, <<>>)
      BY DEF InQueue
    <3>. QED
      BY <1>0, <2>1, <3>1 DEF StillToDo
  <2>3. \A f \in Files : ~Dirty(p, f)
    BY <2>1, <2>2 DEF Dirty
  <2>. QED
    BY <1>a, <1>3, <2>3, KeptWhenEnded DEF Closed
<1>4. ASSUME NEW p \in Procs, Kill(p) PROVE KeptInv'
  BY <1>a, <1>4, KeptWhenEnded DEF Kill
<1>5. ASSUME NEW p \in Procs, NEW k \in Keys, ReadNull(p, k) PROVE KeptInv'
  BY <1>a, <1>5, KeptWhenEnded DEF ReadNull
<1>6. ASSUME NEW p \in Procs, NEW k \in Keys,
             Reset(p, k) \/ \E v \in Values : SetValue(p, k, v)
      PROVE  KeptInv'
  <2>1. Valid(p)
    BY <1>6 DEF Reset, SetValue
  <2>2. PICK f \in Own(p), e \in Entry : Put(p, f, k, e)
    BY <1>6, <2>1, SetIsPut
  <2>. QED
    BY <1>a, <2>1, <2>2, KeptWhenPut
<1>7. ASSUME NEW p \in Procs, SaveUnchanged(p) PROVE KeptInv'
  <2>1. /\ pc[p] = "closing" /\ ~writing[p] /\ todo[p] # <<>>
        /\ Head(todo[p]) \notin changed[p] /\ todo'[p] = Tail(todo[p])
        /\ \A q \in Procs : q # p => todo'[q] = todo[q]
        /\ UNCHANGED <<file, pc, cache, changed, writing, promise>>
    BY <1>0, <1>7 DEF SaveUnchanged, Saving, TypeOK
  <2>2. \A f \in changed[p] : InQueue(f, todo'[p])
    BY <1>0, <1>b, <2>1, QueueTail DEF StillToDo
  <2>3. \A q \in Procs, f \in Files : Dirty(q, f)' <=> Dirty(q, f)
    BY <2>1 DEF Dirty
  <2>4. Promised' /\ Settled'
    <3>1. \A f \in Files : Values0(f)' = Values0(f)
      BY <2>1 DEF Values0
    <3>. QED
      BY <1>0, <2>1, <2>3, <3>1 DEF Promised, Settled
  <2>5. AsLoaded' /\ AtRest' /\ WritesNow' /\ StillToDo' /\ Readable'
    BY <1>0, <2>1, <2>2 DEF AsLoaded, AtRest, WritesNow, StillToDo, Readable, Installed
  <2>. QED
    BY <1>a, <2>4, <2>5 DEF KeptInv
<1>8. ASSUME NEW p \in Procs, SaveFails(p) PROVE KeptInv'
  <2>0. PICK f \in Own(p) : f = Head(todo[p])
    BY <1>0, <1>b, <1>8 DEF SaveFails
  <2>1. /\ pc[p] = "closing" /\ ~writing[p] /\ todo[p] # <<>>
        /\ f \in changed[p] /\ f \in Own(p) /\ f \in Files
        /\ todo'[p] = Tail(todo[p]) /\ changed'[p] = changed[p] \ {f}
        /\ \A q \in Procs : q # p => todo'[q] = todo[q] /\ changed'[q] = changed[q]
        /\ \A g \in Files : promise'[g] = IF g = f THEN Values0(f) ELSE promise[g]
        /\ UNCHANGED <<file, pc, cache, writing>>
    BY <1>0, <1>8, <2>0, OwnFiles DEF SaveFails, Saving, TypeOK
  <2>2. \A g \in changed'[p] : InQueue(g, todo'[p])
    BY <1>0, <1>b, <2>0, <2>1, QueueTail DEF StillToDo
  <2>3. ASSUME NEW q \in Procs, NEW g \in Files
        PROVE  (q # p => (Dirty(q, g)' <=> Dirty(q, g)))
    BY <2>0, <2>1 DEF Dirty
  <2>4. ASSUME NEW g \in Files PROVE Dirty(p, g)' <=> g # f /\ Dirty(p, g)
    BY <2>0, <2>1 DEF Dirty
  <2>5. \A q \in Procs : ~Dirty(q, f)'
    <3>1. \A q \in Procs : q # p => ~Dirty(q, f)
      BY <1>0, <2>1, OneWriter
    <3>. QED
      BY <2>1, <2>3, <2>4, <3>1
  <2>6. \A q \in Procs, g \in Files : g # f => (Dirty(q, g)' <=> Dirty(q, g))
    BY <2>3, <2>4
  <2>7. Promised'
    <3>1. \A q \in Procs, g \in Files :
             Dirty(q, g)' => Dirty(q, g) /\ promise'[g] = promise[g]
      BY <2>1, <2>5, <2>6
    <3>. QED
      BY <1>0, <2>1, <3>1 DEF Promised
  <2>8. Settled'
    <3>1. \A g \in Files : Values0(g)' = Values0(g)
      BY <2>1 DEF Values0
    <3>2. ASSUME NEW g \in Files, \A q \in Procs : ~Dirty(q, g)'
          PROVE  Values0(g)' = promise'[g]
      <4>1. CASE g = f
        BY <2>1, <3>1, <4>1
      <4>2. CASE g # f
        BY <1>0, <2>1, <2>6, <3>1, <3>2, <4>2 DEF Settled
      <4>. QED
        BY <4>1, <4>2
    <3>. QED
      BY <3>2 DEF Settled
  <2>9. AsLoaded'
    <3>1. \A q \in Procs : pc[q] = "on" => q # p
      BY <2>1
    <3>. QED
      BY <1>0, <2>1, <3>1 DEF AsLoaded, Installed
  <2>10. AtRest' /\ WritesNow' /\ StillToDo' /\ Readable'
    BY <1>0, <2>1, <2>2 DEF AtRest, WritesNow, StillToDo, Readable
  <2>. QED
    BY <1>a, <2>7, <2>8, <2>9, <2>10 DEF KeptInv
<1>9. ASSUME NEW p \in Procs, SaveOpen(p) PROVE KeptInv'
  <2>. DEFINE f == Head(todo[p])
  <2>1. /\ pc[p] = "closing" /\ ~writing[p] /\ todo[p] # <<>>
        /\ f \in changed[p] /\ f \in Own(p) /\ f \in Files
        /\ writing'[p] /\ changed'[p] = changed[p] \ {f} /\ todo' = todo /\ pc' = pc
        /\ \A q \in Procs : q # p => writing'[q] = writing[q] /\ changed'[q] = changed[q]
        /\ \A g \in Files : g # f => file'[g] = file[g]
        /\ file'[f].status = "torn"
        /\ UNCHANGED <<cache, promise>>
    BY <1>0, <1>9 DEF SaveOpen, Saving, TypeOK
  <2>2. \A g \in changed'[p] : InQueue(g, Tail(todo[p]))
    BY <1>0, <1>b, <2>1, QueueTail DEF StillToDo
  <2>3. \A g \in Files : Dirty(p, g)' <=> Dirty(p, g)
    BY <2>1 DEF Dirty
  <2>4. Dirty(p, f)'
    BY <2>1 DEF Dirty
  <2>5. writing'[p] => f \notin changed'[p] /\ file'[f].status = "torn"
    BY <2>1
  <2>. QED
    BY <1>a, <2>1, <2>2, <2>3, <2>4, <2>5, KeptWhenSaved
<1>10. ASSUME NEW p \in Procs, SaveWrite(p) PROVE KeptInv'
  <2>0. PICK f \in Own(p) : f = Head(todo[p])
    BY <1>0, <1>10 DEF SaveWrite, WritesOwn
  <2>1. /\ pc[p] = "closing" /\ writing[p] /\ todo[p] # <<>>
        /\ f \in Own(p) /\ f \in Files /\ f \notin changed[p]
        /\ ~writing'[p] /\ todo'[p] = Tail(todo[p]) /\ changed' = changed /\ pc' = pc
        /\ \A q \in Procs : q # p => writing'[q] = writing[q] /\ todo'[q] = todo[q]
        /\ UNCHANGED <<cache, promise>>
    BY <1>0, <1>10, <2>0, OwnFiles DEF SaveWrite, TypeOK, WritesOwn, WritesNow
  <2>2. /\ \A g \in Files : g # f => file'[g] = file[g]
        /\ file'[f] = [status |-> "ok", content |-> cache[p][f]]
    <3>1. file[f].status = "torn"
      BY <1>0, <2>0, <2>1 DEF WritesNow
    <3>. QED
      BY <1>0, <1>10, <2>0, <2>1, <3>1 DEF SaveWrite, TypeOK
  <2>3. Values0(f)' = promise[f]
    <3>1. Dirty(p, f)
      BY <2>0, <2>1 DEF Dirty
    <3>2. \A k \in Keys : cache[p][f][k].value = promise[f][k]
      BY <1>0, <2>1, <3>1 DEF Promised
    <3>3. promise[f] \in [Keys -> MaybeValue]
      BY <1>0, <2>1 DEF TypeOK
    <3>4. file'[f].content = cache[p][f]
      BY <2>2
    <3>5. promise[f] = [k \in Keys |-> promise[f][k]]
      BY <3>3
    <3>6. Values0(f)' = [k \in Keys |-> file'[f].content[k].value]
      BY DEF Values0
    <3>. QED
      BY <3>2, <3>4, <3>5, <3>6
  <2>4. /\ \A g \in Files : g # f => (Dirty(p, g)' <=> Dirty(p, g))
        /\ ~Dirty(p, f)'
    <3>1. ASSUME NEW g \in Files PROVE Dirty(p, g)' <=> g \in changed[p]
      BY <2>0, <2>1 DEF Dirty
    <3>2. ASSUME NEW g \in Files PROVE Dirty(p, g) <=> g \in changed[p] \/ g = f
      BY <2>0, <2>1 DEF Dirty
    <3>. QED
      BY <2>1, <3>1, <3>2
  <2>5. \A g \in changed'[p] : InQueue(g, todo'[p])
    BY <1>0, <2>1 DEF StillToDo
  <2>6. file'[f].status # "foreign"
    BY <2>2
  <2>7. Dirty(p, f)' => Dirty(p, f)
    BY <2>4
  <2>8. \A g \in changed'[p] : InQueue(g, IF writing'[p] THEN Tail(todo'[p]) ELSE todo'[p])
    BY <2>1, <2>5
  <2>9. \A q \in Procs : q # p => /\ pc'[q] = pc[q] /\ changed'[q] = changed[q]
                                  /\ todo'[q] = todo[q] /\ writing'[q] = writing[q]
    BY <2>1
  <2>10. UNCHANGED <<cache, promise>> /\ pc'[p] = "closing"
    BY <2>1
  <2>11. ~writing'[p] /\ f \in Own(p)
    BY <2>1
  <2>. QED
    BY <1>a, <2>2, <2>3, <2>4, <2>6, <2>7, <2>8, <2>9, <2>10, <2>11, KeptWhenSaved
<1>11. CASE UNCHANGED vars
  <2>1. UNCHANGED <<file, pc, cache, changed, generic, todo, writing, promise>>
    BY <1>11 DEF vars
  <2>2. \A q \in Procs, f \in Files : Dirty(q, f)' <=> Dirty(q, f)
    BY <2>1 DEF Dirty
  <2>3. \A f \in Files : Values0(f)' = Values0(f)
    BY <2>1 DEF Values0
  <2>4. Promised' /\ Settled'
    BY <1>0, <2>1, <2>2, <2>3 DEF Promised, Settled
  <2>5. AsLoaded' /\ AtRest' /\ WritesNow' /\ StillToDo' /\ Readable'
    BY <1>0, <2>1 DEF AsLoaded, AtRest, WritesNow, StillToDo, Readable, Installed
  <2>. QED
    BY <1>a, <2>4, <2>5 DEF KeptInv
<1>. QED
  BY <1>1, <1>2, <1>3, <1>4, <1>5, <1>6, <1>7, <1>8, <1>9, <1>10, <1>11 DEF Next

LEMMA KeptInit == GlobalsAreRead /\ Init => KeptInv
<1>. SUFFICES ASSUME GlobalsAreRead, Init PROVE KeptInv
  OBVIOUS
<1>1. TypeInv
  BY TypeInit
<1>2. /\ pc = [p \in Procs |-> "off"] /\ changed = [p \in Procs |-> {}]
      /\ writing = [p \in Procs |-> FALSE]
      /\ promise = [f \in Files |-> Values0(f)] /\ file \in InitialFiles
  BY DEF Init
<1>3. \A p \in Procs, f \in Files : ~Dirty(p, f)
  BY <1>2 DEF Dirty
<1>4. Readable
  BY <1>2 DEF Readable, GlobalsAreRead
<1>. QED
  BY <1>1, <1>2, <1>3, <1>4
     DEF KeptInv, AtRest, WritesNow, StillToDo, Promised, Settled, AsLoaded

(* When nobody has a configuration open, its files hold the last value set *)
(* for every item, whatever was killed and whatever could not be written,  *)
(* as long as each configuration is one process's and no global cache      *)
(* file is of a newer version.                                             *)
THEOREM SettingsAreKept ==
    ASSUME OneProcessEach, GlobalsAreRead
    PROVE  Spec => []LastSettingKept
<1>1. Init => KeptInv
  BY KeptInit
<1>2. KeptInv /\ [Next]_vars => KeptInv'
  BY KeptStep
<1>3. KeptInv => LastSettingKept
  <2>. SUFFICES ASSUME KeptInv, NEW f \in Files,
                       \A p \in Procs : ConfigOf[p] = f[1] => pc[p] \in {"off", "crashed"}
                PROVE  Values0(f) = promise[f]
    BY DEF LastSettingKept
  <2>1. TypeInv /\ AtRest /\ Settled
    BY DEF KeptInv
  <2>2. ASSUME NEW p \in Procs PROVE ~Dirty(p, f)
    <3>1. CASE ConfigOf[p] = f[1]
      BY <2>1, <3>1 DEF AtRest, Dirty, TypeInv, TypeOK
    <3>2. CASE ConfigOf[p] # f[1]
      <4>1. f \notin Own(p)
        BY <3>2 DEF Own, UserFile, GlobalFile
      <4>2. changed[p] \subseteq Own(p)
        BY <2>1 DEF TypeInv, TypeOK
      <4>3. writing[p] => Head(todo[p]) \in Own(p)
        BY <2>1 DEF TypeInv, TypeOK, WritesOwn
      <4>. QED
        BY <4>1, <4>2, <4>3 DEF Dirty
    <3>. QED
      BY <3>1, <3>2
  <2>. QED
    BY <2>1, <2>2 DEF Settled
<1>. QED
  BY <1>1, <1>2, <1>3, PTL DEF Spec
=============================================================================
