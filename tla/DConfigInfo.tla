---------------------------- MODULE DConfigInfo ----------------------------
(***************************************************************************)
(* The data of a DSG configuration file and the pure functions on it       *)
(* (src/dconfigfile.cpp: DConfigInfo, DConfigCacheImpl, DConfigFilePrivate)*)
(* shared by DConfigFile, DConfig and their proofs.                        *)
(*                                                                         *)
(* QHash::operator[] on a missing key yields an empty QVariantHash, whose  *)
(* "value" is an invalid QVariant and whose "serial" reads as -1.  A hash  *)
(* is therefore a total function on Keys that maps a missing key to        *)
(* NoEntry (in a cache) or NoItem (in a meta).                             *)
(***************************************************************************)
EXTENDS Integers

CONSTANTS
    Keys,        \* names of configuration items
    Values,      \* valid QVariants a program may store
    NoValue,     \* the invalid QVariant
    Serials,     \* the serial numbers that occur, NoSerial included
    Types,       \* QMetaTypes of the values
    TypeOf,      \* [Values -> Types]
    Converted,   \* [Values -> [Types -> Values \cup {NoValue}]]: QVariant::convert
    DoubleType   \* the one type setValue stores unconverted

NoSerial == -1

ASSUME DConfigInfoAssumption ==
    /\ NoValue \notin Values
    /\ Serials \subseteq Int
    /\ NoSerial \in Serials
    /\ TypeOf \in [Values -> Types]
    /\ Converted \in [Values -> [Types -> Values \cup {NoValue}]]

MaybeValue == Values \cup {NoValue}

(* One configuration item of a cache and of a meta (overrides applied).    *)
Entry == [value : MaybeValue, serial : Serials]
NoEntry == [value |-> NoValue, serial |-> NoSerial]

Item == [value : MaybeValue, serial : Serials,
         readWrite : BOOLEAN, global : BOOLEAN]
NoItem == [value |-> NoValue, serial |-> NoSerial,
           readWrite |-> FALSE, global |-> FALSE]

EmptyCache == [k \in Keys |-> NoEntry]
EmptyMeta  == [k \in Keys |-> NoItem]

Present(k, hash) == hash[k].value # NoValue

-----------------------------------------------------------------------------
(* Each definition whose name ends in Slip is the definition after it with *)
(* one plausible programming error; the runs show which property finds it. *)

CheckSerialSlip(metaSerial, cacheSerial) ==  \* serial 0 taken for "no serial"
    \/ cacheSerial < 0
    \/ metaSerial > 0 /\ metaSerial = cacheSerial

(* DConfigInfo::checkSerial: may a cached value be used under this meta?   *)
CheckSerial(metaSerial, cacheSerial) ==
    \/ cacheSerial < 0
    \/ metaSerial >= 0 /\ metaSerial = cacheSerial

(* What DConfigFilePrivate::setValue hands to the cache for a valid v when *)
(* the meta's value is m; NoValue when the conversion fails.  A double is  *)
(* checked for convertibility, then stored as it came.                     *)
Coerce(v, m) ==
    IF m = NoValue THEN NoValue
    ELSE IF TypeOf[v] = TypeOf[m] THEN v
    ELSE LET copy == Converted[v][TypeOf[m]] IN
         IF copy # NoValue /\ TypeOf[v] = DoubleType THEN v ELSE copy

NeedsUpdateSlip(entry, v, serial) == entry.value # v  \* forgets the serial

(* DConfigCacheImpl::setValue: FALSE means "no update was needed".  The    *)
(* arguments of CheckSerial stand in the order the code passes them.       *)
NeedsUpdate(entry, v, serial) ==
    ~ (entry.value = v /\ CheckSerial(entry.serial, serial))

NewEntrySlip(v, serial) ==  \* counts the writes in the serial
    [value |-> v, serial |-> serial + 1]

(* What DConfigCacheImpl::setValue writes: the value under the serial the  *)
(* meta has now (time, user and appid are not modelled).                   *)
NewEntry(v, serial) == [value |-> v, serial |-> serial]

(* DConfigInfo::update for every item of a cache or meta document: what    *)
(* the document does not mention is kept.                                  *)
Merge(hash, doc) == [k \in Keys |-> IF Present(k, doc) THEN doc[k] ELSE hash[k]]

(* DConfigFilePrivate::cacheValue on the cache getCache selected.          *)
CacheValue(item, entry) ==
    IF item.readWrite /\ CheckSerial(item.serial, entry.serial)
    THEN entry.value ELSE NoValue

(* First valid value of two, the second standing for the fallback.         *)
OrElse(v, w) == IF v # NoValue THEN v ELSE w

(* DConfigFilePrivate::value.                                              *)
ItemValue(item, entry) == OrElse(CacheValue(item, entry), item.value)
=============================================================================
