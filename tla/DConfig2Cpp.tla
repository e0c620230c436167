---------------------------- MODULE DConfig2Cpp ----------------------------
(***************************************************************************)
(* The generator of preference classes (tools/dconfig2cpp): it makes a     *)
(* header with one class from a meta file of DConfig.  The class keeps in  *)
(* words of bits which of its properties were set.                         *)
(*                                                                         *)
(* The types of numbers are found by a search for the key in the text of   *)
(* the file, by the generator as by DConfigFile.  The header is opened     *)
(* before all checks are done; what is written to it may get lost, and     *)
(* the generator may be stopped.                                           *)
(***************************************************************************)
EXTENDS Integers, Sequences, SequencesExt, Functions

CONSTANTS
    Metas,     \* meta files: [magic, major, contents]
    Spelt,     \* Spelt[k]: the words the key k is made of
    Capital,   \* Capital[w]: the word w with a capital letter
    Used,      \* names the class has for itself (usedKeywords)
    WordSize,
    None

(* Items are [key, kind, found, long]; found is the form of the number the *)
(* search comes to, None if it comes to none, long says that a number has  *)
(* more digits than QString::number writes.                                *)
Kinds   == {"bool", "array", "object", "string", "null", "whole", "fraction"}
Numbers == {"whole", "fraction"}

DConfig2CppAssumption ==
    /\ WordSize \in Nat \ {0}
    /\ \A meta \in Metas : \A i \in DOMAIN meta.contents :
          LET item == meta.contents[i] IN
          /\ item.kind \in Kinds /\ item.key \in DOMAIN Spelt
          /\ item.found \in {"float", "int", None} /\ item.long \in BOOLEAN
    /\ \A k \in DOMAIN Spelt : Spelt[k][1] \in DOMAIN Capital

VARIABLES
    meta,     \* the meta file, None if it cannot be read
    run,      \* the run of the generator: [at, meta, code]
    header,   \* the header: [members, whole], None if there is none
    setStatus, \* the words of an object of the class: word -> bits in it
    lost,     \* history: the header lost some of what was written to it
    marked    \* history: which properties were marked last

generatorVars == <<meta, run, header, setStatus, lost, marked>>

NoRun == [at |-> "idle", meta |-> None, code |-> None]
Empty == [members |-> <<>>, whole |-> FALSE]

-----------------------------------------------------------------------------
(* The types of C++, and what DConfigFile makes of the same text.          *)
Plain == [bool |-> "bool", array |-> "QList", object |-> "QVariantMap",
          string |-> "QString", null |-> "QVariant"]

IsOriginalValueFloat(item) == item.kind \in Numbers /\ item.found = "float"

TypeName(item) ==
    IF item.kind \notin Numbers THEN Plain[item.kind]
    ELSE IF IsOriginalValueFloat(item) THEN "double" ELSE "qlonglong"

VariantType(item) ==
    IF item.kind \notin Numbers THEN Plain[item.kind]
    ELSE IF item.found = "float" \/ item.kind = "fraction" THEN "double"
    ELSE "qlonglong"

(* jsonValueToCppCode: numbers that are not whole are cut to six digits.   *)
CppCode(item) == [kind |-> item.kind,
                  cut  |-> item.kind = "fraction" /\ item.long]

Capitalized(k) == [Spelt[k] EXCEPT ![1] = Capital[@]]
ReadFunction(k) == IF Spelt[k] \in Used THEN <<"get">> \o Capitalized(k) ELSE Spelt[k]

Property(m, i) ==
    LET item == m.contents[i] IN
    [key |-> item.key, type |-> TypeName(item), value |-> CppCode(item),
     index |-> i - 1, read |-> ReadFunction(item.key)]

Words(n) == 0 .. n \div WordSize

-----------------------------------------------------------------------------
Exit(code) == run' = [run EXCEPT !.at = "idle", !.code = code]

(* The file is read, and what cannot be read or has not the right magic    *)
(* is refused.                                                             *)
Start ==
    /\ run.at = "idle"
    /\ IF meta # None /\ meta.magic
       THEN run' = [at |-> "open", meta |-> meta, code |-> None]
       ELSE run' = [at |-> "idle", meta |-> meta, code |-> -1]
    /\ UNCHANGED <<meta, header, setStatus, lost, marked>>

(* Opening the header empties it.                                          *)
OpenHeader ==
    /\ run.at = "open"
    /\ \/ /\ header' = Empty /\ lost' = FALSE
          /\ run' = [run EXCEPT !.at = "version"]
       \/ Exit(-1) /\ UNCHANGED <<header, lost>>
    /\ UNCHANGED <<meta, setStatus, marked>>

CheckVersion ==
    /\ run.at = "version"
    /\ IF run.meta.major = 1 THEN run' = [run EXCEPT !.at = "write"] ELSE Exit(-1)
    /\ UNCHANGED <<meta, header, setStatus, lost, marked>>

(* Nobody looks whether the stream could write.                            *)
WriteProperty ==
    LET i == Len(header.members) + 1 IN
    /\ run.at = "write" /\ i <= Len(run.meta.contents) /\ ~lost
    /\ \/ header' = [header EXCEPT !.members = Append(@, Property(run.meta, i))]
          /\ UNCHANGED lost
       \/ lost' = TRUE /\ UNCHANGED header
    /\ UNCHANGED <<meta, run, setStatus, marked>>

WriteEnd ==
    /\ run.at = "write"
    /\ lost \/ Len(header.members) = Len(run.meta.contents)
    /\ header' = [header EXCEPT !.whole = ~lost]
    /\ Exit(0)
    /\ UNCHANGED <<meta, setStatus, lost, marked>>

-----------------------------------------------------------------------------
(* The application is built and makes an object of the class.              *)
Build ==
    /\ run.at = "idle" /\ header # None
    /\ header.whole /\ header.members # <<>> /\ setStatus = <<>>
    /\ setStatus' = [w \in Words(Len(header.members)) |-> {}]
    /\ marked' = [k \in {m.key : m \in Range(header.members)} |-> FALSE]
    /\ UNCHANGED <<meta, run, header, lost>>

(* markPropertySet: the first word that reaches as far as the index.       *)
WordOf(index) ==
    CHOOSE w \in DOMAIN setStatus :
        index < (w + 1) * WordSize /\ \A v \in DOMAIN setStatus : v < w => index >= (v + 1) * WordSize

MarkPropertySet(member, on) ==
    LET w == WordOf(member.index)
        bit == member.index - w * WordSize
    IN /\ setStatus # <<>>
       /\ setStatus' = [setStatus EXCEPT ![w] = IF on THEN @ \cup {bit} ELSE @ \ {bit}]
       /\ marked' = [marked EXCEPT ![member.key] = on]
       /\ UNCHANGED <<meta, run, header, lost>>

TestPropertySet(index) ==
    LET w == WordOf(index) IN index - w * WordSize \in setStatus[w]

(* isDefaultValue(key).                                                    *)
IsDefaultValue(key) ==
    \A m \in Range(header.members) : m.key = key => ~TestPropertySet(m.index)

-----------------------------------------------------------------------------
(* Somebody edits the meta file, or stops the generator.                   *)
Edit ==
    /\ setStatus = <<>>
    /\ meta' \in Metas \cup {None}
    /\ UNCHANGED <<run, header, setStatus, lost, marked>>

Kill ==
    /\ run.at # "idle"
    /\ run' = NoRun
    /\ UNCHANGED <<meta, header, setStatus, lost, marked>>

Init ==
    /\ meta \in Metas
    /\ run = NoRun /\ header = None
    /\ setStatus = <<>> /\ lost = FALSE /\ marked = <<>>

Next ==
    \/ setStatus = <<>> /\ Start
    \/ OpenHeader \/ CheckVersion \/ WriteProperty \/ WriteEnd
    \/ Build \/ Edit \/ Kill
    \/ header # None /\ \E m \in Range(header.members), on \in BOOLEAN : MarkPropertySet(m, on)

Spec == Init /\ [][Next]_generatorVars

-----------------------------------------------------------------------------
TypeOK ==
    /\ run.at \in {"idle", "open", "version", "write"}
    /\ run.code \in {None, -1, 0}
    /\ lost \in BOOLEAN

(* What a class declares for a property: names of functions, and for those *)
(* whose names may meet, their arguments.                                  *)
Declared(m) ==
    {<<m.read, "const">>, <<<<"set">> \o Capitalized(m.key), m.type>>,
     <<<<"reset">> \o Capitalized(m.key), "">>, <<<<"bindable">> \o Capitalized(m.key), "">>,
     <<Append(Spelt[m.key], "IsDefaultValue"), "const">>, <<Append(Spelt[m.key], "Changed"), "">>}

(* Keys that differ in the first letter only, or of which one is the other *)
(* with "get", "set" or the like about it.                                 *)
Alike(k, j) ==
    \/ Capitalized(k) = Capitalized(j)
    \/ \E w \in {"get", "reset", "bindable", "set"} : Spelt[j] = <<w>> \o Capitalized(k)
    \/ \E w \in {"IsDefaultValue", "Changed"} : Spelt[j] = Append(Spelt[k], w)

(* A generator that ends with 0 has made a class of what it read           *)
(* (tools/dconfig2cpp/main.cpp:264, :509), if nothing it wrote was lost:   *)
(* each item is a property, of the type DConfigFile gives its value and    *)
(* with its value, unless the number cannot be found in the text or is     *)
(* longer than what is written; the functions are apart, unless two keys   *)
(* are alike, and none has a name the class uses.                          *)
HeaderIsMeta ==
    run.at = "idle" /\ run.code = 0 /\ ~lost =>
        LET c == run.meta.contents
            ms == header.members
        IN /\ header.whole /\ DOMAIN ms = DOMAIN c
           /\ \A i \in DOMAIN ms :
                 /\ ms[i].key = c[i].key /\ ms[i].read \notin Used
                 /\ ms[i].type = VariantType(c[i])
                       \/ (c[i].kind = "fraction" /\ c[i].found # "float")
                 /\ ms[i].value.cut => c[i].long
           /\ \A i, j \in DOMAIN ms :
                 i # j /\ ~Alike(ms[i].key, ms[j].key) /\ ~Alike(ms[j].key, ms[i].key)
                     => Declared(ms[i]) \cap Declared(ms[j]) = {}

(* A property is at its default if the last mark says so                   *)
(* (tools/dconfig2cpp/main.cpp:625, :638), whatever other properties share *)
(* its word.                                                               *)
MarksAreApart ==
    setStatus # <<>> => \A k \in DOMAIN marked : IsDefaultValue(k) = ~marked[k]
=============================================================================
