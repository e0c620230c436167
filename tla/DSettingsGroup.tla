--------------------------- MODULE DSettingsGroup ---------------------------
(***************************************************************************)
(* The description a DSettings is made of (src/settings): groups with      *)
(* options and groups in them.  Parsing gives each its full key, the keys  *)
(* from the outermost group on, and collects the options of all groups in  *)
(* one map.  A file that cannot be read describes nothing.                 *)
(***************************************************************************)
EXTENDS Integers, Sequences, SequencesExt, Functions, TLC

CONSTANTS
    Descriptions,  \* [key, options, groups]; options are [key, value, reset]
    LookedUp,      \* full keys somebody looks up
    None

VARIABLES
    description,  \* the groups the file describes, None if it cannot be read
    settings,     \* DSettingsPrivate: [options, groupKeys, groups], None before parsing
    asked,        \* full key that was looked up
    answer        \* [option, group, crash] found under it

settingsGroupVars == <<description, settings, asked, answer>>

NoAnswer == [option |-> None, group |-> None, crash |-> FALSE]

RECURSIVE IsGroup(_)
IsGroup(g) ==
    /\ g.key # ""  \* asserted by parseJson
    /\ \A i \in DOMAIN g.options : g.options[i].key # ""
    /\ \A i \in DOMAIN g.groups : IsGroup(g.groups[i])

DSettingsGroupAssumption ==
    \A d \in Descriptions : \A i \in DOMAIN d : IsGroup(d[i])

-----------------------------------------------------------------------------
(* Later ones of the same key take the place of earlier ones in the maps,  *)
(* and are named twice in the lists.                                       *)
ByKey(list) == FoldLeft(LAMBDA found, g : (g.key :> g) @@ found, <<>>, list)

(* DSettingsOptionPrivate::parseJson.                                      *)
ParseOption(prefix, o) ==
    [key |-> Append(prefix, o.key), defaultValue |-> o.value,
     canReset |-> IF o.reset = None THEN TRUE ELSE o.reset]

(* DSettingsGroupPrivate::parseJson: the group's own options, then those   *)
(* of each group in it.                                                    *)
RECURSIVE ParseGroup(_, _)
ParseGroup(prefix, g) ==
    LET key      == Append(prefix, g.key)
        own      == [i \in DOMAIN g.options |-> ParseOption(key, g.options[i])]
        children == [i \in DOMAIN g.groups |-> ParseGroup(key, g.groups[i])]
    IN [key             |-> key,
        options         |-> FoldLeft(LAMBDA found, child : child.options @@ found,
                                     ByKey(own), children),
        childOptions    |-> ByKey(own),
        childOptionKeys |-> [i \in DOMAIN own |-> own[i].key],
        childGroups     |-> ByKey(children),
        childGroupKeys  |-> [i \in DOMAIN children |-> children[i].key]]

(* DSettings::parseJson, what fromJsonFile read.                           *)
ParseJson ==
    LET groups == IF description = None THEN <<>>
                  ELSE [i \in DOMAIN description |-> ParseGroup(<<>>, description[i])]
    IN /\ settings = None
       /\ settings' = [options   |-> FoldLeft(LAMBDA found, g : g.options @@ found, <<>>, groups),
                       groupKeys |-> [i \in DOMAIN groups |-> groups[i].key],
                       groups    |-> ByKey(groups)]
       /\ UNCHANGED <<description, asked, answer>>

ValueOf(map, key) == IF key \in DOMAIN map THEN map[key] ELSE None

(* DSettings::group: of the outermost group, or of the groups in it.  The  *)
(* outermost is not looked at before it is used.                           *)
Main(key)  == ValueOf(settings.groups, <<key[1]>>)
Crash(key) == Len(key) > 1 /\ Main(key) = None

GroupOf(key) ==
    IF Len(key) = 1 THEN Main(key)
    ELSE IF Crash(key) THEN None ELSE ValueOf(Main(key).childGroups, key)

LookUp(key) ==
    /\ settings # None
    /\ asked' = key
    /\ answer' = [option |-> ValueOf(settings.options, key), group |-> GroupOf(key),
                  crash  |-> Crash(key)]
    /\ UNCHANGED <<description, settings>>

Init ==
    /\ description \in Descriptions \cup {None}
    /\ settings = None /\ asked = <<>> /\ answer = NoAnswer

Next == ParseJson \/ \E key \in LookedUp : LookUp(key)

Spec == Init /\ [][Next]_settingsGroupVars

-----------------------------------------------------------------------------
(* All options and groups of a description in the order they are written   *)
(* in, with their full keys.                                               *)
RECURSIVE Described(_, _)
Described(prefix, gs) ==
    FlattenSeq([i \in DOMAIN gs |->
        LET key == Append(prefix, gs[i].key) IN
        <<[key |-> key, kind |-> "group", value |-> None]>>
        \o [j \in DOMAIN gs[i].options |->
               [key |-> Append(key, gs[i].options[j].key), kind |-> "option",
                value |-> gs[i].options[j].value]]
        \o Described(key, gs[i].groups)])

DescribedHere == IF description = None THEN <<>> ELSE Described(<<>>, description)

LastOf(list, key) ==
    LET is == {i \in DOMAIN list : list[i].key = key /\ list[i].kind = "option"} IN
    IF is = {} THEN None ELSE list[CHOOSE i \in is : \A j \in is : j <= i].value

(* What is asked for is what the description says last of that key         *)
(* (dsettings.cpp:421, dsettingsgroup.cpp:208): an option at any depth; a  *)
(* group of the first two levels, and none of those below.  Who asks for a *)
(* group in a group that is not there crashes.                             *)
AnswerIsDescribed ==
    asked # <<>> =>
        /\ IF answer.option = None THEN LastOf(DescribedHere, asked) = None
           ELSE /\ answer.option.key = asked
                /\ answer.option.defaultValue = LastOf(DescribedHere, asked)
        /\ LET there == \E i \in DOMAIN DescribedHere :
                           DescribedHere[i].key = asked /\ DescribedHere[i].kind = "group"
           IN IF answer.crash
              THEN \A i \in DOMAIN DescribedHere : DescribedHere[i].key # <<asked[1]>>
              ELSE IF Len(asked) > 2 THEN answer.group = None
              ELSE (answer.group # None) = there
=============================================================================
