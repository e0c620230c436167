------------------------------- MODULE DPinyin -------------------------------
(***************************************************************************)
(* pinyin and firstLetters (src/util/dpinyin.cpp): the readings of a word  *)
(* are all combinations of the readings of its characters, until there are *)
(* too many.  The dictionary is read once, by the first thread that needs  *)
(* it, while the others wait; the table of tones is a static map that any  *)
(* thread fills that finds it empty, without a lock.                       *)
(*                                                                         *)
(* A reading is a sequence of letters <<base, tone>>, tone 0 for none; the *)
(* number of a tone that is written behind is the letter <<Digit, tone>>.  *)
(***************************************************************************)
EXTENDS Integers, Sequences, SequencesExt, FiniteSets, Functions

CONSTANTS
    Threads,
    Words,    \* bound: words that are asked for
    Dict,     \* Dict[c]: the sequence of readings of a character
    Digit,
    Limit,    \* combinations after which no more characters are looked at
    None

Styles == {"NoneTone", "Tone", "ToneNum"}

(* The letters with a tone.                                                *)
Toned == {l \in UNION {Range(r) : r \in UNION {Range(Dict[c]) : c \in DOMAIN Dict}} : l[2] # 0}

DPinyinAssumption ==
    /\ \A c \in DOMAIN Dict : Len(Dict[c]) > 0
    /\ Limit \in Nat \ {0} /\ None \notin Threads

VARIABLES
    dict,       \* what InitDict has read
    reading,    \* the thread that runs initDictImpl; None before, Read after it
    toneTable,  \* the letters in the table
    caller,     \* caller[t]: [at, word, style, first, result]
    clash       \* history: a thread used the table while another filled it

pinyinVars == <<dict, reading, toneTable, caller, clash>>

Read == "read"
Idle == [at |-> "idle", word |-> <<>>, style |-> "Tone", first |-> FALSE, result |-> <<>>]
At(t, where) == caller' = [caller EXCEPT ![t].at = where]

-----------------------------------------------------------------------------
(* toned: with a number the tone that comes last is written behind.        *)
Bare(r, table) == [i \in DOMAIN r |-> IF r[i] \in table THEN <<r[i][1], 0>> ELSE r[i]]

TonedAs(r, style, table) ==
    LET found == SelectSeq(r, LAMBDA l : l \in table) IN
    IF style = "Tone" THEN r
    ELSE IF style = "NoneTone" \/ found = <<>> THEN Bare(r, table)
    ELSE Append(Bare(r, table), <<Digit, Last(found)[2]>>)

(* permutations of two lists: each of the first before each of the second. *)
Permutations2(list1, list2) ==
    FlattenSeq([i \in DOMAIN list1 |-> [j \in DOMAIN list2 |-> list1[i] \o list2[j]]])

(* permutations: the first two, then one after the other until the result  *)
(* is longer than the limit.                                               *)
PermutationsOf(lists) ==
    LET Join[i \in 1 .. Len(lists)] ==
            IF i = 1 THEN lists[1]
            ELSE IF i > 3 /\ Len(Join[i - 1]) > Limit THEN Join[i - 1]
            ELSE Permutations2(Join[i - 1], lists[i])
    IN IF lists = <<>> THEN <<>> ELSE Join[Len(lists)]

Deduplication(list) ==
    FoldLeft(LAMBDA result, item : IF item \in Range(result) THEN result ELSE Append(result, item),
             <<>>, list)

ReadingsOf(c, style, table) ==
    IF c \in DOMAIN dict
    THEN [i \in DOMAIN dict[c] |-> TonedAs(dict[c][i], style, table)]
    ELSE <<<<<<c, 0>>>>>>

Pinyin(word, style, table) ==
    Deduplication(PermutationsOf([i \in DOMAIN word |-> ReadingsOf(word[i], style, table)]))

(* firstLetters: of each character the first letters of its readings.      *)
FirstLetters(word, style, table) ==
    LET firsts(c) == LET pys == Pinyin(<<c>>, style, table) IN
                     [i \in DOMAIN pys |-> SubSeq(pys[i], 1, 1)]
    IN Deduplication(PermutationsOf([i \in DOMAIN word |-> firsts(word[i])]))
-----------------------------------------------------------------------------
Call(t, word, style, first) ==
    /\ caller[t].at \in {"idle", "told"}
    /\ caller' = [caller EXCEPT ![t] =
                    [at |-> "dict", word |-> word, style |-> style, first |-> first,
                     result |-> <<>>]]
    /\ UNCHANGED <<dict, reading, toneTable, clash>>

(* InitDict: std::call_once.                                               *)
BeginInitDict(t) ==
    /\ caller[t].at = "dict" /\ reading = None
    /\ reading' = t
    /\ UNCHANGED <<dict, toneTable, caller, clash>>

(* initDictImpl reads the file, or nothing if it cannot be opened.         *)
InitDictImpl(t) ==
    /\ reading = t
    /\ dict' \in {Dict, <<>>}
    /\ reading' = Read
    /\ UNCHANGED <<toneTable, caller, clash>>

(* Whether anything is toned.                                              *)
UsesTable(t) ==
    caller[t].style # "Tone" /\ Range(caller[t].word) \cap DOMAIN dict # {}

Filling(t) == \E u \in Threads \ {t} : caller[u].at = "fill"
Using(t)   == clash' = (clash \/ Filling(t))

(* initToneTable does nothing if there is anything in the table.           *)
InitToneTable(t) ==
    /\ caller[t].at = "dict" /\ reading = Read
    /\ At(t, IF UsesTable(t) /\ toneTable = {} THEN "fill" ELSE "look")
    /\ IF UsesTable(t) THEN Using(t) ELSE UNCHANGED clash
    /\ UNCHANGED <<dict, reading, toneTable>>

InsertTone(t) ==
    /\ caller[t].at = "fill"
    /\ IF Toned \subseteq toneTable
       THEN At(t, "look") /\ UNCHANGED <<toneTable, clash>>
       ELSE /\ \E l \in Toned \ toneTable : toneTable' = toneTable \cup {l}
            /\ clash' = (clash \/ \E u \in Threads \ {t} :
                                     caller[u].at \in {"fill", "look"} /\ UsesTable(u))
            /\ UNCHANGED caller
    /\ UNCHANGED <<dict, reading>>

Look(t) ==
    LET c == caller[t] IN
    /\ c.at = "look"
    /\ caller' = [caller EXCEPT ![t].at = "told",
                                ![t].result = IF c.first THEN FirstLetters(c.word, c.style, toneTable)
                                              ELSE Pinyin(c.word, c.style, toneTable)]
    /\ IF UsesTable(t) THEN Using(t) ELSE UNCHANGED clash
    /\ UNCHANGED <<dict, reading, toneTable>>

-----------------------------------------------------------------------------
Init ==
    /\ dict = <<>> /\ reading = None
    /\ toneTable = {}
    /\ caller = [t \in Threads |-> Idle]
    /\ clash = FALSE

Next == \E t \in Threads :
    \/ \E word \in Words, style \in Styles, first \in BOOLEAN : Call(t, word, style, first)
    \/ BeginInitDict(t) \/ InitDictImpl(t)
    \/ InitToneTable(t) \/ InsertTone(t) \/ Look(t)

Spec == Init /\ [][Next]_pinyinVars

-----------------------------------------------------------------------------
TypeOK ==
    /\ dict \in {<<>>, Dict} /\ reading \in Threads \cup {None, Read}
    /\ toneTable \subseteq Toned
    /\ \A t \in Threads : caller[t].at \in {"idle", "dict", "fill", "look", "told"}

(* What a character may contribute, and all readings of a word.            *)
Parts(t, c) ==
    {IF caller[t].first THEN SubSeq(r, 1, 1) ELSE r :
        r \in Range(ReadingsOf(c, caller[t].style, Toned))}

Readings(t) ==
    LET word == caller[t].word IN
    {FlattenSeq(choice) : choice \in
        {f \in [DOMAIN word -> UNION {Parts(t, c) : c \in Range(word)}] :
            \A i \in DOMAIN word : f[i] \in Parts(t, word[i])}}

(* The combinations of some of the first characters are too many.          *)
TooMany(word) ==
    \E k \in 3 .. Len(word) - 1 :
        FoldLeft(LAMBDA n, c : n * Len(ReadingsOf(c, "Tone", {})), 1, SubSeq(word, 1, k)) > Limit

(* pinyin and firstLetters give every reading of the word, once, and       *)
(* nothing else (dpinyin.cpp:190, :238), whichever thread read the         *)
(* dictionary or filled the table, and whichever style was asked for       *)
(* first; of a word with too many they give beginnings of readings.        *)
(* Threads must not meet in the table.                                     *)
ReadingsAreWhole ==
    \A t \in Threads : caller[t].at = "told" /\ ~clash =>
        /\ Cardinality(Range(caller[t].result)) = Len(caller[t].result)
        /\ IF TooMany(caller[t].word)
           THEN \A r \in Range(caller[t].result) : \E whole \in Readings(t) : IsPrefix(r, whole)
           ELSE Range(caller[t].result) = Readings(t)
=============================================================================
