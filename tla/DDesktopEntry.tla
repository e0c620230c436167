----------------------------- MODULE DDesktopEntry -----------------------------
(***************************************************************************)
(* DDesktopEntry (src/ddesktopentry.cpp): the sections of a file are found *)
(* when it is opened and parsed when they are first looked into; a section *)
(* that nobody looked into is saved as it was read, one that was parsed is *)
(* written anew, without its comments and with its keys in order.          *)
(*                                                                         *)
(* A file is a sequence of sections, a section a sequence of lines, a line *)
(* an entry or a comment.  What stands before the first section is neither *)
(* kept nor modelled.  Values are sequences of characters: they lose the   *)
(* spaces at their ends when they are parsed, nothing escapes the newlines *)
(* of a raw value, and stringValue reads escapes.  A line that has no      *)
(* newline, or ends in a backslash, runs on into what is written next.     *)
(***************************************************************************)
EXTENDS Integers, Sequences, FiniteSets, SequencesExt, TLC

CONSTANTS
    Sections, Keys,
    Strings,    \* what callers set: sequences of characters
    EntryFiles, \* what other programs write; names and raw values without = and [
    NewPos,     \* position of a new section, 99 in the code
    Unparsed,
    MaxWrites   \* bound: times another program writes the file

Comment   == "#"
Backslash == "\\"
Newline   == "\n"
Swallowed == "..."  \* the line a value ran on into, with what is between them
Spaces    == {" ", "\t", "\r", Newline}
LetterOf  == "\n" :> "n" @@ "\t" :> "t" @@ "\r" :> "r"
CharOf    == "s" :> " " @@ "n" :> "\n" @@ "t" :> "\t" @@ "r" :> "\r"
                @@ Backslash :> Backslash
Codes     == {"NoError", "AccessError", "FormatError"}

DDesktopEntryAssumption ==
    /\ NewPos \in Nat /\ MaxWrites \in Nat /\ Unparsed \notin Keys
    /\ \A f \in EntryFiles : \A i \in DOMAIN f :
          f[i].name \in Sections /\ f[i].bad \in BOOLEAN

VARIABLES
    entryFile,   \* the file, a sequence of [name, bad, lines, open], of which the
                 \* last is open if it ends without a newline
    sectionsMap, \* sectionsMap[s]: [pos, bad, open, unparsed, values]
    entryStatus, \* the first error met
    expected,    \* history: expected[s][k] as read at the start, set and removed
    inFile,      \* history: the last save succeeded, no line of it ran on, and the
                 \* file was left alone
    writes       \* history: times another program wrote the file

entryVars == <<entryFile, sectionsMap, entryStatus, expected, inFile, writes>>

-----------------------------------------------------------------------------
(* Each control character becomes two backslashes and a letter.            *)
Escape(str) == FlattenSeq([i \in DOMAIN str |->
    IF str[i] = Backslash THEN <<Backslash, Backslash>>
    ELSE IF str[i] \in DOMAIN LetterOf THEN <<Backslash, Backslash, LetterOf[str[i]]>>
    ELSE <<str[i]>>])

Unescape(str) ==
    LET from[i \in 1 .. Len(str) + 1] ==
            IF i > Len(str) THEN <<>>
            ELSE IF str[i] = Backslash /\ i < Len(str) /\ str[i + 1] \in DOMAIN CharOf
                 THEN <<CharOf[str[i + 1]]>> \o from[i + 2]
                 ELSE <<str[i]>> \o from[i + 1]
    IN from[1]

(* trimmed.                                                                *)
Trimmed(str) ==
    LET inner == {i \in DOMAIN str : str[i] \notin Spaces}
    IN IF inner = {} THEN <<>>
       ELSE SubSeq(str, CHOOSE i \in inner : \A j \in inner : i <= j,
                        CHOOSE i \in inner : \A j \in inner : j <= i)

(* readLineFromData: a line ends at a newline that no backslash escapes.   *)
Escaped(str, i) ==
    Cardinality({j \in 1 .. i - 1 : \A m \in j .. i - 1 : str[m] = Backslash}) % 2 = 1
Ends(str)   == {i \in DOMAIN str : str[i] = Newline /\ ~Escaped(str, i)}
RunsOn(str) == Escaped(str, Len(str) + 1)
FirstLine(str) ==
    IF Ends(str) = {} THEN str
    ELSE SubSeq(str, 1, (CHOOSE i \in Ends(str) : \A j \in Ends(str) : i <= j) - 1)
(* A raw value as it is read back.                                         *)
Kept(str) == Trimmed(FirstLine(str))

(* ensureSectionDataParsed: of equal keys the last counts.                 *)
Parse(lines) == FoldLeft(LAMBDA values, line :
                            IF line = Comment THEN values ELSE line[1] :> Trimmed(line[2]) @@ values,
                         <<>>, lines)
Values(sec) == IF sec.unparsed = Unparsed THEN sec.values ELSE Parse(sec.unparsed)
Parsed(sec) ==
    [sec EXCEPT !.unparsed = Unparsed, !.values = Values(sec), !.bad = FALSE, !.open = FALSE]

(* initSectionsFromData: of equal sections the last counts.                *)
InitSectionsFromData(f) ==
    [s \in {f[i].name : i \in DOMAIN f} |->
        LET last == CHOOSE i \in DOMAIN f : f[i].name = s /\ \A j \in DOMAIN f : f[j].name = s => j <= i
        IN [pos |-> last - 1, bad |-> f[last].bad, open |-> f[last].open,
            unparsed |-> f[last].lines, values |-> <<>>]]
Reading(map) == [s \in DOMAIN map |-> Values(map[s])]

SetStatus(old, new) == IF new = "NoError" \/ old = "NoError" THEN new ELSE old

(* The constructor reads the file.  The status is not initialised: an      *)
(* error is noted only if it happens to be NoError.                        *)
FuzzyLoad(f, garbage, readable) ==
    LET map == IF readable THEN InitSectionsFromData(f) ELSE <<>>
        met == IF ~readable THEN "AccessError"
               ELSE IF \E i \in DOMAIN f : f[i].bad THEN "FormatError" ELSE "NoError"
    IN [map |-> map, status |-> SetStatus(garbage, met)]

-----------------------------------------------------------------------------
(* rawValue of a key that is there parses the section; contains and keys   *)
(* parse a copy of it.                                                     *)
Look(s, k) ==
    /\ s \in DOMAIN sectionsMap /\ k \in DOMAIN Values(sectionsMap[s])
    /\ sectionsMap' = [sectionsMap EXCEPT ![s] = Parsed(@)]
    /\ UNCHANGED <<entryFile, entryStatus, expected, inFile, writes>>

NewSection ==
    [pos |-> NewPos, bad |-> FALSE, open |-> FALSE, unparsed |-> Unparsed, values |-> <<>>]

SetRawValue(s, k, raw) ==
    LET sec == IF s \in DOMAIN sectionsMap THEN Parsed(sectionsMap[s]) ELSE NewSection IN
    /\ sectionsMap' = s :> [sec EXCEPT !.values = k :> raw @@ @] @@ sectionsMap
    /\ expected' = s :> (k :> raw @@ (IF s \in DOMAIN expected THEN expected[s] ELSE <<>>)) @@ expected
    /\ inFile' = FALSE
    /\ UNCHANGED <<entryFile, entryStatus, writes>>
SetStringValue(s, k, str) == SetRawValue(s, k, Escape(str))

RemoveEntry(s, k) ==
    /\ s \in DOMAIN sectionsMap /\ k \in DOMAIN Values(sectionsMap[s])
    /\ sectionsMap' = [sectionsMap EXCEPT ![s] =
                          [Parsed(@) EXCEPT !.values = Restrict(@, DOMAIN @ \ {k})]]
    /\ expected' = [expected EXCEPT ![s] = Restrict(@, DOMAIN @ \ {k})]
    /\ inFile' = FALSE
    /\ UNCHANGED <<entryFile, entryStatus, writes>>

-----------------------------------------------------------------------------
(* Sections of equal position come in any order.                           *)
AllGroups(map) == {order \in SetToSeqs(DOMAIN map) :
    \A i, j \in DOMAIN order : i < j => map[order[i]].pos <= map[order[j]].pos}

(* What a line that runs on swallows is no line of its own any more.       *)
RunOn(lines) ==
    IF lines = <<>> \/ Last(lines) = Comment THEN lines
    ELSE Append(Front(lines), <<Last(lines)[1], Append(Last(lines)[2], Swallowed)>>)
Behind(text, next) ==
    IF text.open THEN [text EXCEPT !.lines = RunOn(@) \o next.lines, !.open = next.open]
    ELSE [text EXCEPT !.lines = @ \o next.lines, !.open = next.open]

(* A section that was parsed is written line by line, one that was not as  *)
(* it was read.                                                            *)
EntryText(k, raw) ==
    [lines |-> <<<<k, FirstLine(raw)>>>> \o (IF Ends(raw) = {} THEN <<>> ELSE <<Comment>>),
     open  |-> RunsOn(raw)]
SectionData(map, s) ==
    LET empty == [name |-> s, bad |-> map[s].bad, lines |-> <<>>, open |-> FALSE]
        keys  == CHOOSE ks \in SetToSeqs(DOMAIN map[s].values) : TRUE
    IN IF map[s].unparsed # Unparsed
       THEN [empty EXCEPT !.lines = map[s].unparsed, !.open = map[s].open]
       ELSE FoldLeft(LAMBDA text, k :
                        IF text.open THEN [text EXCEPT !.lines = RunOn(@),
                                                       !.open = RunsOn(map[s].values[k])]
                        ELSE Behind(text, EntryText(k, map[s].values[k])),
                     empty, keys)

(* The header of a section behind one that runs on is swallowed.           *)
SectionsOf(order) == [i \in DOMAIN order |-> SectionData(sectionsMap, order[i])]
Written(order) ==
    FoldLeft(LAMBDA texts, text :
                IF texts # <<>> /\ Last(texts).open
                THEN Append(Front(texts), Behind(Last(texts), text))
                ELSE Append(texts, text),
             <<>>, SectionsOf(order))
SomeRunsOn(order) ==
    \/ \E s \in DOMAIN sectionsMap : \E k \in DOMAIN sectionsMap[s].values :
          RunsOn(sectionsMap[s].values[k])
    \/ \E i \in 1 .. Len(order) - 1 : SectionsOf(order)[i].open

(* The new file replaces the old one when it is complete.                  *)
Save ==
    /\ \E order \in AllGroups(sectionsMap) :
          /\ entryFile' = Written(order)
          /\ inFile' = ~SomeRunsOn(order)
    /\ UNCHANGED <<sectionsMap, entryStatus, expected, writes>>
(* It cannot be opened, written or put in place.                           *)
SaveFails ==
    /\ entryStatus' = SetStatus(entryStatus, "AccessError")
    /\ UNCHANGED <<entryFile, sectionsMap, expected, inFile, writes>>

(* Where no other file can be made in the directory, the file itself is    *)
(* truncated and written.                                                  *)
SaveBreaks ==
    /\ \E order \in AllGroups(sectionsMap), n \in 0 .. Cardinality(DOMAIN sectionsMap) :
          /\ n < Len(order)
          /\ entryFile' = Written(SubSeq(order, 1, n))
    /\ inFile' = FALSE
    /\ entryStatus' = SetStatus(entryStatus, "AccessError")
    /\ UNCHANGED <<sectionsMap, expected, writes>>

Rewrite(f) ==
    /\ writes < MaxWrites
    /\ entryFile' = f /\ inFile' = FALSE /\ writes' = writes + 1
    /\ UNCHANGED <<sectionsMap, entryStatus, expected>>

(* The entry is opened anew.                                               *)
Reopen(garbage, readable) ==
    LET load == FuzzyLoad(entryFile, garbage, readable) IN
    /\ sectionsMap' = load.map /\ entryStatus' = load.status
    /\ expected' = Reading(load.map)
    /\ inFile' = readable
    /\ UNCHANGED <<entryFile, writes>>

-----------------------------------------------------------------------------
Init ==
    /\ entryFile \in EntryFiles
    /\ \E garbage \in Codes, readable \in BOOLEAN :
          LET load == FuzzyLoad(entryFile, garbage, readable) IN
          /\ sectionsMap = load.map /\ entryStatus = load.status
          /\ inFile = readable
    /\ expected = Reading(sectionsMap) /\ writes = 0

Next ==
    \/ \E s \in Sections, k \in Keys, str \in Strings :
          SetStringValue(s, k, str) \/ SetRawValue(s, k, str)
    \/ \E s \in Sections, k \in Keys : Look(s, k) \/ RemoveEntry(s, k)
    \/ \E f \in EntryFiles : Rewrite(f)
    \/ \E garbage \in Codes, readable \in BOOLEAN : Reopen(garbage, readable)
    \/ Save
    \/ SaveFails
    \/ SaveBreaks

Spec == Init /\ [][Next]_entryVars

-----------------------------------------------------------------------------
TypeOK ==
    /\ DOMAIN sectionsMap \subseteq Sections
    /\ \A s \in DOMAIN sectionsMap : sectionsMap[s].unparsed # Unparsed => sectionsMap[s].values = <<>>
    /\ entryStatus \in Codes /\ inFile \in BOOLEAN

(* Whichever sections were parsed, and in whichever order things were set, *)
(* the entry reads as the file did with the changes made since; and so     *)
(* does the file once it is saved, values that were set up to their first  *)
(* newline and without the spaces at their ends.  Nothing is said of a     *)
(* save in which a line runs on into the next: an unparsed section that    *)
(* ends without a newline then swallows the header of the one behind it    *)
(* (sectionData, line 152; initSectionsFromData, line 322).                *)
EntryIsKept ==
    /\ Reading(sectionsMap) = expected
    /\ inFile => Reading(InitSectionsFromData(entryFile)) =
                    [s \in DOMAIN expected |->
                        [k \in DOMAIN expected[s] |-> Kept(expected[s][k])]]

(* A string that is set, or the beginning of one, is read again, but for   *)
(* control characters, which come back as a backslash and a letter; from   *)
(* the file without the spaces at its ends.                                *)
StringsAreKept ==
    \A whole \in Strings : \A n \in 0 .. Len(whole) :
        LET str == SubSeq(whole, 1, n)
        IN (\A i \in DOMAIN str : str[i] \notin DOMAIN LetterOf) =>
               /\ Unescape(Escape(str)) = str
               /\ Unescape(Kept(Escape(str))) = Trimmed(str)
=============================================================================
