------------------------------- MODULE MCLibrary -------------------------------
(* The parts of the library that work by themselves, for TLC.  They share   *)
(* nothing, so one is chosen in the initial state and the others rest in    *)
(* theirs.                                                                  *)
EXTENDS Library, Integers, Sequences, TLC

CONSTANTS
    Octets, WatchedDirs, Sections, Keys, Unparsed

VARIABLES
    dciTree, data, read,
    disk, queue, half, fileWd, picture, filePicture, changesMade, unheard,
    blind,
    entryFile, sectionsMap, entryStatus, expected, inFile, writes,
    textFile, job, meant, harmed,
    asked, now, depth, answer,
    description, settings, lookedUp, foundThere,
    meta, run, header, setStatus, lost, marked,
    source, dciFile, target, tool, made, exported,
    dict, reading, toneTable, caller, clash

formatVars   == <<dciTree, data, read>>
signalsVars  == <<disk, queue, half, fileWd, picture, filePicture,
                changesMade, unheard, blind>>
entryVars    == <<entryFile, sectionsMap, entryStatus, expected, inFile,
                writes>>
textVars     == <<textFile, job, meant, harmed>>
unitVars     == <<asked, now, depth, answer>>
groupVars    == <<description, settings, lookedUp, foundThere>>
generatorVars == <<meta, run, header, setStatus, lost, marked>>
toolVars     == <<source, dciFile, target, tool, made, exported>>
pinyinVars   == <<dict, reading, toneTable, caller, clash>>

-----------------------------------------------------------------------------
(* Options are at their defaults at first.                                  *)
MCDefault == [k \in Options |-> CHOOSE v \in OptionValues : TRUE]

(* Two links, one to each name; a file that is watched.                     *)
MCLinked == {<<n>> : n \in FileNames}
MCFile   == <<CHOOSE d \in WatchedDirs : TRUE, CHOOSE n \in FileNames : TRUE>>

(* A file and a directory with a file in it, which have the same name.      *)
MCWithin   == ("a" :> {}) @@ ("dir" :> {"x"})
MCFileName == [s \in DOMAIN MCWithin |-> "n"]

(* One path continues the name of another, two lie below it.  The list the  *)
(* platform gives has a repetition.                                         *)
MCCapPaths == {<<"a">>, <<"a", "b">>, <<"a", "/", "b">>, <<"a", "/", "c">>}
MCWritable == [i \in 1 .. 2 |-> <<"a", "/", "b">>]

(* An entry with a section that comes twice, one without a bracket and a    *)
(* key that comes twice; one that ends without a newline; an empty one.      *)
MCSection(name, bad, lines) ==
    [name |-> name, bad |-> bad, lines |-> lines, open |-> FALSE]
MCOpen(section) == [section EXCEPT !.open = TRUE]
MCEntryFiles == {
    <<MCSection("A", FALSE, <<"#", <<"k", <<"x">>>>, <<"k", <<"y">>>>>>),
      MCSection("B", TRUE, <<"#">>), MCSection("A", FALSE, <<"#">>)>>,
    <<MCOpen(MCSection("B", FALSE, <<<<"k", <<" ", "x">>>>>>))>>,
    <<>>}
MCStrings == {<<"\\", " ", "\n">>}

(* The manager knows this process and one of two others.                    *)
MCIdentity    == [me |-> "a", p |-> "b", q |-> ""]
MCFormatAppId == [n |-> "fn", c |-> "fc"]

MCDefaultRules == ("dsg" :> "r") @@ ("fallback" :> "s")

(* Versions of three product lines, and a file with a character that is     *)
(* neither a digit nor a capital letter.                                    *)
MCOsFiles == {None,
    [build |-> <<1, 1, 0, 7, 1>>, minor |-> <<<<2, 5>>, <<1>>>>],
    [build |-> <<1, 2, 0, 3, 1>>, minor |-> <<<<2, 5>>, <<1>>>>],
    [build |-> <<1, 1, 0, 1, 1>>, minor |-> <<<<1, 0, 7, 11>>>>],
    [build |-> <<1, 65, -1, 1, 1>>, minor |-> <<<<1>>>>]}
MCReleaseFiles == {
    <<[id |-> "deepin"], <<>>, [version |-> "v"]>>,
    <<[id |-> "dx"], <<>>, <<>>>>,
    <<<<>>, [name |-> "n"], [id |-> "q"]>>}
MCDeepinFiles == {None, [type |-> "Server", edition |-> None],
                  [type |-> None, edition |-> "e"]}
MCBlocks == <<[name |-> "sda", parent |-> None, size |-> 2, root |-> FALSE],
              [name |-> "sda1", parent |-> "sda", size |-> 1, root |-> TRUE]>>

(* Bytes of characters in an encoding that has all, one that lacks one and *)
(* one with four for each.                                                 *)
MCWidth == [
    utf8  |-> ("x" :> 1) @@ ("han" :> 3) @@ ("cr" :> 1) @@ ("?" :> 2),
    gb    |-> ("x" :> 1) @@ ("han" :> 2) @@ ("cr" :> 1) @@ ("?" :> 0),
    utf32 |-> ("x" :> 4) @@ ("han" :> 4) @@ ("cr" :> 4) @@ ("?" :> 4)]
MCBom == [utf8 |-> 0, gb |-> 0, utf32 |-> 4]

(* Options and groups whose keys come twice, and a group of the third      *)
(* level.                                                                  *)
MCOption(k, v) == [key |-> k, value |-> v, reset |-> None]
MCGroup(k, os, gs) == [key |-> k, options |-> os, groups |-> gs]
MCDescriptions == {
    <<MCGroup("a", <<MCOption("x", 1), MCOption("x", 2)>>,
              <<MCGroup("b", <<MCOption("y", 3)>>,
                        <<MCGroup("c", <<MCOption("x", 4)>>, <<>>)>>),
                MCGroup("b", <<MCOption("x", 5)>>, <<>>)>>),
      MCGroup("b", <<>>, <<>>)>>,
    <<MCGroup("a", <<MCOption("b", 1)>>, <<>>)>>,
    <<>>}
MCLookedUp == {<<"a">>, <<"b">>, <<"z">>, <<"a", "b">>, <<"a", "x">>,
               <<"b", "x">>, <<"a", "b", "y">>, <<"a", "b", "x">>,
               <<"a", "b", "c">>, <<"a", "b", "c", "x">>}

MCLists == {[array |-> FALSE, items |-> <<>>],
            [array |-> TRUE, items |-> <<"p", "q">>],
            [array |-> TRUE, items |-> <<"p", "bad">>]}

(* Meta files with more keys than a word has bits, with keys that differ   *)
(* in a capital letter, of another version and of another kind.            *)
MCItem(k, kind, form, long) ==
    [key |-> k, kind |-> kind, found |-> form, long |-> long]
MCMeta(magic, major, items) ==
    [magic |-> magic, major |-> major, contents |-> items]
MCMetas == {
    MCMeta(TRUE, 1, <<MCItem("config", "whole", "float", FALSE),
                      MCItem("a", "fraction", "float", TRUE),
                      MCItem("b", "string", None, FALSE),
                      MCItem("c", "whole", "int", FALSE)>>),
    MCMeta(TRUE, 1, <<MCItem("A", "bool", None, FALSE),
                      MCItem("a", "fraction", None, FALSE)>>),
    MCMeta(TRUE, 2, <<>>), MCMeta(FALSE, 1, <<>>)}
MCSpelt == [a |-> <<"a">>, A |-> <<"A">>, b |-> <<"b">>, c |-> <<"c">>,
            config |-> <<"config">>]
MCCapital == [a |-> "A", A |-> "A", b |-> "B", c |-> "C", config |-> "Config"]

(* Icon directories: links to a file and to a link, relative and absolute; *)
(* a link to a directory and one to nothing; links that lead out of it; an *)
(* empty one.                                                               *)
MCFileOf(x) == [type |-> "file", data |-> x]
MCDir       == [type |-> "dir", data |-> None]
MCLink(from, up, path) ==
    [type |-> "link", data |-> [from |-> from, up |-> up, path |-> path]]
MCDirD == (<<"d">> :> MCDir) @@ (<<"d", "x">> :> MCFileOf("1"))
MCSources == {
    MCDirD @@ (<<"y">> :> MCFileOf("2")) @@ (<<"l">> :> MCLink("link", 0, <<"d", "x">>))
           @@ (<<"d", "m">> :> MCLink("link", 1, <<"l">>))
           @@ (<<"n">> :> MCLink("source", 0, <<"d", "x">>)),
    MCDirD @@ (<<"d", "m">> :> MCLink("link", 0, <<"x">>))
           @@ (<<"e">> :> MCLink("link", 0, <<"d">>))
           @@ (<<"b">> :> MCLink("link", 0, <<"z">>)),
    MCDirD @@ (<<"o">> :> MCLink("system", 0, <<"d", "x">>))
           @@ (<<"u">> :> MCLink("system", 0, <<"usr">>)),
    <<>>}

(* A character with two readings and one with one.                         *)
MCDict == ("x" :> <<<<<<"c", 0>>, <<"a", 1>>>>>>)
       @@ ("y" :> <<<<<<"a", 1>>>>, <<<<"a", 2>>>>>>)

Format == INSTANCE DDciFormat WITH tree <- dciTree, Names <- FileNames,
    Bytes <- Octets, MaxBytes <- 1, MaxChildren <- 2
Signals == INSTANCE DFileWatcherSignals WITH Dirs <- WatchedDirs,
    Names <- FileNames, File <- MCFile, MaxChanges <- 3
Entry == INSTANCE DDesktopEntry WITH EntryFiles <- MCEntryFiles, Strings <-
    MCStrings, NewPos <- 1, MaxWrites <- 1
Text == INSTANCE DTextEncoding WITH Encodings <- DOMAIN MCWidth, Utf8 <-
    "utf8", Gb18030 <- "gb", Ascii <- {"ascii"}, Containing <- {<<e, e>> : e
    \in DOMAIN MCWidth}, Chars <- {"x", "han", "cr", "?"}, Garbled <- "?",
    Cr <- "cr", Width <- MCWidth, Bom <- MCBom, Files <- {"f", "g"}, Texts
    <- {<<"han", "cr">>, <<>>}, MaxFound <- 2
Unit == INSTANCE DUnitFormatter WITH Rate <- <<3, 3, 2>>, Scale <- 2,
    MaxValue <- 40
Group == INSTANCE DSettingsGroup WITH Descriptions <- MCDescriptions,
    LookedUp <- MCLookedUp, asked <- lookedUp, answer <- foundThere
Generator == INSTANCE DConfig2Cpp WITH Metas <- MCMetas, Spelt <- MCSpelt,
    Capital <- MCCapital, Used <- {<<"config">>}, WordSize <- 2
Tool == INSTANCE DciTool WITH Names <- {"d", "x", "y", "l", "m", "n", "e",
    "b", "o", "u"}, Sources <- MCSources, System <- {<<"d", "x">>,
    <<"usr">>}, Prefix <- <<"home">>, MaxDepth <- 3
Pinyin == INSTANCE DPinyin WITH Dict <- MCDict, Digit <- "#", Limit <- 6,
    Words <- {<<"z", "y">>, <<"y", "x">>, <<"y", "y", "y", "y">>}

ASSUME MCLibraryAssumption ==
    /\ Format!DDciFormatAssumption
    /\ Signals!DFileWatcherSignalsAssumption
    /\ Entry!DDesktopEntryAssumption
    /\ Text!DTextEncodingAssumption
    /\ Unit!DUnitFormatterAssumption
    /\ Group!DSettingsGroupAssumption
    /\ Generator!DConfig2CppAssumption
    /\ Tool!DciToolAssumption
    /\ Pinyin!DPinyinAssumption

-----------------------------------------------------------------------------
Rest ==
    /\ UNCHANGED active
    /\ active # "settings" => UNCHANGED settingsVars
    /\ active # "tree" => UNCHANGED treeVars
    /\ active # "format" => UNCHANGED formatVars
    /\ active # "engine" => UNCHANGED engineVars
    /\ active # "signals" => UNCHANGED signalsVars
    /\ active # "expected" => UNCHANGED expectedVars
    /\ active # "trash" => UNCHANGED trashVars
    /\ active # "recent" => UNCHANGED recentVars
    /\ active # "cap" => UNCHANGED capVars
    /\ active # "entry" => UNCHANGED entryVars
    /\ active # "hook" => UNCHANGED hookVars
    /\ active # "log" => UNCHANGED logVars
    /\ active # "system" => UNCHANGED systemVars
    /\ active # "text" => UNCHANGED textVars
    /\ active # "unit" => UNCHANGED unitVars
    /\ active # "group" => UNCHANGED groupVars
    /\ active # "license" => UNCHANGED licenseVars
    /\ active # "generator" => UNCHANGED generatorVars
    /\ active # "tool" => UNCHANGED toolVars
    /\ active # "app" => UNCHANGED appVars
    /\ active # "pinyin" => UNCHANGED pinyinVars

(* The rules of the log and its appenders are looked at one at a time.     *)
WithRules == \E c \in Log!Configs : config[c] # "none"

Init ==
    /\ active \in
          {"settings", "tree", "format", "engine", "signals", "expected",
           "trash", "recent", "cap", "entry", "hook", "log", "system",
           "text", "unit", "group", "license", "generator", "tool", "app",
           "pinyin"}
    /\ Settings!Init
    /\ Tree!Init
    /\ Engine!Init
    /\ Signals!Init
    /\ Result!Init
    /\ active # "expected" => traitT = "void" /\ traitE = "noexcept"
    /\ Trash!Init
    /\ Recently!Init
    /\ active # "recent" => xbel = <<>>
    /\ Cap!Init
    /\ active # "cap" => dir = <<"a">>
    /\ Entry!Init
    /\ active # "entry" => /\ entryStatus = "NoError" /\ inFile
                             /\ entryFile = <<>>
    /\ Hook!Init
    /\ Log!Init
    /\ active # "log" => /\ ~underJournal /\ ~home
                           /\ config = [c \in Log!Configs |-> "none"]
    /\ WithRules => ~underJournal /\ ~home
    /\ SysInfo!Init
    /\ active # "system" => /\ osFile = None /\ deepinFile = None
                              /\ releaseFiles = CHOOSE r \in MCReleaseFiles : TRUE
    /\ Text!Init
    /\ Unit!Init
    /\ active # "unit" => asked = [value |-> <<0, 1>>, unit |-> 0]
    /\ Group!Init
    /\ active # "group" => description = None
    /\ License!Init
    /\ Generator!Init
    /\ active # "generator" => meta = CHOOSE m \in MCMetas : TRUE
    /\ Tool!Init
    /\ active # "tool" => source = <<>>
    /\ Pinyin!Init
    /\ App!Init
    /\ active # "app" => environ = "" /\ fallback
    /\ environ # "" => fallback
    /\ Format!Init
    /\ active # "format" => dciTree = <<>>

(* Nothing is claimed of a DCI file two threads have loaded, so that its    *)
(* further changes need not be looked at; after a call that failed only the *)
(* next save that succeeds, or the end of the engines.                      *)
Unspoiled ==
    /\ engineSpoiled => dciDisk' = dciDisk /\ (engineUnsaved' => engineUnsaved)
    /\ engineUnsaved /\ engineUnsaved' =>
          /\ dciDisk' = dciDisk
          /\ \A t \in Threads : dci'[t] \in {dci[t], None}

Next ==
    \/ active = "settings" /\ Rest /\ Settings!Next
    \/ active = "tree" /\ Rest /\ Tree!Next
    \/ active = "format" /\ Rest /\ Format!Next
    \/ active = "engine" /\ Rest /\ Engine!Next /\ Unspoiled
    \/ active = "signals" /\ Rest /\ Signals!Next
    \/ active = "expected" /\ Rest /\ Result!Next
    \/ active = "trash" /\ Rest /\ Trash!Next
    \/ active = "recent" /\ Rest /\ Recently!Next
    \/ active = "cap" /\ Rest /\ Cap!Next
    \/ active = "entry" /\ Rest /\ Entry!Next
    \/ active = "hook" /\ Rest /\ Hook!Next
    \/ active = "log" /\ Rest /\ Log!Next
       /\ (WithRules => UNCHANGED Log!appenderVars)
    \/ active = "system" /\ Rest /\ SysInfo!Next
    \/ active = "text" /\ Rest /\ Text!Next
    \/ active = "unit" /\ Rest /\ Unit!Next
    \/ active = "group" /\ Rest /\ Group!Next
    \/ active = "license" /\ Rest /\ License!Next
    \/ active = "generator" /\ Rest /\ Generator!Next
    \/ active = "tool" /\ Rest /\ Tool!Next
    \/ active = "app" /\ Rest /\ App!Next
    \/ active = "pinyin" /\ Rest /\ Pinyin!Next

Spec == Init /\ [][Next]_<<active, settingsVars, treeVars, formatVars, engineVars,
            signalsVars, expectedVars, trashVars, recentVars, capVars, entryVars,
            hookVars, logVars, systemVars, textVars, unitVars, groupVars,
            licenseVars, generatorVars, toolVars, appVars, pinyinVars>>

-----------------------------------------------------------------------------
(* What is stored in another form says what it said before: DCI files, and  *)
(* desktop entries after changes of them in which no line runs on into the  *)
(* next, read back; directories made DCI files and back; texts in other     *)
(* encodings; amounts in other units, the formatting of which returns; meta *)
(* files made classes, whose marks of keys that were set stay apart;        *)
(* descriptions of settings, parsed and looked up; words made their         *)
(* readings, whichever thread asks.  What each part promises includes its   *)
(* types; the types of a DCI file's tree are here as well.                  *)
RoundTrip ==
    /\ Of("tree", Tree!TypeOK)
    /\ Of("format", Format!RoundTrip)
    /\ Of("entry", Entry!TypeOK /\ Entry!EntryIsKept /\ Entry!StringsAreKept)
    /\ Of("tool", Tool!TypeOK /\ Tool!ExportedIsSource)
    /\ Of("text", Text!TypeOK /\ Text!TextIsKept)
    /\ Of("unit", Unit!TypeOK /\ Unit!AmountIsKept /\ Unit!FormatReturns)
    /\ Of("generator", Generator!TypeOK /\ Generator!HeaderIsMeta /\ Generator!MarksAreApart)
    /\ Of("group", Group!AnswerIsDescribed)
    /\ Of("pinyin", Pinyin!TypeOK /\ Pinyin!ReadingsAreWhole)
(* Listeners of file watchers end up with the right picture.                *)
PictureSettles == Of("signals", Signals!TypeOK /\ Signals!PictureSettles)
=============================================================================
