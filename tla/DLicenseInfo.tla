---------------------------- MODULE DLicenseInfo ----------------------------
(***************************************************************************)
(* DLicenseInfo (src/dlicenseinfo.cpp): the components an application is   *)
(* made of, as a file lists them, and the texts of their licenses, which   *)
(* lie in several directories.  Packages put files there and take them     *)
(* away, also between two steps of a load.                                 *)
(***************************************************************************)
EXTENDS Integers, Sequences

CONSTANTS
    Contents,  \* what files hold: [array, items]; items are components, Bad where one is bad
    Bad,
    DataDirs,  \* the directories of the system: 1 .. DataDirs, the first comes first
    Licenses,
    None

DLicenseInfoAssumption ==
    /\ DataDirs \in Nat \ {0}
    /\ \A c \in Contents : c.array \in BOOLEAN /\ c.items \in Seq({c.items[i] : i \in DOMAIN c.items})
    /\ None \notin Contents /\ None \notin Licenses

(* Where texts may be: in the directory somebody set, and in each          *)
(* directory of the system among custom and among other licenses.          *)
Own    == <<0, "own">>
Places == {Own} \cup ((1 .. DataDirs) \X {"custom", "system"})

VARIABLES
    credits,        \* credits[d]: the list in the directory d, None if there is none
    texts,          \* texts[<<place, license>>]: whether the text is there
    searchPath,     \* licenseSearchPath is set
    componentInfos, \* the components
    found,          \* the directory whose list loadFile is about to open, None if no load
    loaded,         \* what was loaded last: [content, ok], None before
    search          \* the search for a text: [license, left, set, passed, text]

licenseVars == <<credits, texts, searchPath, componentInfos, found, loaded, search>>

NoSearch == [license |-> None, left |-> <<>>, set |-> FALSE, passed |-> {}, text |-> None]

-----------------------------------------------------------------------------
(* loadContent: what is no array leaves what there is; a bad item ends the *)
(* load, and what came before it stays.                                    *)
LoadInto(content) ==
    LET bad   == {i \in DOMAIN content.items : content.items[i] = Bad}
        whole == {k \in 0 .. Len(content.items) : (1 .. k) \cap bad = {}}
    IN /\ componentInfos' = IF content.array
                           THEN SubSeq(content.items, 1, CHOOSE k \in whole : \A j \in whole : j <= k)
                           ELSE componentInfos
       /\ loaded' = [content |-> content, ok |-> content.array /\ bad = {}]

LoadContent(content) ==
    /\ found = None
    /\ LoadInto(content)
    /\ UNCHANGED <<credits, texts, searchPath, found, search>>

(* loadFile clears, and looks for the first of the system's lists.         *)
LoadFile ==
    LET there == {d \in DOMAIN credits : credits[d] # None} IN
    /\ found = None
    /\ componentInfos' = <<>>
    /\ found' = IF there = {} THEN None ELSE CHOOSE d \in there : \A e \in there : d <= e
    /\ loaded' = [content |-> None, ok |-> FALSE]
    /\ UNCHANGED <<credits, texts, searchPath, search>>

OpenFile ==
    /\ found # None
    /\ IF credits[found] = None
       THEN loaded' = [content |-> None, ok |-> FALSE] /\ UNCHANGED componentInfos
       ELSE LoadInto(credits[found])
    /\ found' = None
    /\ UNCHANGED <<credits, texts, searchPath, search>>

-----------------------------------------------------------------------------
(* licenseContent: the directory somebody set, then the system's in their  *)
(* order, custom licenses first; each is tried in turn.                    *)
SearchDirs ==
    (IF searchPath THEN <<Own>> ELSE <<>>)
    \o [k \in 1 .. 2 * DataDirs |->
           <<(k + 1) \div 2, IF k % 2 = 1 THEN "custom" ELSE "system">>]

LicenseContent(l) ==
    /\ search.left = <<>>
    /\ search' = [license |-> l, left |-> SearchDirs, set |-> searchPath, passed |-> {},
                  text |-> None]
    /\ UNCHANGED <<credits, texts, searchPath, componentInfos, found, loaded>>

TryDir ==
    LET p == Head(search.left) IN
    /\ search.left # <<>>
    /\ search' = IF texts[<<p, search.license>>]
                 THEN [search EXCEPT !.text = p, !.left = <<>>]
                 ELSE [search EXCEPT !.passed = @ \cup {p}, !.left = Tail(@)]
    /\ UNCHANGED <<credits, texts, searchPath, componentInfos, found, loaded>>

SetLicenseSearchPath(on) ==
    /\ searchPath' = on /\ search.left = <<>>
    /\ UNCHANGED <<credits, texts, componentInfos, found, loaded, search>>

(* Packages.                                                               *)
Install ==
    /\ \/ \E d \in DOMAIN credits, c \in Contents \cup {None} :
             credits' = [credits EXCEPT ![d] = c] /\ UNCHANGED texts
       \/ \E t \in DOMAIN texts : texts' = [texts EXCEPT ![t] = ~@] /\ UNCHANGED credits
    /\ UNCHANGED <<searchPath, componentInfos, found, loaded, search>>

Init ==
    /\ credits = [d \in 1 .. DataDirs |-> None]
    /\ texts = [t \in Places \X Licenses |-> FALSE]
    /\ searchPath = FALSE /\ componentInfos = <<>>
    /\ found = None /\ loaded = None /\ search = NoSearch

Next ==
    \/ \E c \in Contents : LoadContent(c)
    \/ LoadFile \/ OpenFile \/ TryDir \/ Install
    \/ \E l \in Licenses : LicenseContent(l)
    \/ \E on \in BOOLEAN : SetLicenseSearchPath(on)

Spec == Init /\ [][Next]_licenseVars

-----------------------------------------------------------------------------
(* A load that returns true (dlicenseinfo.cpp:98, :119) leaves exactly the *)
(* components of its file, whatever was loaded and failed before.  Of a    *)
(* license that was set a text is shown in preference to those of the      *)
(* system, and a custom one in preference to the other (:159): what is     *)
(* passed over was not there when it was tried.                            *)
ListIsOneFiles ==
    /\ loaded # None /\ loaded.ok => componentInfos = loaded.content.items
    /\ search.text # None =>
           /\ search.set => search.text = Own \/ Own \in search.passed
           /\ search.text # Own => \A d \in 1 .. search.text[1] :
                 <<d, "custom">> \in search.passed \cup {search.text}
=============================================================================
