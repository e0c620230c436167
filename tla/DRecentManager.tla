---------------------------- MODULE DRecentManager ----------------------------
(***************************************************************************)
(* DRecentManager (src/util/drecentmanager.cpp): the list of recently used *)
(* files of a user, one XML file that every program reads, changes and     *)
(* writes back as a whole, without a lock.  Opening it for writing         *)
(* truncates it; what cannot be parsed, like a truncated file, is replaced *)
(* by a new list.                                                          *)
(*                                                                         *)
(* toEncoded always encodes, whatever form it is asked for, so a file has  *)
(* one href; removeItems takes it in both forms.                           *)
(***************************************************************************)
EXTENDS Integers, Sequences, FiniteSets

CONSTANTS
    Programs,
    Recent,    \* files that are or were on the disk
    Apps,      \* names and command lines of applications
    MaxCount,  \* bound: calls of addItem for one file and application
    None

DRecentManagerAssumption ==
    /\ MaxCount \in Nat /\ None \notin Recent
    /\ None \notin Seq([file : Recent, count : [Apps -> Nat]])

VARIABLES
    xbel,      \* the file: a list of bookmarks, or None if it is cut
    program,   \* program[p]: [at, add, drop, doc]
    expected,  \* history: expected[f][a]: how often a has opened f
    overlap    \* history: two calls overlapped and one is still going on

recentVars == <<xbel, program, expected, overlap>>

Bookmark(f, a) == [file |-> f, count |-> [b \in Apps |-> IF a = b THEN 1 ELSE 0]]

(* The list holds applications that have opened the file at least once.    *)
Idle == [at |-> "idle", add |-> <<>>, drop |-> {}, doc |-> <<>>]
Busy == {p \in Programs : program[p].at # "idle"}

Never == [f \in Recent |-> [a \in Apps |-> 0]]

-----------------------------------------------------------------------------
(* addItem: the bookmark of the file, or a new one at the end.             *)
At(doc, f) == {i \in DOMAIN doc : doc[i].file = f}

WithItemSlip(doc, f, a) ==  \* compares the decoded with the encoded name
    Append(doc, Bookmark(f, a))

WithItem(doc, f, a) ==
    IF At(doc, f) = {} THEN Append(doc, Bookmark(f, a))
    ELSE LET i == CHOOSE j \in At(doc, f) : \A k \in At(doc, f) : j <= k
         IN [doc EXCEPT ![i].count[a] = @ + 1]

(* removeItems: every bookmark of a file in the list goes.                 *)
WithoutItems(doc, fs) ==
    LET kept == {i \in DOMAIN doc : doc[i].file \notin fs}
    IN [n \in 1 .. Cardinality(kept) |->
           doc[CHOOSE i \in kept : Cardinality({j \in kept : j <= i}) = n]]

(* The list is read; what a list that does not parse becomes differs.      *)
Start(p, at, add, drop, doc) ==
    /\ program[p].at = "idle"
    /\ program' = [program EXCEPT ![p] = [at |-> at, add |-> add, drop |-> drop, doc |-> doc]]
    /\ overlap' = (overlap \/ Busy # {})
    /\ UNCHANGED <<xbel, expected>>

ReadToAdd(p, f, a) ==
    /\ expected[f][a] < MaxCount
    /\ Start(p, "changed", <<f, a>>, {},
             WithItem(IF xbel = None THEN <<>> ELSE xbel, f, a))

(* A file that cannot be parsed is left alone.                             *)
ReadToRemove(p, fs) ==
    /\ xbel # None
    /\ Start(p, "changed", <<>>, fs, WithoutItems(xbel, fs))

(* Those that have the file open too come to be where the file is now:     *)
(* "over" what another one wrote since they opened it.                     *)
Others(p, from, to, rest) ==
    program' = [q \in Programs |->
                  IF q # p /\ program[q].at = from THEN [program[q] EXCEPT !.at = to]
                  ELSE rest[q]]

(* The file is opened, which cuts it for all that have it open, or cannot  *)
(* be.                                                                     *)
Open(p) ==
    /\ program[p].at = "changed"
    /\ xbel' = None
    /\ Others(p, "over", "open", [program EXCEPT ![p].at = "open"])
    /\ UNCHANGED <<expected, overlap>>

Refused(p) ==
    /\ program[p].at = "changed"
    /\ program' = [program EXCEPT ![p] = Idle]
    /\ overlap' = (overlap /\ Busy # {p})
    /\ expected' = expected
    /\ UNCHANGED xbel

(* What the list holds, for the history.                                   *)
CountsIn(doc) ==
    [f \in Recent |-> [a \in Apps |->
        IF At(doc, f) = {} THEN 0
        ELSE doc[CHOOSE i \in At(doc, f) : TRUE].count[a]]]

(* Sequential calls: what each one does to the counts.                     *)
Effect(counts, call) ==
    IF call.add # <<>> THEN [counts EXCEPT ![call.add[1]][call.add[2]] = @ + 1]
    ELSE [f \in Recent |-> IF f \in call.drop THEN [a \in Apps |-> 0] ELSE counts[f]]

(* A list is written from the beginning of the file: behind it stays what  *)
(* is left of a longer one that was written since the file was opened, and *)
(* the two do not parse.                                                   *)
Write(p) ==
    /\ program[p].at \in {"open", "over"}
    /\ \/ xbel' = program[p].doc
       \/ program[p].at = "over" /\ xbel' = None
    /\ Others(p, "open", "over", [program EXCEPT ![p] = Idle])
    /\ overlap' = (overlap /\ Busy # {p})
    /\ expected' = IF xbel' = None THEN Never
                   ELSE IF overlap THEN CountsIn(xbel') ELSE Effect(expected, program[p])

(* The program ends in between; a file that was cut stays cut.             *)
Crash(p) ==
    /\ program[p].at # "idle"
    /\ program' = [program EXCEPT ![p] = Idle]
    /\ overlap' = (overlap /\ Busy # {p})
    /\ expected' = IF xbel = None THEN Never ELSE IF overlap THEN CountsIn(xbel) ELSE expected
    /\ UNCHANGED xbel

-----------------------------------------------------------------------------
Init ==
    /\ xbel \in {None, <<>>}
    /\ program = [p \in Programs |-> Idle]
    /\ expected = Never
    /\ overlap = FALSE

Next ==
    \E p \in Programs :
        \/ \E f \in Recent, a \in Apps : ReadToAdd(p, f, a)
        \/ \E fs \in SUBSET Recent : ReadToRemove(p, fs)
        \/ Open(p) \/ Refused(p) \/ Write(p) \/ Crash(p)

Spec == Init /\ [][Next]_recentVars

-----------------------------------------------------------------------------
(* The file is a list of bookmarks, each opened by someone.                *)
TypeOK ==
    xbel # None => \A i \in DOMAIN xbel :
        /\ xbel[i].file \in Recent
        /\ \E a \in Apps : xbel[i].count[a] > 0

(* Whatever programs do to the list at the same time, no file is in it     *)
(* twice; and if their calls do not overlap the list says exactly which    *)
(* applications opened which files how often since they were removed       *)
(* (addItem and removeItems, drecentmanager.cpp:62 and :217), also after a *)
(* program ended between cutting and writing the file.                     *)
ListIsExact ==
    xbel # None =>
        /\ \A f \in Recent : \A i, j \in At(xbel, f) : i = j
        /\ Busy = {} /\ ~overlap => CountsIn(xbel) = expected
=============================================================================
