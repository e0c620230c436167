---------------------------- MODULE DTextEncoding ----------------------------
(***************************************************************************)
(* DTextEncoding (src/util/dtextencoding.cpp): texts and files are         *)
(* converted from one encoding to another.  A file is converted in place:  *)
(* it is read, converted, written over and cut to its new size; other      *)
(* programs use the files meanwhile, and any of the steps may fail or be   *)
(* the last one before the program ends.                                   *)
(*                                                                         *)
(* A file is a sequence of cells, each a character in an encoding; bytes   *)
(* are counted, not shown.  iconv converts to the first cell it cannot.    *)
(***************************************************************************)
EXTENDS Integers, Sequences, SequencesExt, FiniteSets, Functions

CONSTANTS
    Encodings,
    Utf8,        \* the encoding taken where none is found
    Gb18030,
    Ascii,       \* other names, which say ASCII
    Containing,  \* pairs of names of which the first contains the second
    Chars,
    Garbled,     \* the character a cell is read as in the wrong encoding
    Cr,          \* the carriage return
    Width,       \* Width[e][c]: bytes of c in e, 0 if e does not have c
    Bom,         \* Bom[e]: bytes iconv puts before a text in e
    Files,
    Texts,       \* bound: what other programs write
    MaxFound,    \* bound: encodings libicu finds
    None

DTextEncodingAssumption ==
    /\ {Utf8, Gb18030} \subseteq Encodings /\ None \notin Encodings \cup Ascii
    /\ Ascii \cap Encodings = {}
    /\ {Garbled, Cr} \subseteq Chars
    /\ Width \in [Encodings -> [Chars -> Nat]] /\ Bom \in [Encodings -> Nat]
    /\ \A c \in Chars : Width[Utf8][c] > 0

VARIABLES
    textFile,  \* textFile[f]: cells, None if there is no such file
    job,       \* the conversion under way: [at, file, out, to]
    meant,     \* history: meant[f]: the text f is to have, None where there is none
    harmed     \* history: files that a failed write, a crash, another program
               \* or a wrong encoding harmed

textVars == <<textFile, job, meant, harmed>>

Idle == [at |-> "idle", file |-> None, out |-> <<>>, text |-> None]

Cells(text, e) == [i \in DOMAIN text |-> <<text[i], e>>]
TextOf(cells)  == [i \in DOMAIN cells |-> cells[i][1]]
Bytes(cells)   == FoldLeft(LAMBDA n, cell : n + Width[cell[2]][cell[1]], 0, cells)
NoCr(text)     == SelectSeq(text, LAMBDA c : c # Cr)

(* QFile with the flag Text drops the bytes of carriage returns; where the *)
(* encoding takes several bytes for one, what follows is no longer read    *)
(* right.                                                                  *)
ReadAll(f) ==
    LET cells == textFile[f]
        Shifted(i) == \E j \in 1 .. i : /\ cells[j][1] = Cr
                                        /\ Width[cells[j][2]][Cr] > 1
    IN SelectSeq([i \in DOMAIN cells |-> IF Shifted(i) THEN <<Garbled, cells[i][2]>> ELSE cells[i]],
                 LAMBDA cell : cell[1] # Cr)

-----------------------------------------------------------------------------
(* selectCharset: icu holds at least one name.  Without a charset it is    *)
(* never called, so that GB18030 is not preferred.                         *)
SelectCharset(charset, icu) ==
    IF charset = None
    THEN IF Gb18030 \in Range(icu) THEN Gb18030 ELSE icu[1]
    ELSE IF <<charset, icu[1]>> \notin Containing /\ <<icu[1], charset>> \in Containing
    THEN icu[1]
    ELSE charset

(* detectTextEncoding, given what libuchardet, libicu and the byte order   *)
(* mark say: None and <<>> where they say nothing or are missing.          *)
DetectTextEncoding(cells, uchardet, icu, mark) ==
    LET found == IF icu = <<>> THEN uchardet
                 ELSE IF uchardet = None THEN icu[1]
                 ELSE SelectCharset(uchardet, icu)
    IN
    IF cells = <<>> THEN Utf8
    ELSE IF found = None THEN (IF mark # None THEN mark ELSE Utf8)
    ELSE IF found \in Ascii THEN Utf8
    ELSE found

Guesses(cells) ==
    {DetectTextEncoding(cells, uchardet, icu, mark) :
        uchardet \in Encodings \cup Ascii \cup {None},
        icu \in UNION {[1 .. k -> Encodings \cup Ascii] : k \in 0 .. MaxFound},
        mark \in Encodings \cup {None}}

(* What iconv reads a cell as: a cell of another encoding may be invalid,  *)
(* or be some other character; characters of one byte are alike in all.    *)
ReadAs(cell, e) ==
    IF cell[2] = e \/ (Width[e][cell[1]] = 1 /\ Width[cell[2]][cell[1]] = 1)
    THEN {cell[1]} ELSE {Garbled, None}

Readings(cells, e) ==
    {read \in [DOMAIN cells -> Chars \cup {None}] :
        \A i \in DOMAIN cells : read[i] \in ReadAs(cells[i], e)}

(* One call of iconv: it stops at the first character that is invalid, or  *)
(* that the encoding does not have, or that there is no room for.  The     *)
(* room is four times the size of the text.                                *)
Iconv(cells, read, to) ==
    LET Good(n) ==
            /\ \A i \in 1 .. n : read[i] # None /\ Width[to][read[i]] > 0
            /\ Bom[to] + Bytes(Cells(SubSeq(read, 1, n), to)) <= 4 * Bytes(cells)
        done == Max({0} \cup {n \in DOMAIN cells : Good(n)})
    IN [ok    |-> done = Len(cells),
        cells |-> Cells(SubSeq(read, 1, done), to),
        right |-> read = TextOf(cells)]

(* convertTextEncodingEx: what it returns and puts out, and whether it     *)
(* read the text right.  With equal encodings it puts nothing out.         *)
ConvertTextEncoding(cells, to, from) ==
    IF cells = <<>> \/ from = to THEN {[ok |-> TRUE, cells |-> <<>>, right |-> TRUE]}
    ELSE IF to = None THEN {[ok |-> FALSE, cells |-> <<>>, right |-> TRUE]}
    ELSE UNION {{Iconv(cells, read, to) : read \in Readings(cells, e)} :
                   e \in IF from = None THEN Guesses(cells) ELSE {from}}

-----------------------------------------------------------------------------
(* What was read is the text that is meant.                                *)
Sound(f) == f \notin harmed /\ TextOf(ReadAll(f)) = NoCr(meant[f])

Start(at, f, out, text) == job' = [at |-> at, file |-> f, out |-> out, text |-> text]
Return == job' = Idle

Harm(f, harm) == harmed' = IF harm THEN harmed \cup {f} ELSE harmed

(* convertFileEncoding.  Opening makes a file that is not there.  What is  *)
(* harmed is not converted again: a bound.                                 *)
ConvertFileEncoding(f, to, from) ==
    /\ job.at = "idle" /\ from # to /\ f \notin harmed
    /\ IF textFile[f] = None
       THEN /\ textFile' = [textFile EXCEPT ![f] = <<>>]
            /\ meant' = [meant EXCEPT ![f] = <<>>]
            /\ UNCHANGED <<job, harmed>>
       ELSE /\ \E out \in ConvertTextEncoding(ReadAll(f), to, from) :
                  IF out.ok
                  THEN /\ Start("write", f, out.cells, NoCr(meant[f]))
                       /\ Harm(f, ~(out.right /\ Sound(f)))
                  ELSE UNCHANGED <<job, harmed>>
            /\ UNCHANGED <<textFile, meant>>

(* seek, write: what the new text does not cover stays until the file is   *)
(* cut.  A write that fails leaves the file with some of both.             *)
Over(cells, old) ==
    IF Bytes(cells) < Bytes(old) THEN Append(cells, <<Garbled, Utf8>>) ELSE cells

Write ==
    LET f == job.file IN
    /\ job.at = "write"
    /\ \/ /\ textFile' = [textFile EXCEPT ![f] = Over(job.out, @)]
          /\ UNCHANGED harmed
       \/ \E n \in 0 .. Len(job.out) - 1 :
             /\ textFile' = [textFile EXCEPT ![f] = Over(SubSeq(job.out, 1, n), @)]
             /\ Harm(f, TRUE)
    /\ job' = [job EXCEPT !.at = "cut"]
    /\ UNCHANGED meant

(* resize.                                                                 *)
Cut ==
    /\ job.at = "cut"
    /\ textFile' = [textFile EXCEPT ![job.file] =
                      SubSeq(@, 1, Min({Len(@), Len(job.out)}))]
    /\ meant' = [meant EXCEPT ![job.file] = job.text]
    /\ Return
    /\ UNCHANGED harmed

(* convertFileEncodingTo: opening empties the other file, or makes it.     *)
OpenTo(f, g, to, from) ==
    /\ job.at = "idle" /\ from # to /\ f # g /\ f \notin harmed
    /\ textFile[f] # None
    /\ textFile' = [textFile EXCEPT ![g] = <<>>]
    /\ \E out \in ConvertTextEncoding(ReadAll(f), to, from) :
          /\ Start(IF out.ok THEN "fill" ELSE "remove", g, out.cells, NoCr(meant[f]))
          /\ harmed' = IF out.right /\ Sound(f) THEN harmed \ {g} ELSE harmed \cup {g}
    /\ meant' = [meant EXCEPT ![g] = <<>>]

(* A conversion that fails takes the other file away.                      *)
RemoveTo ==
    /\ job.at = "remove"
    /\ textFile' = [textFile EXCEPT ![job.file] = None]
    /\ meant' = [meant EXCEPT ![job.file] = None]
    /\ Return
    /\ Harm(job.file, FALSE)

FillTo ==
    /\ job.at = "fill"
    /\ \/ /\ textFile' = [textFile EXCEPT ![job.file] = Over(job.out, @)]
          /\ UNCHANGED harmed
       \/ \E n \in 0 .. Len(job.out) - 1 :
             /\ textFile' = [textFile EXCEPT ![job.file] = Over(SubSeq(job.out, 1, n), @)]
             /\ Harm(job.file, TRUE)
    /\ meant' = [meant EXCEPT ![job.file] = job.text]
    /\ Return

(* Another program saves a file; who has it open does not notice.          *)
Save(f, text, e) ==
    /\ \A i \in DOMAIN text : Width[e][text[i]] > 0
    /\ textFile' = [textFile EXCEPT ![f] = Cells(text, e)]
    /\ meant' = [meant EXCEPT ![f] = text]
    /\ harmed' = IF job.file = f THEN harmed \cup {f} ELSE harmed \ {f}
    /\ UNCHANGED job

(* The program ends.                                                       *)
Crash ==
    /\ job.at # "idle"
    /\ Harm(job.file, job.at # "write")
    /\ Return
    /\ UNCHANGED <<textFile, meant>>

-----------------------------------------------------------------------------
Init ==
    /\ textFile = [f \in Files |-> None]
    /\ meant = [f \in Files |-> None]
    /\ job = Idle /\ harmed = {}

Next ==
    \/ \E f \in Files, to \in Encodings, from \in Encodings \cup {None} :
          \/ ConvertFileEncoding(f, to, from)
          \/ \E g \in Files : OpenTo(f, g, to, from)
    \/ Write \/ Cut \/ RemoveTo \/ FillTo \/ Crash
    \/ \E f \in Files, text \in Texts, e \in Encodings : Save(f, text, e)

Spec == Init /\ [][Next]_textVars

-----------------------------------------------------------------------------
(* Files hold characters in encodings that have them.                      *)
TypeOK ==
    \A f \in Files : textFile[f] # None =>
        \A i \in DOMAIN textFile[f] :
            LET cell == textFile[f][i] IN Width[cell[2]][cell[1]] > 0

(* No conversion of a file, done or refused, in place or to another file,  *)
(* changes what the file says, but for its carriage returns                *)
(* (convertFileEncoding, dtextencoding.cpp:381, convertFileEncodingTo,     *)
(* :418): whatever is saved between its steps and whatever was left of     *)
(* earlier conversions, unless a write failed, the program ended in the    *)
(* middle, the encoding was named or found wrong, or has carriage returns  *)
(* of several bytes.                                                       *)
TextIsKept ==
    \A f \in Files : f \notin harmed /\ job.file # f =>
        IF textFile[f] = None THEN meant[f] = None
        ELSE meant[f] # None /\ TextOf(textFile[f]) = meant[f]
=============================================================================
