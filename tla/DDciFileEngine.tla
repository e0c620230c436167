--------------------------- MODULE DDciFileEngine ---------------------------
(***************************************************************************)
(* DDciFileEngine (src/dci/private): QFile on the files inside one DCI     *)
(* file.  The engines of a thread share a DDciFile, which lives as long as *)
(* one of them; every change made through an engine is followed by a save  *)
(* of the whole file, and content written to an open file is saved when it *)
(* is flushed or closed.  A save may fail: nothing is opened, or nothing   *)
(* or not everything is written after the real file was truncated.         *)
(*                                                                         *)
(* The DDciFile is the map from its files to their content, with one       *)
(* directory some of them are in.                                          *)
(***************************************************************************)
EXTENDS Integers, FiniteSets, Functions

CONSTANTS
    Engines,
    Threads,
    Subs,      \* files inside the DCI file
    Inside,    \* those that are in the directory
    Texts,     \* contents; Blank is that of a new file
    Blank,
    None

DciFiles == [dir : BOOLEAN, files : UNION {[S -> Texts] : S \in SUBSET Subs}, cut : BOOLEAN]

DDciFileEngineAssumption ==
    /\ Inside \subseteq Subs /\ Blank \in Texts
    /\ None \notin Threads \cup DciFiles

VARIABLES
    disk,     \* what the real file holds: a DDciFile, or Cut
    dci,      \* dci[t]: the thread's shared DDciFile, None if it has none
    engine,   \* engine[e]: [thread, sub, mode, text], the text of the buffer if one is open;
              \* thread None if there is no engine
    spoiled,  \* history: a second thread had it loaded
    unsaved   \* history: a call failed since the last save, after it changed something

engineVars == <<disk, dci, engine, spoiled, unsaved>>

Cut   == [dir |-> FALSE, files |-> <<>>, cut |-> TRUE]
Empty == [dir |-> FALSE, files |-> <<>>, cut |-> FALSE]

NoEngine == [thread |-> None, sub |-> None, mode |-> "closed", text |-> Blank]

(* Modes: "closed" without a buffer; "stuck" is closed with the real file  *)
(* left open by an open that failed.                                       *)
File(e)     == dci[engine[e].thread]
Exists(f, s) == s \in DOMAIN f.files
CanHold(f, s) == s \in Inside => f.dir
Running(e) == engine[e].thread # None

Becomes(e, mode, text) ==
    engine' = [engine EXCEPT ![e] = [engine[e] EXCEPT !.mode = mode, !.text = text]]

With(f, s, text) ==
    [f EXCEPT !.files = [x \in DOMAIN f.files \cup {s} |-> IF x = s THEN text ELSE f.files[x]]]
Without(f, s) == [f EXCEPT !.files = Restrict(f.files, DOMAIN f.files \ {s})]

-----------------------------------------------------------------------------
(* setFileName and getDciFile: the first engine of a thread loads the      *)
(* file; no engine is made for an invalid one.                             *)
Create(e, t, s) ==
    /\ ~Running(e)
    /\ dci[t] # None \/ ~disk.cut
    /\ dci' = [dci EXCEPT ![t] = IF @ = None THEN disk ELSE @]
    /\ engine' = [engine EXCEPT ![e] = [NoEngine EXCEPT !.thread = t, !.sub = s]]
    /\ spoiled' = \/ \E u \in Threads \ {t} : dci[u] # None
                  \/ dci[t] # None /\ spoiled
    /\ unsaved' = (dci[t] # None /\ unsaved)
    /\ UNCHANGED disk

(* forceSave opens and thereby truncates the real file, flushToFile writes *)
(* the new content: the DDciFile has changed whether or not they succeed.  *)
Save(t, f) ==
    /\ dci' = [dci EXCEPT ![t] = f]
    /\ \/ disk' = f /\ unsaved' = FALSE
       \/ disk' \in {disk, Cut} /\ unsaved' = TRUE

(* open: a write-only open truncates the real file at once; a file that    *)
(* does not exist is made, if its directory exists.                        *)
OpenRead(e) ==
    /\ Running(e) /\ engine[e].mode \in {"closed", "stuck"}
    /\ Exists(File(e), engine[e].sub)
    /\ Becomes(e, IF engine[e].mode = "stuck" THEN "stuckread" ELSE "read",
               File(e).files[engine[e].sub])
    /\ UNCHANGED <<disk, dci, spoiled, unsaved>>

OpenWrite(e, truncate) ==
    LET s == engine[e].sub
        f == File(e)
    IN
    /\ Running(e) /\ engine[e].mode = "closed"
    /\ disk' = IF truncate THEN Cut ELSE disk
    /\ IF Exists(f, s) \/ CanHold(f, s)
       THEN LET g == IF Exists(f, s) THEN f ELSE With(f, s, Blank) IN
            /\ dci' = [dci EXCEPT ![engine[e].thread] = g]
            /\ Becomes(e, "write", g.files[s])
            /\ UNCHANGED unsaved
       ELSE /\ Becomes(e, "stuck", Blank)
            /\ unsaved' = (unsaved \/ truncate)
            /\ UNCHANGED dci
    /\ UNCHANGED spoiled

Write(e, text) ==
    /\ engine[e].mode = "write"
    /\ Becomes(e, "write", text)
    /\ UNCHANGED <<disk, dci, spoiled, unsaved>>

(* flush, for a real file that is open: the text goes into the DDciFile    *)
(* and all of it into the real file, which is left as it is, perhaps       *)
(* truncated, if the file can not be made again.                           *)
Flushed(e) ==
    LET s == engine[e].sub
        f == File(e)
    IN IF Exists(f, s) \/ CanHold(f, s) THEN Save(engine[e].thread, With(f, s, engine[e].text))
       ELSE unsaved' = (unsaved \/ disk.cut) /\ UNCHANGED <<disk, dci>>

Flush(e) ==
    /\ engine[e].mode = "write"
    /\ Flushed(e)
    /\ UNCHANGED <<engine, spoiled>>

(* Closing does not flush.                                                 *)
CloseSlip(e) ==
    /\ engine[e].mode \in {"read", "stuckread", "write"}
    /\ Becomes(e, "closed", Blank)
    /\ UNCHANGED <<disk, dci, spoiled, unsaved>>

Close(e) ==
    /\ engine[e].mode \in {"read", "stuckread", "write"}
    /\ IF engine[e].mode = "read" THEN UNCHANGED <<disk, dci, unsaved>> ELSE Flushed(e)
    /\ Becomes(e, "closed", Blank)
    /\ UNCHANGED spoiled

(* remove, rename, renameOverwrite, copy, link, mkdir, rmdir: a change of  *)
(* the DDciFile, then forceSave.                                           *)
Changes(f, s) ==
    {Without(f, s) : x \in {x \in {s} : Exists(f, x)}}
    \cup {With(Without(f, s), to, f.files[s]) :
             to \in {to \in Subs \ {s} : Exists(f, s) /\ CanHold(f, to)}}
    \cup {With(f, to, f.files[s]) :
             to \in {to \in Subs : Exists(f, s) /\ ~Exists(f, to) /\ CanHold(f, to)}}
    \cup {[f EXCEPT !.dir = TRUE] : x \in {x \in {TRUE} : ~f.dir}}
    \cup {[f EXCEPT !.dir = FALSE, !.files = Restrict(f.files, DOMAIN f.files \ Inside)] :
             x \in {x \in {TRUE} : f.dir}}

Change(e) ==
    /\ Running(e)
    /\ \E f \in Changes(File(e), engine[e].sub) : Save(engine[e].thread, f)
    /\ UNCHANGED <<engine, spoiled>>

(* mkdir with its parents and rmdir with the parents left empty: when the  *)
(* next directory can not be made or removed they return without saving.   *)
ChangeHalf(e) ==
    /\ Running(e)
    /\ dci' = [dci EXCEPT ![engine[e].thread].dir = ~@,
                          ![engine[e].thread].files = Restrict(@, DOMAIN @ \ Inside)]
    /\ unsaved' = TRUE
    /\ UNCHANGED <<disk, engine, spoiled>>

(* setSize of a file that is not open saves at once, unless the real file  *)
(* can not be opened: it is truncated before the content is known to find  *)
(* a place.                                                                *)
SetSize(e, text) ==
    LET s == engine[e].sub
        f == File(e)
    IN
    /\ Running(e) /\ engine[e].mode \in {"closed", "stuck"}
    /\ \/ UNCHANGED <<disk, dci, unsaved>>
       \/ IF Exists(f, s) \/ CanHold(f, s)
          THEN Save(engine[e].thread, With(f, s, text))
          ELSE disk' = Cut /\ unsaved' = TRUE /\ UNCHANGED dci
    /\ UNCHANGED <<engine, spoiled>>

(* Whichever engine ends first takes the DDciFile of the thread with it.   *)
DestroySlip(e) ==
    /\ Running(e) /\ engine[e].mode \in {"closed", "stuck"}
    /\ engine' = [engine EXCEPT ![e] = NoEngine]
    /\ dci' = [dci EXCEPT ![engine[e].thread] = None]
    /\ UNCHANGED <<disk, spoiled, unsaved>>

(* The destructor closes; the last engine of a thread takes the DDciFile   *)
(* with it.                                                                *)
Destroy(e) ==
    LET t == engine[e].thread IN
    /\ Running(e) /\ engine[e].mode \in {"closed", "stuck"}
    /\ engine' = [engine EXCEPT ![e] = NoEngine]
    /\ dci' = [dci EXCEPT ![t] =
                 IF \E o \in Engines \ {e} : engine[o].thread = t THEN @ ELSE None]
    /\ UNCHANGED <<disk, spoiled, unsaved>>

(* The program ends, perhaps between truncation and writing.               *)
Crash ==
    /\ disk' \in {disk} \cup (IF \E e \in Engines : Running(e) THEN {Cut} ELSE {})
    /\ dci' = [t \in Threads |-> None]
    /\ engine' = [e \in Engines |-> NoEngine]
    /\ spoiled' = FALSE /\ unsaved' = FALSE

(* Someone puts a new file in the place of a broken one.                   *)
Replace ==
    /\ disk.cut /\ \A t \in Threads : dci[t] = None
    /\ disk' = Empty
    /\ UNCHANGED <<dci, engine, spoiled, unsaved>>

-----------------------------------------------------------------------------
Init ==
    /\ disk = Empty
    /\ dci = [t \in Threads |-> None]
    /\ engine = [e \in Engines |-> NoEngine]
    /\ spoiled = FALSE /\ unsaved = FALSE

Next ==
    \/ \E e \in Engines :
          \/ \E t \in Threads, s \in Subs : Create(e, t, s)
          \/ OpenRead(e) \/ Flush(e) \/ Close(e) \/ Change(e) \/ ChangeHalf(e)
          \/ Destroy(e)
          \/ \E truncate \in BOOLEAN : OpenWrite(e, truncate)
          \/ \E text \in Texts : Write(e, text) \/ SetSize(e, text)
    \/ Crash
    \/ Replace

Spec == Init /\ [][Next]_engineVars

-----------------------------------------------------------------------------
IsDci(f) ==
    /\ f.dir \in BOOLEAN /\ f.cut \in BOOLEAN
    /\ DOMAIN f.files \subseteq Subs
    /\ \A s \in DOMAIN f.files : f.files[s] \in Texts /\ CanHold(f, s)

(* Files are in directories that exist; a thread has a DDciFile exactly    *)
(* while it has engines.                                                   *)
TypeOK ==
    /\ IsDci(disk)
    /\ \A t \in Threads :
          IF dci[t] = None THEN \A e \in Engines : engine[e].thread # t
          ELSE IsDci(dci[t]) /\ ~dci[t].cut /\ \E e \in Engines : engine[e].thread = t
    /\ \A e \in Engines :
          engine[e].mode \in {"closed", "stuck", "stuckread", "read", "write"}

(* The real file holds what the engines show (flushToFile and forceSave,   *)
(* ddcifileengine.cpp:281 and 662): whenever no file inside is open for    *)
(* writing and no call has failed half way since the last save, the        *)
(* DDciFile of the only thread that uses it has been saved, whatever the   *)
(* engines of the thread did to each other's files.  One save that         *)
(* succeeds makes up for all that failed before it.                        *)
DiskIsFile ==
    \A t \in Threads :
        /\ dci[t] # None
        /\ ~spoiled /\ ~unsaved
        /\ \A e \in Engines : engine[e].mode # "write"
        => disk = dci[t]
=============================================================================
