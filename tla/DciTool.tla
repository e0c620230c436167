------------------------------ MODULE DciTool ------------------------------
(***************************************************************************)
(* The tool dci (tools/dci/main.cpp): --create makes a DCI file of a       *)
(* directory, --export makes a directory of a DCI file again.  Links to    *)
(* files become links inside the DCI file, links to directories become     *)
(* directories; links are exported last, each relative to where it is.     *)
(*                                                                         *)
(* Any write may fail and the tool may be stopped; the source may be       *)
(* changed between its runs.                                               *)
(***************************************************************************)
EXTENDS Integers, Sequences, SequencesExt, Functions

CONSTANTS
    Names,
    Sources,  \* source directories: path -> [type, data]
    System,   \* paths of files outside the source
    Prefix,   \* where the source directory is
    MaxDepth, \* bound: links and directories that are followed
    None

(* The target of a link is absolute, with the path from "source" (inside   *)
(* the source directory) or from "system", or relative: some steps up and  *)
(* a path.                                                                 *)
DciToolAssumption ==
    \A s \in Sources : \A p \in DOMAIN s :
        /\ p \in Seq(Names) /\ p # <<>>
        /\ Front(p) = <<>> \/ Front(p) \in DOMAIN s
        /\ s[p].type \in {"dir", "file", "link"}
        /\ s[p].type = "link" => s[p].data.from \in {"source", "system", "link"}

VARIABLES
    source,   \* the source directory
    dciFile,  \* the DCI file, None if there is none
    target,   \* the exported directory, None if there is none
    tool,     \* the run of the tool: [at, given, pathMap]
    made,     \* history: the source the DCI file was made of
    exported  \* history: the export was reported to be done

toolVars == <<source, dciFile, target, tool, made, exported>>

NoRun == [at |-> "idle", pathMap |-> {}]

-----------------------------------------------------------------------------
(* QDir::cleanPath of an absolute path.                                    *)
Up(dir, n) == SubSeq(dir, 1, IF n > Len(dir) THEN 0 ELSE Len(dir) - n)

(* Where a link in a directory of a tree leads: a path of the tree, or     *)
(* None if it leads out of it.                                             *)
Destination(dir, data) ==
    IF data.from = "system" THEN None
    ELSE IF data.from = "source" THEN data.path
    ELSE IF data.up > Len(dir) THEN None
    ELSE Up(dir, data.up) \o data.path

(* The path of a tree without links, None if there is nothing or it is     *)
(* outside.                                                                *)
RECURSIVE Real(_, _, _)
Real(t, p, depth) ==
    IF p = <<>> THEN p
    ELSE LET dir == Real(t, Front(p), depth) IN
         IF dir = None \/ Append(dir, Last(p)) \notin DOMAIN t THEN None
         ELSE LET q == Append(dir, Last(p)) IN
              IF t[q].type # "link" THEN q
              ELSE IF depth = 0 \/ Destination(dir, t[q].data) = None THEN None
              ELSE Real(t, Destination(dir, t[q].data), depth - 1)

IsDir(t, p) == Real(t, p, MaxDepth) # None
                /\ (Real(t, p, MaxDepth) = <<>> \/ t[Real(t, p, MaxDepth)].type = "dir")
Children(t, dir) == {p \in DOMAIN t : Front(p) = dir}

(* Links to files outside are not broken.                                  *)
LeadsOut(t, p) == t[p].type = "link" /\ t[p].data.from = "system"
                     /\ t[p].data.path \in System

-----------------------------------------------------------------------------
(* getSymLinkTarget: the source directory is cut from absolute targets, if *)
(* it was given as an absolute path.                                       *)
GetSymLinkTarget(data, given) ==
    IF data.from = "source" /\ given = "relative"
    THEN [from |-> "source", path |-> Prefix \o data.path]
    ELSE IF data.from = "system" THEN [from |-> "source", path |-> data.path]
    ELSE data

(* copyFilesToDci, for what is at `at` in the DCI file.                    *)
RECURSIVE CopyFilesToDci(_, _, _, _)
CopyFilesToDci(s, at, dir, given) ==
    UNION {LET to == Append(at, Last(p)) IN
           IF IsDir(s, p) THEN {<<to, [type |-> "dir", data |-> None]>>}
                               \cup CopyFilesToDci(s, to, Real(s, p, MaxDepth), given)
           ELSE IF s[p].type = "link"
           THEN (IF Real(s, p, MaxDepth) # None \/ LeadsOut(s, p)
                 THEN {<<to, [type |-> "link", data |-> GetSymLinkTarget(s[p].data, given)]>>}
                 ELSE {})
           ELSE {<<to, s[p]>>} :
           p \in Children(s, dir)}

AsTree(pairs) == [p \in {pair[1] : pair \in pairs} |->
                     (CHOOSE pair \in pairs : pair[1] = p)[2]]

(* createTo: nothing is there yet; the file is put in its place whole, or  *)
(* not at all.                                                             *)
CreateTo(given) ==
    /\ tool.at = "idle" /\ dciFile = None
    /\ \/ /\ dciFile' = AsTree(CopyFilesToDci(source, <<>>, <<>>, given))
          /\ made' = source
       \/ UNCHANGED <<dciFile, made>>
    /\ UNCHANGED <<source, target, tool, exported>>

-----------------------------------------------------------------------------
(* exportTo, up to the directory it makes.                                 *)
ExportTo ==
    /\ tool.at = "idle" /\ dciFile # None /\ target = None
    /\ target' = <<>>
    /\ tool' = [at |-> "copy", pathMap |-> {}]
    /\ UNCHANGED <<source, dciFile, made, exported>>

Fail == tool' = NoRun

(* copyFilesFromDci: parents come first.  A file that fails is there,      *)
(* empty.                                                                  *)
CopyFromDci(p) ==
    /\ tool.at = "copy" /\ p \in DOMAIN dciFile \ tool.pathMap
    /\ Front(p) = <<>> \/ Front(p) \in tool.pathMap
    /\ LET copied == [tool EXCEPT !.pathMap = @ \cup {p}] IN
       \/ /\ target' = IF dciFile[p].type = "link" THEN target
                       ELSE target @@ [q \in {p} |-> dciFile[p]]
          /\ tool' = copied
       \/ /\ dciFile[p].type # "link" /\ Fail
          /\ target' = IF dciFile[p].type = "dir" THEN target
                       ELSE target @@ [q \in {p} |-> [type |-> "file", data |-> None]]
    /\ UNCHANGED <<source, dciFile, made, exported>>

StartLinks ==
    /\ tool.at = "copy" /\ tool.pathMap = DOMAIN dciFile
    /\ tool' = [tool EXCEPT !.at = "link"]
    /\ UNCHANGED <<source, dciFile, target, made, exported>>

(* symlinkTarget, absoluteFilePath, cleanPath: what goes up beyond the     *)
(* root stays there.                                                       *)
AbsoluteTarget(p) ==
    LET data == dciFile[p].data IN
    IF data.from = "link" THEN Up(Front(p), data.up) \o data.path ELSE data.path

LinksLeft == {p \in DOMAIN dciFile : dciFile[p].type = "link"} \ DOMAIN target

(* relativeFilePath.                                                       *)
RelativeFilePath(dir, p) ==
    LET same == CHOOSE n \in 0 .. Len(dir) :
                    /\ IsPrefix(SubSeq(dir, 1, n), p)
                    /\ n = Len(dir) \/ ~IsPrefix(SubSeq(dir, 1, n + 1), p)
    IN [from |-> "link", up |-> Len(dir) - same, path |-> SubSeq(p, same + 1, Len(p))]

(* A target that is not in the DCI file has no path, and the link fails.   *)
LinkToRealSource(p) ==
    /\ tool.at = "link" /\ p \in LinksLeft
    /\ \/ /\ AbsoluteTarget(p) \in tool.pathMap
          /\ target' = target @@ [q \in {p} |-> [type |-> "link",
                          data |-> RelativeFilePath(Front(p), AbsoluteTarget(p))]]
          /\ UNCHANGED tool
       \/ Fail /\ UNCHANGED target
    /\ UNCHANGED <<source, dciFile, made, exported>>

Exported ==
    /\ tool.at = "link" /\ LinksLeft = {}
    /\ tool' = NoRun /\ exported' = TRUE
    /\ UNCHANGED <<source, dciFile, target, made>>

-----------------------------------------------------------------------------
Kill ==
    /\ tool.at # "idle" /\ Fail
    /\ UNCHANGED <<source, dciFile, target, made, exported>>

Edit(s) ==
    /\ source' = s
    /\ UNCHANGED <<dciFile, target, tool, made, exported>>

(* Somebody removes what was made, to have it made anew.                   *)
RemoveDci ==
    /\ tool.at = "idle" /\ dciFile # None /\ target = None
    /\ dciFile' = None /\ made' = None
    /\ UNCHANGED <<source, target, tool, exported>>

RemoveTarget ==
    /\ tool.at = "idle" /\ target # None
    /\ target' = None /\ exported' = FALSE
    /\ UNCHANGED <<source, dciFile, tool, made>>

Init ==
    /\ source \in Sources
    /\ dciFile = None /\ target = None
    /\ tool = NoRun
    /\ made = None /\ exported = FALSE

Next ==
    \/ \E given \in {"absolute", "relative"} : CreateTo(given)
    \/ ExportTo
    \/ dciFile # None /\ \E p \in DOMAIN dciFile : CopyFromDci(p) \/ LinkToRealSource(p)
    \/ StartLinks \/ Exported \/ Kill
    \/ \E s \in Sources : Edit(s)
    \/ RemoveDci \/ RemoveTarget

Spec == Init /\ [][Next]_toolVars

-----------------------------------------------------------------------------
TypeOK ==
    /\ tool.at \in {"idle", "copy", "link"}
    /\ tool.at # "idle" => tool.pathMap \subseteq DOMAIN dciFile /\ target # None
    /\ exported => target # None

(* What is at a path: the content of a file, "dir", None if nothing.       *)
Shown(t, p) ==
    LET q == Real(t, p, MaxDepth) IN
    IF q = None THEN None ELSE IF t[q].type = "dir" THEN "dir" ELSE t[q].data

(* Links that lead out of the source, and relative ones below links to     *)
(* directories, which come to another place.                               *)
Displaced(s, p) ==
    \/ LeadsOut(s, p)
    \/ s[p].type = "link" /\ s[p].data.from = "link"
          /\ \E q \in DOMAIN s : s[q].type = "link" /\ IsDir(s, q)

(* An export that is reported to be done (tools/dci/main.cpp:113) shows    *)
(* under every path what the source showed there when the DCI file was     *)
(* made (:60), the content of files and what links lead to, whatever       *)
(* failed before and whatever became of the source since; what leads out   *)
(* of the source and what is broken excepted.                              *)
ExportedIsSource ==
    exported =>
        /\ \A p \in DOMAIN made :
              Displaced(made, p) \/ Shown(target, p) = Shown(made, p)
        /\ \A p \in DOMAIN target : Front(p) = <<>> \/ Front(p) \in DOMAIN target
=============================================================================
