------------------------------ MODULE DDciFile ------------------------------
(***************************************************************************)
(* DDciFile (src/dci): a small file system inside one file.  Nodes form a  *)
(* tree; an index from paths to nodes is kept beside it, and every         *)
(* operation finds its nodes through the index.                            *)
(*                                                                         *)
(* The build modelled has its assertions on; a failed one, an access to a  *)
(* deleted node and a recursion without end stop the program (fatal).      *)
(* Not modelled: the order of siblings, limits of names, relative links,   *)
(* and the bytes of the file (DDciFormat).                                 *)
(***************************************************************************)
EXTENDS Integers, FiniteSets, Sequences, Functions

CONSTANTS
    Names,     \* file names
    Contents,  \* contents of files
    MaxDepth,  \* bound: longest path
    Linked,    \* bound: paths that links name
    MaxNodes,  \* bound: nodes beside the root
    MaxWild,   \* bound: calls after the first that the index misses
    None

DDciFileAssumption ==
    /\ MaxDepth \in Nat /\ MaxNodes \in Nat /\ MaxWild \in Nat \ {0}
    /\ Linked \subseteq Seq(Names)
    /\ None \notin Contents \cup 0 .. MaxNodes

VARIABLES
    node,   \* node[n]: the live nodes
    index,  \* pathToNode
    fatal,  \* why the program stopped
    wild    \* history: calls since the first the index was not kept up for

vars == <<node, index, fatal, wild>>

SeqUpTo(S, n) == UNION {[1 .. k -> S] : k \in 0 .. n}

Root  == 0
Ids   == 0 .. MaxNodes
Paths == SeqUpTo(Names, MaxDepth)

(* QFileInfo::path; the root is its own directory.                         *)
Dir(p) == SubSeq(p, 1, Len(p) - 1)

-----------------------------------------------------------------------------
(* The tree.                                                               *)
Children(t, n) == {m \in DOMAIN t : t[m].parent = n}

(* The ways from the root to nodes, each the nodes on it.                  *)
Ways(t) ==
    {w \in SeqUpTo(DOMAIN t \ {Root}, MaxNodes) :
        \A i \in DOMAIN w : t[w[i]].parent = IF i = 1 THEN Root ELSE w[i - 1]}
EndOf(w)    == IF w = <<>> THEN Root ELSE w[Len(w)]
WayTo(t, n) == CHOOSE w \in Ways(t) : EndOf(w) = n

Below(t, n) == {m \in DOMAIN t : n = Root \/ n \in Range(WayTo(t, m))}

(* Node::path, by way of the parents.                                      *)
PathOf(t, n) == [i \in DOMAIN WayTo(t, n) |-> t[WayTo(t, n)[i]].name]

Node(name, parent, type, data) ==
    [name |-> name, parent |-> parent, type |-> type, data |-> data]

Has(p)    == p \in DOMAIN index
Live(p)   == Has(p) /\ index[p] \in DOMAIN node
IsDir(p)  == Live(p) /\ node[index[p]].type = "dir"
IsLink(p) == Live(p) /\ node[index[p]].type = "link"

(* An index entry can outlive its node.                                    *)
Stale(p) == Has(p) /\ ~Live(p)

Stop(why) == fatal' = why /\ UNCHANGED <<node, index, wild>>

(* A call after which the index is the tree if it was, or is not.          *)
Kept(whole) == wild' = IF wild = 0 /\ whole THEN 0 ELSE wild + 1

Grown(f, x, y) == [z \in DOMAIN f \cup {x} |-> IF z = x THEN y ELSE f[z]]

Unused == Ids \ (DOMAIN node \cup Range(index))
New    == CHOOSE n \in Unused : \A m \in Unused : n <= m

-----------------------------------------------------------------------------
(* mkNode does not enter the node into the index.                          *)
MkNodeSlip(p, type, data) ==
    [node  |-> Grown(node, New, Node(p[Len(p)], index[Dir(p)], type, data)),
     index |-> index]

(* mkNode: the new node is indexed under the path its parents give it.     *)
MkNode(p, type, data) ==
    LET n == New
        t == Grown(node, n, Node(p[Len(p)], index[Dir(p)], type, data))
    IN [node |-> t, index |-> Grown(index, PathOf(t, n), n)]

CanMake(p) ==
    /\ p # <<>> /\ ~Has(p)
    /\ IsDir(Dir(p))
    /\ Unused # {}

Install(s) ==
    /\ node' = s.node /\ index' = s.index
    /\ Kept(TRUE)
    /\ UNCHANGED fatal

Mkdir(p) == CanMake(p) /\ Install(MkNode(p, "dir", None))

Link(source, p) ==
    /\ source # p /\ CanMake(p)
    /\ Install(MkNode(p, "link", source))

(* symlinkTarget, which writeFile follows when it may overwrite: None if   *)
(* links lead back to themselves.                                          *)
Links == {p \in DOMAIN index : IsLink(p)}
Named(p) == node[index[p]].data
Chains(p) ==
    {c \in SeqUpTo(Links, Cardinality(Links)) :
        \A i \in DOMAIN c : c[i] = IF i = 1 THEN p ELSE Named(c[i - 1])}
Target(p) ==
    LET ends == {IF c = <<>> THEN p ELSE Named(c[Len(c)]) : c \in Chains(p)} \ Links
    IN IF ends = {} THEN None ELSE CHOOSE q \in ends : TRUE

WriteNew(p, data) == CanMake(p) /\ Install(MkNode(p, "file", data))

WriteOver(p, data) ==
    LET target == Target(p) IN
    /\ Live(p)
    /\ \/ /\ target = None
          /\ Stop("endless")
       \/ /\ target # None /\ Live(target)
          /\ node[index[target]].type = "file"
          /\ node' = [node EXCEPT ![index[target]].data = data]
          /\ Kept(TRUE)
          /\ UNCHANGED <<index, fatal>>

(* removeNode for each node in ns: it and its children leave the index,    *)
(* all below it is deleted.                                                *)
RemoveNodes(ns) ==
    LET unlisted == ns \cup UNION {Children(node, n) : n \in ns}
        deleted  == UNION {Below(node, n) : n \in ns}
        keys     == {PathOf(node, n) : n \in unlisted}
    IN IF \E n \in unlisted : ~Has(PathOf(node, n)) \/ index[PathOf(node, n)] # n
       THEN Stop("assertion")
       ELSE /\ node' = Restrict(node, DOMAIN node \ deleted)
            /\ index' = Restrict(index, DOMAIN index \ keys)
            /\ Kept(deleted = unlisted)
            /\ UNCHANGED fatal

(* All children of the root are removed in a loop over the list they are   *)
(* taken out of: from the third on, a deleted one may be come upon.        *)
RemoveFile(p) ==
    /\ Live(p)
    /\ \/ RemoveNodes(IF index[p] = Root THEN Children(node, Root) ELSE {index[p]})
       \/ /\ index[p] = Root /\ Cardinality(Children(node, Root)) > 2
          /\ Stop("undefined")

(* rename takes both entries out of the index before it knows that it can  *)
(* go on; the entries of what is below either node stay as they are.       *)
Rename(p, q, override) ==
    LET over  == override /\ Has(q)
        rest  == Restrict(index, DOMAIN index \ (IF over THEN {p, q} ELSE {p}))
        n     == index[p]
        into  == rest[Dir(q)]
        moved == [node EXCEPT ![n].name = q[Len(q)], ![n].parent = into]
        gone  == IF over THEN Below(moved, index[q]) ELSE {}
    IN
    /\ p # q
    /\ override \/ ~Has(q)
    /\ \/ /\ ~Has(p) \/ Dir(q) \notin DOMAIN rest
          /\ index' = IF Has(p) THEN rest ELSE Restrict(index, DOMAIN index \ {q})
          /\ Kept(index' = index)
          /\ UNCHANGED <<node, fatal>>
       \/ /\ Has(p) /\ Dir(q) \in DOMAIN rest
          /\ IF n = Root \/ Stale(p) \/ Stale(Dir(q)) \/ (over /\ Stale(q))
             THEN Stop("undefined")
             ELSE IF into \in Below(node, n)
             THEN Stop("endless")
             ELSE IF \/ PathOf(moved, n) # q
                     \/ over /\ node[index[q]].parent # into
             THEN Stop("assertion")
             ELSE /\ node' = Restrict(moved, DOMAIN node \ gone)
                  /\ index' = Grown(rest, q, n)
                  /\ Kept(/\ Children(node, n) = {}
                          /\ over => Children(node, index[q]) = {})
                  /\ UNCHANGED fatal

(* copyNode: the copy does not contain itself.                             *)
Copy(p, q) ==
    LET made  == MkNode(q, node[index[p]].type, node[index[p]].data)
        below == Below(node, index[p]) \ {index[p]}
        twins == Injection(below, Unused \ {New})
        twin  == CHOOSE f \in twins : TRUE
        Twin(n) == IF n = index[p] THEN New ELSE twin[n]
        t     == [m \in DOMAIN made.node \cup Range(twin) |->
                    IF m \in DOMAIN made.node THEN made.node[m]
                    ELSE LET n == CHOOSE x \in below : twin[x] = m
                         IN [node[n] EXCEPT !.parent = Twin(node[n].parent)]]
        paths == {PathOf(t, m) : m \in Range(twin)}
    IN
    /\ Live(p) /\ CanMake(q)
    /\ twins # {}
    /\ Install([node  |-> t,
                index |-> [x \in DOMAIN made.index \cup paths |->
                             IF x \in paths THEN CHOOSE m \in Range(twin) : PathOf(t, m) = x
                             ELSE made.index[x]]])

(* Every operation begins with a look at its node.                         *)
Touch(p) == Stale(p) /\ Stop("undefined")

-----------------------------------------------------------------------------
Init ==
    /\ node = [n \in {Root} |-> Node("", None, "dir", None)]
    /\ index = [p \in {<<>>} |-> Root]
    /\ fatal = "" /\ wild = 0

Next ==
    /\ fatal = "" /\ wild < MaxWild
    /\ \E p \in Paths :
          \/ Mkdir(p)
          \/ RemoveFile(p)
          \/ Touch(p)
          \/ \E data \in Contents : WriteNew(p, data) \/ WriteOver(p, data)
          \/ \E source \in Linked : Link(source, p)
          \/ \E q \in Paths :
                \/ Copy(p, q)
                \/ \E override \in BOOLEAN : Rename(p, q, override)

Spec == Init /\ [][Next]_vars

-----------------------------------------------------------------------------
(* The nodes have parents; the index names nodes, live or deleted.         *)
TypeOK ==
    /\ DOMAIN node \subseteq Ids /\ Root \in DOMAIN node
    /\ \A n \in DOMAIN node \ {Root} :
          /\ node[n].parent \in DOMAIN node
          /\ node[n].name \in Names
          /\ node[n].data \in Contents \cup Linked \cup {None}
    /\ Range(index) \subseteq Ids

(* The index is the tree (pathToNode, ddcifile.cpp): every node is found   *)
(* at the path its parents give it and nowhere else, and no two have the   *)
(* same path, through any number of copies, moves between directories,     *)
(* overwrites and removals, as long as no call was one of those that do    *)
(* not look after the whole subtree (rename of a directory with content,   *)
(* removal of one with grandchildren, a rename that failed).               *)
IndexIsTree ==
    wild = 0 /\ fatal = "" =>
        /\ \A n \in DOMAIN node : Live(PathOf(node, n)) /\ index[PathOf(node, n)] = n
        /\ Cardinality(DOMAIN index) = Cardinality(DOMAIN node)

(* The assertions of removeNode (ddcifile.cpp:305) and rename hold: what   *)
(* is found in the index under a node's path is the node.                  *)
AssertionsHold == fatal # "assertion"
=============================================================================
