----------------------------- MODULE DDciFormat -----------------------------
(***************************************************************************)
(* The layout of a DCI file (DDciFilePrivate::writeNode and loadDirectory):*)
(* a header, then for every node its meta data and its content, the        *)
(* content of a directory being its children laid out the same way.  The   *)
(* size of a node is known only after its content has been written, so the *)
(* writer leaves room for the meta data and comes back to it.              *)
(***************************************************************************)
EXTENDS Integers, Sequences, SequencesExt

CONSTANTS Names, Bytes, MaxBytes, MaxChildren

DDciFormatAssumption ==
    MaxBytes \in Nat /\ MaxChildren \in Nat /\ Names # {}

VARIABLES
    tree,  \* the children of the root
    data,  \* toData
    read   \* what load makes of it

formatVars == <<tree, data, read>>

(* Meta data takes two cells here: the fields and the rest of the room.    *)
FILE_META_SIZE == 2
Rest == "rest"

Meta(node, size) == <<[type |-> node.type, name |-> node.name, size |-> size], Rest>>

(* Files and directories with at most MaxChildren files, in any order of   *)
(* names.                                                                  *)
Files == [type : {"file"}, name : Names, data : BoundedSeq(Bytes, MaxBytes), children : {<<>>}]
Dirs  == [type : {"dir"}, name : Names, data : {<<>>}, children : BoundedSeq(Files, MaxChildren)]
Links == [type : {"link"}, name : Names, data : BoundedSeq(Bytes, 1) \ {<<>>}, children : {<<>>}]
Trees == BoundedSeq(Files \cup Dirs \cup Links, MaxChildren)

-----------------------------------------------------------------------------
(* A device has content and a position; writing past the end extends it,   *)
(* seeking past it fills the gap.                                          *)
Put(device, cells) ==
    LET end  == device.pos + Len(cells)
        size == IF end > Len(device.cells) THEN end ELSE Len(device.cells)
    IN [cells |-> [i \in 1 .. size |->
                     IF i > device.pos /\ i <= end THEN cells[i - device.pos]
                     ELSE device.cells[i]],
        pos   |-> end]

Seek(device, pos) ==
    IF pos <= Len(device.cells) THEN [device EXCEPT !.pos = pos]
    ELSE [cells |-> device.cells \o [i \in 1 .. pos - Len(device.cells) |-> Rest],
          pos   |-> pos]

RECURSIVE WriteNodes(_, _)
(* A directory's size counts its children without their meta data.         *)
WriteNodeSlip(device, node) ==
    LET start   == device.pos
        content == IF node.type = "dir"
                   THEN WriteNodes(Seek(device, start + FILE_META_SIZE), node.children)
                   ELSE [device |-> Put(Seek(device, start + FILE_META_SIZE), node.data),
                         size   |-> Len(node.data)]
        meta    == Put(Seek(content.device, start),
                       Meta(node, content.size - FILE_META_SIZE * Len(node.children)))
    IN [device |-> Seek(meta, meta.pos + content.size),
        size   |-> FILE_META_SIZE + content.size]

(* writeNode returns the size and leaves the device behind the node.       *)
WriteNode(device, node) ==
    LET start   == device.pos
        content == IF node.type = "dir"
                   THEN WriteNodes(Seek(device, start + FILE_META_SIZE), node.children)
                   ELSE [device |-> Put(Seek(device, start + FILE_META_SIZE), node.data),
                         size   |-> Len(node.data)]
        meta    == Put(Seek(content.device, start), Meta(node, content.size))
    IN [device |-> Seek(meta, meta.pos + content.size),
        size   |-> FILE_META_SIZE + content.size]

WriteNodes(device, nodes) ==
    IF nodes = <<>> THEN [device |-> device, size |-> 0]
    ELSE LET first == WriteNode(device, Head(nodes))
             rest  == WriteNodes(first.device, Tail(nodes))
         IN [device |-> rest.device, size |-> first.size + rest.size]

(* toData makes room from the index of nodes before it writes.             *)
RECURSIVE Room(_)
Room(nodes) ==
    IF nodes = <<>> THEN 0
    ELSE FILE_META_SIZE + Len(Head(nodes).data) + Room(Head(nodes).children) + Room(Tail(nodes))

Header(nodes) == <<Len(nodes)>>

ToData(nodes) ==
    LET room   == [i \in 1 .. Room(nodes) |-> Rest]
        device == [cells |-> Header(nodes) \o room, pos |-> Len(Header(nodes))]
    IN WriteNodes(device, nodes).device.cells

-----------------------------------------------------------------------------
(* loadDirectory: end is the index of the last cell, offset starts at 0.   *)
RECURSIVE LoadDirectory(_, _, _)
LoadDirectory(cells, offset, end) ==
    IF offset >= end THEN [nodes |-> <<>>, offset |-> offset]
    ELSE LET meta == cells[offset + 1]
             body == offset + FILE_META_SIZE
             sub  == IF meta.type = "dir"
                     THEN LoadDirectory(cells, body, body + meta.size - 1)
                     ELSE [nodes |-> <<>>, offset |-> body + meta.size]
             node == [type |-> meta.type, name |-> meta.name,
                      data |-> IF meta.type = "dir" THEN <<>>
                               ELSE SubSeq(cells, body + 1, body + meta.size),
                      children |-> sub.nodes]
             rest == LoadDirectory(cells, sub.offset, end)
         IN [nodes |-> <<node>> \o rest.nodes, offset |-> rest.offset]

Load(cells) == LoadDirectory(cells, 1, Len(cells) - 1).nodes

-----------------------------------------------------------------------------
Init == tree \in Trees /\ data = <<>> /\ read = <<>>

Write == data = <<>> /\ data' = ToData(tree) /\ UNCHANGED <<tree, read>>
Read  == data # <<>> /\ read = <<>> /\ read' = <<Load(data)>> /\ UNCHANGED <<tree, data>>

Next == Write \/ Read

Spec == Init /\ [][Next]_formatVars

-----------------------------------------------------------------------------
(* What is written is read back (toData, ddcifile.cpp:505, then load): the *)
(* same nodes in the same order with the same content; the room made for   *)
(* the data is filled and not exceeded, and the count in the header is     *)
(* right.                                                                  *)
RoundTrip ==
    /\ read # <<>> => read[1] = tree
    /\ data # <<>> => data[1] = Len(tree) /\ Len(data) = 1 + Room(tree)
=============================================================================
