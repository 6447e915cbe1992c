--------------------------- MODULE LayerMetadata ----------------------------
(***************************************************************************)
(* The metadata of a mounted layer: the nodes that metadata.reader makes   *)
(* of the entries of a table of contents (metadata/reader.go, db.go), and  *)
(* what unpacking the same entries gives, to compare them with.            *)
(*                                                                         *)
(* A path is the sequence of its cleaned components, <<>> the root.  A     *)
(* component is <<name>>, or <<".wh.", name>> for a whiteout of name.      *)
(***************************************************************************)
EXTENDS Ztoc, FiniteSets, Functions

NoNode == 0
Dot == <<".">>
IsWhiteout(base) == Len(base) = 2
Whiteout(base) == <<".wh.">> \o base
whiteoutOpaqueDir == <<".wh.", ".wh..opq">>

Nothing == [x \in {} |-> 0]

-----------------------------------------------------------------------------
(* Nodes                                                                   *)

\* An empty node bucket.  What is missing in it reads as zero.
EmptyNode == [type |-> "reg", size |-> 0, numLink |-> 0, first |-> <<>>,
              extra |-> Nothing]

\* The key that a loop over a map of attributes meets first.
FirstKey(xattrs, mapOrder) ==
    mapOrder[SelectInSeq(mapOrder, LAMBDA k : k \in DOMAIN xattrs)]

\* writeNodeEntry: a value that is zero is not written; the first of the
\* extended attributes has a place of its own, of the others those are
\* written that are not empty, over what an earlier entry left.
writeNodeEntry(b, attr, mapOrder) ==
    LET k1 == FirstKey(attr.xattrs, mapOrder)
        others == {k \in DOMAIN attr.xattrs \ {k1} : attr.xattrs[k] # ""}
        plain == [b EXCEPT !.type = attr.type, !.numLink = attr.numLink,
                           !.size = IF attr.size # 0 THEN attr.size ELSE @]
    IN  IF attr.xattrs = Nothing THEN plain
        ELSE [plain EXCEPT !.first = <<k1, attr.xattrs[k1]>>,
                           !.extra = IF others = {} THEN @
                                     ELSE Restrict(attr.xattrs, others)]

\* readNodeEntryToAttr
readNodeEntryToAttr(b) ==
    [type |-> b.type, size |-> b.size, numLink |-> b.numLink,
     xattrs |-> [k \in DOMAIN b.extra \union ({b.first[i] : i \in DOMAIN b.first \ {2}}) |->
                    IF k \in DOMAIN b.extra THEN b.extra[k] ELSE b.first[2]]]

-----------------------------------------------------------------------------
(* initNodes                                                               *)

(* The state of an initialization: the nodes in the transaction, and what  *)
(* lives outside of it: md, the children and the entry of every node, and  *)
(* the counter of IDs.                                                     *)

Child(md, id, base) ==
    IF id \in DOMAIN md /\ base \in DOMAIN md[id].children
    THEN md[id].children[base] ELSE NoNode

getIDByName(md, path, root) ==
    FoldLeft(LAMBDA id, base : IF id = NoNode THEN NoNode ELSE Child(md, id, base),
             root, path)

NoMetadata == [children |-> Nothing, entry |-> 0]

Put(f, x, v) == [y \in DOMAIN f \union {x} |-> IF y = x THEN v ELSE f[y]]

setChild(st, parent, base, id, isDir) ==
    LET old == IF parent \in DOMAIN st.md THEN st.md[parent] ELSE NoMetadata
    IN  [st EXCEPT !.md = Put(@, parent, [old EXCEPT !.children = Put(@, base, id)]),
                   !.nodes[parent].numLink = IF isDir THEN @ + 1 ELSE @]

Failed(st) == [st EXCEPT !.ok = FALSE]

\* nextID and CreateBucket
CreateNode(st, node) ==
    [st EXCEPT !.curID = @ + 1, !.nodes = Put(@, st.curID + 1, node)]

ImplicitDir == [EmptyNode EXCEPT !.type = "dir", !.numLink = 2]

\* initRootNode
initRootNode(st) ==
    [CreateNode([st EXCEPT !.nodes = Nothing], ImplicitDir) EXCEPT !.root = st.curID + 1]

\* getOrCreateDir: the node of a directory, made with its parents if nobody
\* named it yet.
MadeUnder(up, dir, made) ==
    [id |-> made,
     st |-> IF up.st.ok THEN setChild(up.st, up.id, Last(dir), made, TRUE) ELSE up.st]

FoundDir(st, id) ==
    [id |-> id, st |-> IF id \in DOMAIN st.nodes THEN st ELSE Failed(st)]

RECURSIVE getOrCreateDir(_, _)
getOrCreateDir(st, dir) ==
    IF getIDByName(st.md, dir, st.root) # NoNode
    THEN FoundDir(st, getIDByName(st.md, dir, st.root))
    ELSE MadeUnder(getOrCreateDir(CreateNode(st, ImplicitDir), Front(dir)), dir,
                   st.curID + 1)

\* The node of a hard link is the one of its target, with one link more.
LinkNode(st, id) ==
    IF id \in DOMAIN st.nodes
    THEN [id |-> id, st |-> [st EXCEPT !.nodes[id].numLink = @ + 1]]
    ELSE [id |-> NoNode, st |-> Failed(st)]

\* attrFromZtocEntry
attrFromZtocEntry(ent, links) ==
    [type |-> ent.type, size |-> ent.size, numLink |-> links, xattrs |-> ent.xattrs]

\* A directory that has a node already is written over it, every other entry
\* gets a node.
NewNode(st, ent, mapOrder) ==
    [id |-> st.curID + 1,
     st |-> CreateNode(st, writeNodeEntry(EmptyNode,
                attrFromZtocEntry(ent, IF ent.type = "dir" THEN 2 ELSE 1), mapOrder))]

Overwritten(st, id, ent, mapOrder) ==
    IF id \notin DOMAIN st.nodes THEN [id |-> NoNode, st |-> Failed(st)]
    ELSE [id |-> id,
          st |-> [st EXCEPT !.nodes[id] =
                    writeNodeEntry(@, attrFromZtocEntry(ent, @.numLink), mapOrder)]]

Slip_DirsAreNew(st, ent, mapOrder) ==
    IF ent.type = "hardlink" THEN LinkNode(st, getIDByName(st.md, ent.link, st.root))
    ELSE NewNode(st, ent, mapOrder)

EntryNode(st, ent, mapOrder) ==
    IF ent.type = "hardlink" THEN LinkNode(st, getIDByName(st.md, ent.link, st.root))
    ELSE IF ent.type = "dir" /\ getIDByName(st.md, ent.path, st.root) # NoNode
    THEN Overwritten(st, getIDByName(st.md, ent.path, st.root), ent, mapOrder)
    ELSE NewNode(st, ent, mapOrder)

\* The parent of the root is the root, and its name there is ".".
ParentPath(path) == IF path = <<>> THEN <<>> ELSE Front(path)
BaseName(path) == IF path = <<>> THEN Dot ELSE Last(path)

\* One turn of the loop of initNodes, for entry i: its node, its parent, and
\* the node as a child of the parent.
SetEntry(st, id, i) ==
    [st EXCEPT !.md = Put(@, id, [(IF id \in DOMAIN @ THEN @[id] ELSE NoMetadata)
                                    EXCEPT !.entry = i])]

PutInParent(parent, id, ent, i) ==
    LET st == setChild(parent.st, parent.id, BaseName(ent.path), id, ent.type = "dir")
    IN  IF ~parent.st.ok THEN parent.st
        ELSE IF ent.type = "hardlink" THEN st
        ELSE SetEntry(st, id, i)

PutNode(made, ent, i) ==
    IF ~made.st.ok THEN made.st
    ELSE PutInParent(getOrCreateDir(made.st, ParentPath(ent.path)), made.id, ent, i)

initNode(st, ent, i, mapOrder) ==
    IF ~st.ok THEN st ELSE PutNode(EntryNode(st, ent, mapOrder), ent, i)

\* initNodes, for the entries first..last of a chunk
initNodes(st, toc, first, last, mapOrder) ==
    FoldLeft(LAMBDA s, i : initNode(s, toc[i], i, mapOrder), st,
             [i \in 1 .. last - first + 1 |-> first + i - 1])

-----------------------------------------------------------------------------
(* Unpacking                                                               *)

(* What is on disk after the entries were unpacked one after the other: at *)
(* every path a file, known by the entry that made it (0 for a directory   *)
(* that no entry names); not ok if unpacking fails.                        *)

Below(path, tree) == {p \in DOMAIN tree : IsPrefix(path, p)}
ProperPrefixes(path) == {SubSeq(path, 1, n) : n \in 1 .. Len(path) - 1}

Unpacked(entries) ==
    LET isDir(tree, p) == p \notin DOMAIN tree \/ tree[p].type = "dir"
        refused(tree, e) ==
            \/ \E p \in ProperPrefixes(e.path) : ~isDir(tree, p)
            \/ e.path = <<>> /\ e.type # "dir"
            \/ /\ e.type = "hardlink"
               /\ \/ e.link \notin DOMAIN tree
                  \/ tree[e.link].type = "dir"
                  \/ IsPrefix(e.path, e.link)
        apply(tree, i) ==
            LET e == entries[i]
                gone == IF e.type = "dir" /\ isDir(tree, e.path) THEN {}
                        ELSE Below(e.path, tree)
                left == DOMAIN tree \ gone
                file == IF e.type = "hardlink" THEN tree[e.link]
                        ELSE [type |-> e.type, entry |-> i]
                full == [p \in left \union ProperPrefixes(e.path) |->
                            IF p \in left THEN tree[p]
                            ELSE [type |-> "dir", entry |-> 0]]
            IN  Put(full, e.path, file)
    IN  FoldLeft(LAMBDA u, i :
                    IF ~u.ok \/ refused(u.tree, entries[i]) THEN [u EXCEPT !.ok = FALSE]
                    ELSE [u EXCEPT !.tree = apply(@, i)],
                 [ok |-> TRUE, tree |-> [p \in {<<>>} |-> [type |-> "dir", entry |-> 0]]],
                 [i \in DOMAIN entries |-> i])

=============================================================================
