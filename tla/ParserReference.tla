-------------------------- MODULE ParserReference --------------------------
(***************************************************************************)
(* What Fdt, the devicetree parser, is compared with: trees that are       *)
(* written out as blobs, and what a reader of the tree itself would say of *)
(* it. The definitions are recursive, so they are for TLC only.            *)
(***************************************************************************)
EXTENDS Platform
LOCAL INSTANCE SequencesExt

CONSTANT Paths          \* the paths that find is asked for

\* The tree that a blob stands for: [name, props, kids], a property being
\* [name, data]. Its structure block, with a NOP after every item or none.
RECURSIVE Serialise(_, _)
Serialise(tree, nop) ==
  LET pad == IF nop THEN <<FDT_NOP>> ELSE <<>>
      name == IF HasUnit(tree.name) THEN <<tree.name, 0>> ELSE <<tree.name>>
      props == [i \in DOMAIN tree.props |->
                 <<FDT_PROP, Len(tree.props[i].data), tree.props[i].name>>
                   \o tree.props[i].data \o pad]
      kids == [i \in DOMAIN tree.kids |-> Serialise(tree.kids[i], nop)]
  IN  <<FDT_BEGIN_NODE>> \o name \o pad \o FlattenSeq(props)
        \o FlattenSeq(kids) \o <<FDT_END_NODE>> \o pad

\* A blob whose header leaves out the last cells of the structure block, and
\* whose totalsize leaves out the last cells of all.
Blob(tree, nop, cut, lost) ==
  LET cells == Serialise(tree, nop) \o <<FDT_END>>
  IN  [tree |-> tree, whole |-> cut = 0 /\ lost = 0,
       cells |-> <<0>> \o cells, magic |-> TRUE,
       totalsize |-> 1 + Len(cells) - lost,
       off_dt_struct |-> 1, size_dt_struct |-> Len(cells) - cut]

\* What can be asked of a node: of the tree, and of the blob.
Data(tree, name) ==
  LET hits == SelectSeq(tree.props, LAMBDA q : q.name = name)
  IN  IF hits = <<>> THEN None ELSE Some(hits[1].data)

RECURSIVE OfTree(_)
OfTree(tree) ==
  [name |-> tree.name,
   compatible |-> Data(tree, COMPATIBLE), reg |-> Data(tree, REG),
   kids |-> [i \in DOMAIN tree.kids |-> OfTree(tree.kids[i])]]

RECURSIVE OfBlob(_, _)
OfBlob(b, node) ==
  LET kids == children(b, node)
  IN  [name |-> full_name(b, node),
       compatible |-> prop(b, node, COMPATIBLE), reg |-> prop(b, node, REG),
       kids |-> [i \in DOMAIN kids |-> OfBlob(b, kids[i])]]

RECURSIVE Preorder(_)
Preorder(said) ==
  <<said>> \o FlattenSeq([i \in DOMAIN said.kids |-> Preorder(said.kids[i])])

RECURSIVE Along(_, _)
Along(said, path) ==
  IF path = <<>> THEN Some(said)
  ELSE LET hits == SelectSeq(said.kids, LAMBDA k :
                     path[1] \in {k.name} \cup (IF HasUnit(k.name) THEN {Bare(k.name)} ELSE {}))
       IN  IF hits = <<>> THEN None ELSE Along(hits[1], Tail(path))

First(said) ==
  IF said.compatible = None \/ said.compatible[1] = <<>> THEN 0 ELSE said.compatible[1][1]

\* The parser reads back the tree that was written, whatever NOPs are in it:
\* every property, every child in order and at any depth, every path with and
\* without its unit address, and the first node of each compatible name.
ReadsBack(b, paths) ==
  LET said == OfTree(b.tree)
      found(node) == IF node = None THEN None ELSE Some(OfBlob(b, node[1]))
  IN  /\ Fdtr_new(b)
      /\ found(root(b)) = Some(said)
      /\ \A path \in paths : found(find(b, path)) = Along(said, path)
      /\ \A name \in {PL011, S5L_UART, APPLE_AIC, SIMPLE_FB} :
           LET hits == SelectSeq(Preorder(said), LAMBDA k : First(k) = name)
           IN  found(find_by_compatible(b, name)) =
                 IF hits = <<>> THEN None ELSE Some(hits[1])

\* One reading says no more than another.
RECURSIVE Within(_, _)
Within(part, said) ==
  /\ part.name = said.name
  /\ part.compatible \in {None, said.compatible}
  /\ part.reg \in {None, said.reg}
  /\ Len(part.kids) <= Len(said.kids)
  /\ \A i \in DOMAIN part.kids : Within(part.kids[i], said.kids[i])

\* From a blob that is cut short the parser reads less, but nothing that the
\* tree does not say; and it always ends.
InventsNothing(b) ==
  Fdtr_new(b) /\ root(b) # None => Within(OfBlob(b, root(b)[1]), OfTree(b.tree))

----------------------------------------------------------------------------
\* The parser reads back every whole devicetree that the boot hands over,
\* whatever NOPs are in it: fdt.rs on what find, prop and children return.
ParserReadsBack == stage = "parse" /\ blob.whole => ReadsBack(blob, Paths)

\* From one that is cut short, in the header's size of the structure block or
\* at the end of the blob, it reads nothing that the tree does not say.
ParserInventsNothing == stage = "parse" => InventsNothing(blob)
=============================================================================
