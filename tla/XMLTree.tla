------------------------------- MODULE XMLTree -------------------------------
(***************************************************************************)
(* The result tree of one NLAP message (populateTree and its helpers,      *)
(* lib/xml/xmlparser.cpp).  The tree holds no text: a leaf points at a     *)
(* stretch of the raw message that reads like its text.  The text comes    *)
(* from Xerces, trimmed and with references resolved, and the raw message  *)
(* is searched for it from the end of the leaf before.                     *)
(*                                                                         *)
(* A DOM node is an element [kind, name, kids] or character data           *)
(* [kind, raw]; strings are sequences of symbols.                          *)
(***************************************************************************)
EXTENDS HTTPStrings, SequencesExt

CONSTANTS
  Documents,    \* root elements
  NoDocument

ASSUME TreeAssumption == NoDocument \notin Documents

VARIABLES
  Document,     \* the message parseMessage was given
  OutputTree    \* the node of its root

tree == <<Document, OutputTree>>

\* What the sender writes for a node.
RECURSIVE Raw(_)
Raw(n) ==
  CASE n.kind = "element" ->
         <<"<", n.name, ">">> \o FlattenSeq([k \in DOMAIN n.kids |-> Raw(n.kids[k])])
           \o <<"<", "/", n.name, ">">>
    [] n.kind = "text" -> n.raw
    [] n.kind = "cdata" -> <<"<![CDATA[">> \o n.raw \o <<"]]>">>
    [] n.kind = "comment" -> <<"<!--">> \o n.raw \o <<"-->">>

\* getNodeValue(): Xerces resolves references in text.
NodeValue(n) ==
  IF n.kind = "cdata" THEN n.raw
  ELSE [k \in DOMAIN n.raw |-> IF n.raw[k] = "&lt;" THEN "<" ELSE n.raw[k]]

-----------------------------------------------------------------------------
trimCopy(Value) ==
  LET ink == {k \in DOMAIN Value : Value[k] # " "}
  IN  IF ink = {} THEN <<>> ELSE SubSeq(Value, Min(ink), Max(ink))

getElementText(Element) ==
  LET nodes == SelectSeq(Element.kids, LAMBDA n : n.kind \in {"text", "cdata"})
  IN  trimCopy(FlattenSeq([k \in DOMAIN nodes |-> NodeValue(nodes[k])]))

iterateElementChildren(Parent) ==
  SelectSeq(Parent.kids, LAMBDA n : n.kind = "element")

XMLNode == [Children |-> [name \in {} |-> 0], Address |-> npos, Length |-> 0]

\* Node[Key], which is inserted when it is missing.
ChildOf(Node, Key) ==
  IF Key \in DOMAIN Node.Children THEN Node.Children[Key] ELSE XMLNode

\* Mutant of Locate: the search offset is not advanced.
LocateFromStart(Value, Node, RawMessage, SearchOffset) ==
  LET Found == findFrom(RawMessage, Value, 0)
  IN  IF Value = <<>> \/ Found = npos
      THEN [node |-> Node, offset |-> SearchOffset]
      ELSE [node |-> [Node EXCEPT !.Address = Found, !.Length = Len(Value)],
            offset |-> SearchOffset]

\* Mutant of Locate: text that does not occur behind the offset is given up.
LocateOnce(Value, Node, RawMessage, SearchOffset) ==
  LET Found == findFrom(RawMessage, Value, SearchOffset)
  IN  IF Value = <<>> \/ Found = npos
      THEN [node |-> Node, offset |-> SearchOffset]
      ELSE [node |-> [Node EXCEPT !.Address = Found, !.Length = Len(Value)],
            offset |-> Found + Len(Value)]

\* populateTree for a leaf: the node and the new search offset.
Locate(Value, Node, RawMessage, SearchOffset) ==
  LET Behind == findFrom(RawMessage, Value, SearchOffset)
      Found == IF Behind = npos THEN findFrom(RawMessage, Value, 0) ELSE Behind
  IN  IF Value = <<>> \/ Found = npos
      THEN [node |-> Node, offset |-> SearchOffset]
      ELSE [node |-> [Node EXCEPT !.Address = Found, !.Length = Len(Value)],
            offset |-> Found + Len(Value)]

(***************************************************************************)
(* The loop over the element children, which parseMessage runs for the     *)
(* root and populateTree for every other element.                          *)
(***************************************************************************)
RECURSIVE populateTree(_, _, _, _)
populateChildren(Element, Node, RawMessage, SearchOffset) ==
  FoldLeft(LAMBDA acc, Child :
             LET below == populateTree(Child, ChildOf(acc.node, Child.name),
                                       RawMessage, acc.offset)
             IN  [node |-> [acc.node EXCEPT !.Children =
                              (Child.name :> below.node) @@ @],
                  offset |-> below.offset],
           [node |-> Node, offset |-> SearchOffset],
           iterateElementChildren(Element))

populateTree(Element, Node, RawMessage, SearchOffset) ==
  IF iterateElementChildren(Element) # <<>>
  THEN populateChildren(Element, Node, RawMessage, SearchOffset)
  ELSE Locate(getElementText(Element), Node, RawMessage, SearchOffset)

TreeInit ==
  /\ Document = NoDocument
  /\ OutputTree = XMLNode

\* parseMessage behind the validation.
BuildTree(Root) ==
  /\ Document = NoDocument
  /\ Document' = Root
  /\ OutputTree' = populateChildren(Root, XMLNode, Raw(Root), 0).node

\* The caller drops the result.
DropTree ==
  /\ Document # NoDocument
  /\ Document' = NoDocument
  /\ OutputTree' = XMLNode

-----------------------------------------------------------------------------
\* The elements below e with the path of names that leads to them, in
\* document order.
RECURSIVE Below(_, _)
Below(e, path) ==
  LET kids == iterateElementChildren(e)
  IN  FlattenSeq([k \in DOMAIN kids |->
        LET here == Append(path, kids[k].name)
        IN  <<[path |-> here, element |-> kids[k]]>> \o Below(kids[k], here)])

Leaves(Root) ==
  SelectSeq(Below(Root, <<>>),
            LAMBDA x : iterateElementChildren(x.element) = <<>>)

RECURSIVE NodeAt(_, _)
NodeAt(node, path) ==
  IF path = <<>> THEN node ELSE NodeAt(node.Children[Head(path)], Tail(path))

RECURSIVE NodePaths(_, _)
NodePaths(node, path) ==
  UNION {{Append(path, n)} \cup NodePaths(node.Children[n], Append(path, n)) :
           n \in DOMAIN node.Children}

(***************************************************************************)
(* The tree has the elements of the message and no other node, and the     *)
(* window of a leaf reads exactly its text whenever the raw message holds  *)
(* that text anywhere.  Siblings of one name share a node; the last of     *)
(* them whose text can be found keeps it.                                  *)
(***************************************************************************)
LeavesReadable ==
  Document # NoDocument =>
    LET raw == Raw(Document)
        all == Below(Document, <<>>)
        shown(path) ==
          SelectSeq(Leaves(Document),
            LAMBDA x : /\ x.path = path
                       /\ getElementText(x.element) # <<>>
                       /\ has(raw, getElementText(x.element)))
    IN  /\ NodePaths(OutputTree, <<>>) = {all[k].path : k \in DOMAIN all}
        /\ \A k \in DOMAIN all :
             LET node == NodeAt(OutputTree, all[k].path)
                 texts == shown(all[k].path)
             IN  IF texts = <<>> THEN node.Address = npos
                 ELSE /\ node.Address # npos
                      /\ substr(raw, node.Address, node.Length)
                           = getElementText(Last(texts).element)

(***************************************************************************)
(* The windows of a message stand in the order of its leaves and do not    *)
(* overlap, when its leaves have different paths and none has a text that  *)
(* differs from what was sent (a reference, a comment in the text).        *)
(***************************************************************************)
WindowsInOrder ==
  Document # NoDocument =>
    LET leaves == Leaves(Document)
        node(k) == NodeAt(OutputTree, leaves[k].path)
        verbatim == \A k \in DOMAIN leaves :
                      has(Raw(leaves[k].element), getElementText(leaves[k].element))
        apart == \A i, j \in DOMAIN leaves : i # j => leaves[i].path # leaves[j].path
        windows == {k \in DOMAIN leaves : node(k).Address # npos}
    IN  verbatim /\ apart =>
          \A i, j \in windows :
            i < j => node(i).Address + node(i).Length <= node(j).Address
=============================================================================
