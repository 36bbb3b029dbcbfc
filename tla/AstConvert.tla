------------------------------ MODULE AstConvert ------------------------------
(***************************************************************************)
(* The tree-to-graph converter of src/tool/ast2dot.py: AstConvertHandler,  *)
(* a xml.sax ContentHandler that is also a DotWriter, driven by the push   *)
(* events the expat reader delivers for one document.                      *)
(*                                                                         *)
(* The handler state (elem_stack, elem_count, contents, indent_level) is   *)
(* kept as in the code.  The text the DotWriter writes is kept as a        *)
(* sequence of lines, one record per write call sequence that ends in a    *)
(* line feed.  The parser is the environment: it produces the events of a  *)
(* well-formed document (one root element, character data only inside     *)
(* elements, end tags matching start tags) or aborts on malformed input.  *)
(* Ghost variables record what the parser delivered so that properties     *)
(* can relate the output to the document.                                  *)
(***************************************************************************)
EXTENDS Integers, Sequences, FiniteSets, TLC

CONSTANTS
  NodeTags,   \* tags whose first character is upper case: tag[0].isupper()
  AttrTags,   \* all other tags
  Locations,  \* values the optional 'location' attribute can take
  NoLoc,      \* the start tag has no 'location' attribute
  Texts,      \* character-data chunks that are not all whitespace
  Blank,      \* a chunk of whitespace only: strip() makes it ''
  MaxElems,   \* bound on the number of elements of a document
  MaxChunks   \* bound on the number of character-data events

ASSUME /\ NodeTags \cap AttrTags = {}
       /\ NoLoc \notin Locations
       /\ Blank \notin Texts
       /\ MaxElems \in Nat \ {0}
       /\ MaxChunks \in Nat

Tags == NodeTags \cup AttrTags
Chunks == Texts \cup {Blank}

VARIABLES
  \* AstConvertHandler / DotWriter state
  elem_stack,    \* list[XmlElemInfo]: records [type, name]
  elem_count,    \* the id counter shared by both element types
  contents,      \* list[str]: stripped non-empty chunks not yet emitted
  indent_level,  \* DotWriter indentation
  out,           \* the lines written to the output stream
  \* the xml.sax parser (environment) and ghost history
  phase,         \* "before", "inDoc", "after", "aborted" (parse exception)
                 \* or "assertFailed" (the assert of endDocument raised)
  xmlOpen,       \* ordinals of the elements the parser has open
  parents,       \* parents[k]: ordinal of the parent of element k (0: none)
  received       \* <<chunk, ordinal of the innermost open element>> per event

handler == <<elem_stack, elem_count, contents, indent_level, out>>
parser == <<phase, xmlOpen, parents, received>>
vars == <<handler, parser>>

-----------------------------------------------------------------------------
(* Values written by the handler.                                          *)

RootName == "AST"

\* XmlElemType.Node if tag[0].isupper() else XmlElemType.Attr
ElemType(tag) == IF tag \in NodeTags THEN "Node" ELSE "Attr"

\* type.name[0] + str(self.elem_count)
ElemId(type, n) == (IF type = "Node" THEN "N" ELSE "A") \o ToString(n)

\* '"' + tag + '\\n(' + location + ')"' if 'location' in attrs else tag:
\* the tag, and the location when there is one (loc = NoLoc otherwise).
ElemLabel(tag, loc) == [tag |-> tag, loc |-> loc]

\* quote_string(' '.join(contents)): json.dumps of the fragments joined
\* by single spaces; the fragments themselves stand for the joined text.
TextLabel(frags) == [text |-> frags]

\* content.strip()
Strip(c) == IF c = Blank THEN "" ELSE c

-----------------------------------------------------------------------------
(* DotWriter: one line per call, at the current indentation.               *)

DeclareNode(name, label, shape) ==
  [op |-> "node", indent |-> indent_level, id |-> name,
   label |-> label, shape |-> shape]

PutEdge(from, to) ==
  [op |-> "edge", indent |-> indent_level, from |-> from, to |-> to]

\* start_graph prints at the indentation it then increments; end_graph
\* decrements first and prints at the new indentation.
StartGraph == [op |-> "open", indent |-> indent_level]
EndGraph == [op |-> "close", indent |-> indent_level - 1]

-----------------------------------------------------------------------------
(* Plausible slips in the handler, each a variant of one action below; the *)
(* checks of this module must tell every one of them from the code.        *)

\* characters without its 'if content:' test
Characters_NoEmptyCheck(c) ==
  /\ phase = "inDoc"
  /\ xmlOpen # <<>>
  /\ Len(received) < MaxChunks
  /\ contents' = Append(contents, Strip(c))
  /\ received' = Append(received, <<c, xmlOpen[Len(xmlOpen)]>>)
  /\ UNCHANGED <<elem_stack, elem_count, indent_level, out, phase,
                 xmlOpen, parents>>

\* startElement writing the edge before the node it points to
StartElement_EdgeFirst(tag, loc) ==
  /\ phase = "inDoc"
  /\ xmlOpen # <<>> \/ parents = <<>>
  /\ Len(parents) < MaxElems
  /\ LET parent_elem == elem_stack[Len(elem_stack)]
         elem_type == ElemType(tag)
         elem_name == ElemId(elem_type, elem_count)
         shape == IF elem_type = "Node" THEN "box" ELSE "none"
     IN /\ elem_count' = elem_count + 1
        /\ elem_stack' = Append(elem_stack,
                                [type |-> elem_type, name |-> elem_name])
        /\ out' = out \o << PutEdge(parent_elem.name, elem_name),
                            DeclareNode(elem_name, ElemLabel(tag, loc), shape) >>
  /\ parents' = Append(parents,
                       IF xmlOpen = <<>> THEN 0 ELSE xmlOpen[Len(xmlOpen)])
  /\ xmlOpen' = Append(xmlOpen, Len(parents) + 1)
  /\ UNCHANGED <<contents, indent_level, phase, received>>

\* startElement reading its parent from the stack after the push
StartElement_ParentAfterPush(tag, loc) ==
  /\ phase = "inDoc"
  /\ xmlOpen # <<>> \/ parents = <<>>
  /\ Len(parents) < MaxElems
  /\ LET elem_type == ElemType(tag)
         elem_name == ElemId(elem_type, elem_count)
         pushed == Append(elem_stack, [type |-> elem_type, name |-> elem_name])
         parent_elem == pushed[Len(pushed)]
         shape == IF elem_type = "Node" THEN "box" ELSE "none"
     IN /\ elem_count' = elem_count + 1
        /\ elem_stack' = pushed
        /\ out' = out \o << DeclareNode(elem_name, ElemLabel(tag, loc), shape),
                            PutEdge(parent_elem.name, elem_name) >>
  /\ parents' = Append(parents,
                       IF xmlOpen = <<>> THEN 0 ELSE xmlOpen[Len(xmlOpen)])
  /\ xmlOpen' = Append(xmlOpen, Len(parents) + 1)
  /\ UNCHANGED <<contents, indent_level, phase, received>>

\* endElement with the given leaf allocation, clearing and popping
EndElementVariant(advance, clear, popAlways) ==
  /\ phase = "inDoc"
  /\ xmlOpen # <<>>
  /\ LET this_elem == elem_stack[Len(elem_stack)]
         leaf == ElemId("Node", elem_count)
     IN IF contents # <<>>
        THEN /\ elem_count' = elem_count + advance
             /\ out' = out \o
                  << DeclareNode(leaf, TextLabel(contents), "underline"),
                     PutEdge(this_elem.name, leaf) >>
             /\ contents' = IF clear THEN <<>> ELSE contents
             /\ elem_stack' = SubSeq(elem_stack, 1, Len(elem_stack) - 1)
        ELSE /\ UNCHANGED <<elem_count, out, contents>>
             /\ elem_stack' = IF popAlways
                              THEN SubSeq(elem_stack, 1, Len(elem_stack) - 1)
                              ELSE elem_stack
  /\ xmlOpen' = SubSeq(xmlOpen, 1, Len(xmlOpen) - 1)
  /\ UNCHANGED <<indent_level, phase, parents, received>>

\* endElement not advancing elem_count for the text leaf
EndElement_NoLeafIncrement == EndElementVariant(0, TRUE, TRUE)
\* endElement without self.contents.clear()
EndElement_NoClear == EndElementVariant(1, FALSE, TRUE)
\* endElement popping only inside the 'if self.contents:' block
EndElement_PopInLeafBranch == EndElementVariant(1, TRUE, FALSE)

-----------------------------------------------------------------------------
(* AstConvertHandler.__init__                                              *)

Init ==
  /\ elem_stack = <<>>
  /\ elem_count = 0
  /\ contents = <<>>
  /\ indent_level = 0
  /\ out = <<>>
  /\ phase = "before"
  /\ xmlOpen = <<>>
  /\ parents = <<>>
  /\ received = <<>>

\* startDocument: push the synthetic root, start_graph('AST') (indent
\* printed before it is incremented), declare the root node.
StartDocument ==
  /\ phase = "before"
  /\ phase' = "inDoc"
  /\ elem_stack' = <<[type |-> "Node", name |-> RootName]>>
  /\ indent_level' = indent_level + 1
  /\ out' = out \o
       << StartGraph,
          [op |-> "node", indent |-> indent_level + 1, id |-> RootName,
           label |-> ElemLabel(RootName, NoLoc), shape |-> "doubleoctagon"] >>
  /\ UNCHANGED <<elem_count, contents, xmlOpen, parents, received>>

\* startElement: read the parent before pushing, allocate the id, push,
\* declare the node with its label and shape, link it to the parent.
StartElement(tag, loc) ==
  /\ phase = "inDoc"
  /\ xmlOpen # <<>> \/ parents = <<>>          \* one root element only
  /\ Len(parents) < MaxElems
  /\ LET parent_elem == elem_stack[Len(elem_stack)]
         elem_type == ElemType(tag)
         elem_name == ElemId(elem_type, elem_count)
         shape == IF elem_type = "Node" THEN "box" ELSE "none"
     IN /\ elem_count' = elem_count + 1
        /\ elem_stack' = Append(elem_stack,
                                [type |-> elem_type, name |-> elem_name])
        /\ out' = out \o << DeclareNode(elem_name, ElemLabel(tag, loc), shape),
                            PutEdge(parent_elem.name, elem_name) >>
  /\ parents' = Append(parents,
                       IF xmlOpen = <<>> THEN 0 ELSE xmlOpen[Len(xmlOpen)])
  /\ xmlOpen' = Append(xmlOpen, Len(parents) + 1)
  /\ UNCHANGED <<contents, indent_level, phase, received>>

\* endElement: if text is pending, allocate a Node id for it, declare the
\* leaf, link it to the element on top, clear the list; then pop.
EndElement ==
  /\ phase = "inDoc"
  /\ xmlOpen # <<>>
  /\ LET this_elem == elem_stack[Len(elem_stack)]
         leaf == ElemId("Node", elem_count)
     IN IF contents # <<>>
        THEN /\ elem_count' = elem_count + 1
             /\ out' = out \o
                  << DeclareNode(leaf, TextLabel(contents), "underline"),
                     PutEdge(this_elem.name, leaf) >>
             /\ contents' = <<>>
        ELSE UNCHANGED <<elem_count, out, contents>>
  /\ elem_stack' = SubSeq(elem_stack, 1, Len(elem_stack) - 1)
  /\ xmlOpen' = SubSeq(xmlOpen, 1, Len(xmlOpen) - 1)
  /\ UNCHANGED <<indent_level, phase, parents, received>>

\* characters: strip the chunk, keep it if non-empty.  Expat may split the
\* character data of one element into several events.
Characters(c) ==
  /\ phase = "inDoc"
  /\ xmlOpen # <<>>
  /\ Len(received) < MaxChunks
  /\ contents' = IF Strip(c) # "" THEN Append(contents, Strip(c)) ELSE contents
  /\ received' = Append(received, <<c, xmlOpen[Len(xmlOpen)]>>)
  /\ UNCHANGED <<elem_stack, elem_count, indent_level, out, phase,
                 xmlOpen, parents>>

\* endDocument: the assert on the stack (an AssertionError ends the parse),
\* pop the root, end_graph (indent decremented before it is printed).
EndDocument ==
  /\ phase = "inDoc"
  /\ parents # <<>> /\ xmlOpen = <<>>
  /\ IF Len(elem_stack) = 1 /\ elem_stack[1].name = RootName
     THEN /\ phase' = "after"
          /\ elem_stack' = <<>>
          /\ indent_level' = indent_level - 1
          /\ out' = Append(out, EndGraph)
     ELSE /\ phase' = "assertFailed"
          /\ UNCHANGED <<elem_stack, indent_level, out>>
  /\ UNCHANGED <<elem_count, contents, xmlOpen, parents, received>>

\* Malformed input: expat raises SAXParseException at the point it finds
\* the error; nothing of the handler runs, the lines already written stay.
ParseError ==
  /\ phase \in {"before", "inDoc"}
  /\ phase' = "aborted"
  /\ UNCHANGED <<handler, xmlOpen, parents, received>>

Next ==
  \/ StartDocument
  \/ \E tag \in Tags, loc \in Locations \cup {NoLoc} : StartElement(tag, loc)
  \/ EndElement
  \/ \E c \in Chunks : Characters(c)
  \/ EndDocument
  \/ ParseError

Spec == Init /\ [][Next]_vars

-----------------------------------------------------------------------------
(* Views of the output.                                                    *)

NodeLines == {i \in DOMAIN out : out[i].op = "node"}
EdgeLines == {i \in DOMAIN out : out[i].op = "edge"}
Declared == {out[i].id : i \in NodeLines}

\* the output positions of the element nodes, in document order
ElemLine(k) ==
  CHOOSE i \in NodeLines :
    /\ out[i].shape \in {"box", "none"}
    /\ Cardinality({j \in NodeLines : j <= i /\ out[j].shape \in {"box", "none"}}) = k

Ids == {RootName} \cup {ElemId(t, n) : t \in {"Node", "Attr"},
                                       n \in 0 .. 2 * MaxElems}
Labels == [tag : Tags \cup {RootName}, loc : Locations \cup {NoLoc}]
          \cup [text : Seq(Texts)]
Lines ==
  [op : {"open", "close"}, indent : Int]
  \cup [op : {"node"}, indent : Int, id : Ids, label : Labels,
        shape : {"doubleoctagon", "box", "none", "underline"}]
  \cup [op : {"edge"}, indent : Int, from : Ids, to : Ids]

TypeOK ==
  /\ elem_stack \in Seq([type : {"Node", "Attr"}, name : Ids])
  /\ elem_count \in 0 .. 2 * MaxElems
  /\ contents \in Seq(Texts)
  /\ indent_level \in {0, 1}
  /\ out \in Seq(Lines)
  /\ phase \in {"before", "inDoc", "after", "aborted", "assertFailed"}
  /\ xmlOpen \in Seq(1 .. MaxElems)
  /\ parents \in Seq(0 .. MaxElems)
  /\ received \in Seq(Chunks \X (1 .. MaxElems))

-----------------------------------------------------------------------------
(* Properties.                                                             *)

\* The ids the handler writes are never reused: _allocate_elem_id draws
\* every element and text-leaf id from the one counter elem_count, whose
\* letter prefix alone would not keep ids apart.
IdsNeverReused ==
  \A i, j \in NodeLines : i # j => out[i].id # out[j].id

\* The output is a tree rooted at AST: every edge written by startElement or
\* endElement joins two nodes declared on earlier lines (no forward
\* reference), the root has no incoming edge and every other node exactly
\* one, so there is one edge fewer than nodes.
OutputIsTree ==
  /\ \A e \in EdgeLines :
       \A end \in {out[e].from, out[e].to} :
         \E d \in NodeLines : d < e /\ out[d].id = end
  /\ \A n \in Declared :
       Cardinality({e \in EdgeLines : out[e].to = n})
         = IF n = RootName THEN 0 ELSE 1

\* Every element node hangs from the node of the element that encloses it
\* in the document (the synthetic root for the document element): the
\* parent read from elem_stack in startElement is the right one however
\* earlier elements, their text leaves and their pops were interleaved.
EdgesFollowNesting ==
  \A k \in 1 .. Len(parents) :
    LET parent == IF parents[k] = 0 THEN RootName
                  ELSE out[ElemLine(parents[k])].id
    IN \E e \in EdgeLines : out[e].from = parent
                           /\ out[e].to = out[ElemLine(k)].id

\* The stripped non-empty chunks the parser delivered, in arrival order.
KeptChunks ==
  SelectSeq([i \in 1 .. Len(received) |-> received[i][1]],
            LAMBDA c : c # Blank)

RECURSIVE LeafTexts(_)
\* The fragments of the text leaves written in out, in output order.
LeafTexts(s) ==
  IF s = <<>> THEN <<>>
  ELSE (IF Head(s).op = "node" /\ Head(s).shape = "underline"
        THEN Head(s).label.text ELSE <<>>) \o LeafTexts(Tail(s))

\* No character data is lost, duplicated or reordered: the fragments of
\* the text leaves written so far, followed by the pending contents, are
\* exactly the non-blank chunks received, and after endDocument nothing
\* is pending any more.
NoTextLostOrDuplicated ==
  /\ LeafTexts(out) \o contents = KeptChunks
  /\ phase = "after" => contents = <<>>

\* Elements with character data of their own: a non-blank chunk arrived
\* while the element was the innermost open one.
ElemsWithText ==
  {k \in 1 .. Len(parents) :
     \E i \in 1 .. Len(received) : received[i] = <<received[i][1], k>>
                                  /\ received[i][1] # Blank}

\* Section 8 of the specification: a converted document declares one node
\* for the root, one per element and one per element with non-empty
\* coalesced text.  The code keeps a single contents list, not one per open
\* element, and startElement does not clear it.
NodeCountMatchesDocument ==
  phase = "after" =>
    Cardinality(NodeLines) = 1 + Len(parents) + Cardinality(ElemsWithText)

\* The assert of endDocument never fires on a well-formed document: every
\* endElement pops exactly what its startElement pushed.
EndDocumentAssertHolds ==
  phase # "assertFailed"

-----------------------------------------------------------------------------
(* Refinement: the lines written, read as a graph, make a behaviour of     *)
(* AstConvertTree; every handler step that writes nothing is a stutter.    *)

Tree == INSTANCE AstConvertTree WITH
          Ids <- Ids, Root <- RootName,
          nodes <- {[id |-> out[i].id, leaf |-> out[i].shape = "underline"] : i \in NodeLines},
          edges <- {<<out[e].from, out[e].to>> : e \in EdgeLines},
          closed <- \E i \in DOMAIN out : out[i].op = "close"

=============================================================================
