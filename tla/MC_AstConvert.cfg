\* Safety of the converter over every well-formed document of up to three
\* elements and three character-data events.
CONSTANTS
  NodeTags = {Root}
  AttrTags = {child}
  Locations = {loc1}
  NoLoc = NoLoc
  Texts = {x, y}
  Blank = Blank
  MaxElems <- MCMaxElems
  MaxChunks <- MCMaxChunks

SPECIFICATION Spec
SYMMETRY MCSymmetry

INVARIANT TypeOK
INVARIANT IdsNeverReused
INVARIANT OutputIsTree
INVARIANT EdgesFollowNesting
INVARIANT NoTextLostOrDuplicated
INVARIANT EndDocumentAssertHolds

\* The converter stops after endDocument or after the parser raises.
CHECK_DEADLOCK FALSE
