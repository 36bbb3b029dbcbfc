\* Section 8 node count against the single shared contents list: a
\* document of two elements with text before and after the inner one.
CONSTANTS
  NodeTags = {Root}
  AttrTags = {child}
  Locations = {loc1}
  NoLoc = NoLoc
  Texts = {x, y}
  Blank = Blank
  MaxElems = 2
  MaxChunks = 2

SPECIFICATION Spec
SYMMETRY MCSymmetry

INVARIANT NodeCountMatchesDocument

CHECK_DEADLOCK FALSE
