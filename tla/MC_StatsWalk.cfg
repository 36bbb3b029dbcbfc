CONSTANTS
  root = root
  a = a
  x = x
  d = d
  b = b
  loop = loop
  C = C
  H = H
  NoType = NoType
  Entries <- MCEntries
  Root = root
  Kind <- MCKind
  Children <- MCChildren
  Target <- MCTarget
  FType <- MCFType
  MaxLinks = 2
SPECIFICATION Spec
INVARIANT TypeOK
INVARIANT WalkCoversTree
 
INVARIANT ReportFailsExactlyWhen
CHECK_DEADLOCK FALSE
