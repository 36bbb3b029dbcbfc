\* Every directory of two C files and one other file, every iteration
\* order, and every modules_conf.ini with the '*' section and at most one
\* module section.
CONSTANTS
  f1 = f1
  f2 = f2
  readme = readme
  m1 = m1
  m2 = m2
  ghost = ghost
  Star = Star
  Unset = Unset
  Empty = Empty
  Val = Val
  Files <- MCFiles
  CFiles <- MCCFiles
  Stem <- MCStem
  ModNames <- MCModNames
  SectNames <- MCSectNames

SPECIFICATION Spec
INVARIANT TypeOK
INVARIANT ListMatchesAvailable
 
INVARIANT PartialListMeansConfFails
CHECK_DEADLOCK FALSE
