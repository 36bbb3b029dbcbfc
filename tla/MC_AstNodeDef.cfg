\* Three sections, every base map (cycles and missing bases included) and
\* every presence of attr, ctor and dtor.
CONSTANTS
  a = a
  b = b
  c = c
  NoBase = NoBase
  Undefined = Undefined
  NameSeq <- MCNameSeq
  Abstract <- MCAbstract

SPECIFICATION Spec
INVARIANT TypeOK
 
INVARIANT FiniReversesInit
INVARIANT BaseStructIsPrefix
INVARIANT FuncsHeaderNeverPartial
CHECK_DEADLOCK FALSE
