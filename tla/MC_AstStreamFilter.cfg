\* Filter mode over every input of up to six symbols.
CONSTANTS
  MaxLen <- MCMaxLen
  BufSize <- MCBufSize
  LookBack <- MCLookBack

SPECIFICATION Spec

INVARIANT TypeOK
 

\* main() returns after closing the filter.
CHECK_DEADLOCK FALSE
