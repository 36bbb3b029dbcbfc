CONSTANTS
  Chars <- MCChars
  LineComment <- MCLineComment
  BlockOpen <- MCBlockOpen
  BlockClose <- MCBlockClose
  HasStrings = TRUE
  MaxLineLen = 4
  MaxLines = 2
SPECIFICATION Spec
INVARIANT TypeOK
 
CHECK_DEADLOCK FALSE
