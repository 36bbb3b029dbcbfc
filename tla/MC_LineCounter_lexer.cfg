\* C meta: code-line count against a character-level lexer.
CONSTANTS
  Chars <- MCChars
  LineComment <- MCLineComment
  BlockOpen <- MCBlockOpen
  BlockClose <- MCBlockClose
  HasStrings = TRUE
  MaxLineLen = 4
  MaxLines = 3

SPECIFICATION Spec
INVARIANT CodeLinesMatchLexer
CHECK_DEADLOCK FALSE
