\* Sample versions with up to two extra words, followed by up to two more
\* characters, and every text of up to three characters.
CONSTANTS
  None = None
  Nums <- MCNums
  Words <- MCWords
  MaxExtra = 2
  JunkLen = 2
  MaxShortText = 3

SPECIFICATION Spec
INVARIANT TypeOK
INVARIANT HeaderStringRoundTrips
CHECK_DEADLOCK FALSE
