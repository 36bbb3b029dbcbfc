\* Section 4.1 contract and section 7 MissingStartMarker in filter mode.
CONSTANTS
  MaxLen <- MCMaxLen
  BufSize <- MCBufSize
  LookBack <- MCLookBack

SPECIFICATION Spec

PROPERTY ExtractsAlignedPayload

CHECK_DEADLOCK FALSE
