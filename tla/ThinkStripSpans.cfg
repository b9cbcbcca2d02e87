SPECIFICATION Spec
CONSTANTS
  OpenTag <- MCOpenTag
  CloseTag <- MCCloseTag
  Streams <- MCStreams
  MaxPieces = 5
INVARIANT SpansAreRemoved
\* A stream ends, and nothing runs afterwards.
CHECK_DEADLOCK FALSE
