SPECIFICATION PipelineSpec
CONSTANTS
  OpenTag <- MCOpenTag
  CloseTag <- MCCloseTag
  Streams <- MCPipelineStreams
  MaxPieces = 4
  MaxLines = 4
  Modes = {"anthropic", "openai", "openai strip"}
INVARIANTS
  PipelineTypeOK
  NothingIsLost
  StrippedExactly
  DeliveredInOrder
  VerdictsOfTheWhole
\* A stream ends, and nothing runs afterwards.
CHECK_DEADLOCK FALSE
