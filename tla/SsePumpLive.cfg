SPECIFICATION FairSpec
CONSTANTS
  Formats = {"openai"}
  Kinds = {"event", "head"}
  MaxChunks = 1
  Cap = 1
PROPERTIES
  PumpReturnsAtLast
  NothingIsLeftRunning
\* A stream ends, and nothing runs afterwards.
CHECK_DEADLOCK FALSE
