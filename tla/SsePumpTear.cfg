SPECIFICATION Spec
CONSTANTS
  Formats = {"anthropic"}
  Kinds = {"head", "tail"}
  MaxChunks = 2
  Cap = 1
PROPERTY EventsStayWhole
\* A stream ends, and nothing runs afterwards.
CHECK_DEADLOCK FALSE
