SPECIFICATION Spec
CONSTANTS
  Formats = {"anthropic", "openai"}
  Kinds = {"head", "tail", "stop", "ping", "null", "think", "unthink"}
  MaxChunks = 2
  Cap = 1
INVARIANTS
  TypeOK
  UpstreamBlamedOnlyIfBroken
  EmptyOutputIsTrue
PROPERTIES
  ImplementsSseStream
  OpenAIEventsStayWhole
  TerminatedOnce
\* A stream ends, and nothing runs afterwards.
CHECK_DEADLOCK FALSE
