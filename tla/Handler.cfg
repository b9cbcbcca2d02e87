SPECIFICATION FairSpec
CONSTANTS
  Requests = {r1, r2}
  Named = {r1}
  MaxRetries = 1
  RetryOn5xx = TRUE
  Threshold = 2
INVARIANTS
  TypeOK
  ActiveCountsInFlight
  AnsweredOnce
  RecordedAsAnswered
  RetriesLeaveNoTrace
  BlameNeedsOutage
  AttemptsBounded
PROPERTIES
  GoneEnds
  HeadersOrEnd
