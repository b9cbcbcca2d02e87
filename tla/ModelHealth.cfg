SPECIFICATION FairSpec
CONSTANTS
  Models = {m1, m2}
  Ladder <- MCLadder
  ExhaustLock = 4
  DegradeLock = 2
  MaxCount = 3
INVARIANTS
  TypeOK
  CountedIsListed
  ProbedIsListed
PROPERTIES
  LadderStartsOver
  ExpiredIsProbed
