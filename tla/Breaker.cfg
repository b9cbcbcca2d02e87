SPECIFICATION FairSpec
CONSTANTS
  Requests = {r1, r2, r3}
  Threshold = 2
  BaseCooldown = 1
  MaxCooldown = 3
  Width = 6
  MaxFails = 5
INVARIANTS
  TypeOK
  DocumentedCooldown
PROPERTIES
  OpensOnConsecutiveFailures
  CircuitCloses
