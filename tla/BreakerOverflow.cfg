SPECIFICATION Spec
CONSTANTS
  Requests = {r1}
  Threshold = 2
  BaseCooldown = 1
  MaxCooldown = 3
  Width = 4
  MaxFails = 5
INVARIANT DocumentedCooldown
