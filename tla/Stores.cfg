SPECIFICATION StoresSpec
CONSTANTS
  Requests = {r1, r2}
  MaxRetries = 1
  WafNames <- MCWafNames
  SetCookies <- MCSetCookies
  Durations = {3}
  slowResponseMs = 3
  Entries = {r1, r2}
  Blank = blank
  Requested = 2
SYMMETRY Symmetry
INVARIANTS
  StoresTypeOK
  CountersAgree
  RetryCarriesTheWarmup
PROPERTY ImplementsBoundedLog
