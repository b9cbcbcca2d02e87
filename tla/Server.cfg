SPECIFICATION Spec
CONSTANTS
  Day = 3
  WindowStart = 1
  MaxTime = 4
  MaxRuns = 2
  MaxSetBacks = 1
  Requests = {r1}
  Loops = {runWarmup}
  Once = {resolveDNS}
INVARIANTS
  ServerTypeOK
  SingleFlight
  OncePerWindow
  CleanExitMeansDrained
PROPERTY ShutdownCompletes
\* The process exits.
CHECK_DEADLOCK FALSE
