SPECIFICATION FairSpec
CONSTANTS
  Client = {p1, p2}
  Dir = {d1, d2}
  d1 = d1  d2 = d2
  Path <- MCPath
  ConfigAt <- MCConfigAt
  Argv <- MCArgv
  Release = TRUE
  None = None
INVARIANTS
  TypeOK NoProbeLeft StartupIndependent
PROPERTY SignalStops
CHECK_DEADLOCK FALSE
