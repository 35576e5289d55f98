SPECIFICATION TickingSpec
CONSTANTS
  c1 = c1
  c2 = c2
  r1 = r1
  Callers = {c1, c2}
  Records = {r1}
  RecLens = {2}
  Policy = "everysec"
  PowerLossPossible = FALSE
  MaxHist = 2
  MaxCrashes = 1
INVARIANTS
  CleanCloseIsComplete
PROPERTIES
  AcceptedGetsSynced
CHECK_DEADLOCK FALSE
