SPECIFICATION Spec
CONSTANTS
  c1 = c1
  c2 = c2
  r1 = r1
  r2 = r2
  Callers = {c1, c2}
  Records = {r1, r2}
  RecLens = {1, 2}
  Policy = "always"
  PowerLossPossible = TRUE
  MaxHist = 3
  MaxCrashes = 2
SYMMETRY Symmetry
INVARIANTS
  MarkersTellTheTruth
  AckedDurable
  FileIsPrefixOfHistory
  TornTailIsLast
  RefusalLosesNothing
PROPERTIES
  FailedLogStopsWriting
  ImplementsDurableLog
CHECK_DEADLOCK FALSE
