SPECIFICATION Spec
CONSTANTS
  s1 = s1
  s2 = s2
  Scanners = {s1, s2}
  Keys = {1, 2, 3, 4}
  KeyLen <- MCKeyLen
  LiveSets <- MCLiveSets
  Patterns <- MCPatterns
  Counts = {1, 2}
  Tokens = {1, 2, 3}
  SessionTTL = 1
  MaxSessions = 2
  MaxBytes = 25
  StringBytes = 2
  SessionOverhead = 1
  PatternLen = 1
  MaxUint = 31
  MaxTime = 1
SYMMETRY Symmetry
INVARIANTS
  BudgetHolds
  EveryNameOnce
  CursorStaysValid
CHECK_DEADLOCK FALSE
