SPECIFICATION EngineSpec
CONSTANTS
  c1 = c1
  k1 = k1
  k2 = k2
  Absent = Absent
  NoDeadline = NoDeadline
  NoReply = NoReply
  c2 = c2
  Callers = {c1, c2}
  Readers = {}
  Records <- EffectRecords
  MaxHist = 2
  MaxCrashes = 1
  Keys = {k1, k2}
  MinInt <- MCMinInt
  MaxInt = 1
  TicksPerMs = 2
  AppendOnly = TRUE
  Values <- MCNumber
  Deltas <- MCDecrement
  TTLs = {1}
  KeyLists <- MCBothKeys
  ExpirationSample = 1
  MaxTime = 2
SYMMETRY Symmetry
INVARIANTS
  IndexedKeysHaveData
  LogMatchesMemory
PROPERTIES
  DrainIsFinal
  ImplementsKV
CHECK_DEADLOCK FALSE
