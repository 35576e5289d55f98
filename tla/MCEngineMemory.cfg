SPECIFICATION ReclaimingSpec
CONSTANTS
  c1 = c1
  k1 = k1
  k2 = k2
  Absent = Absent
  NoDeadline = NoDeadline
  NoReply = NoReply
  Callers = {c1}
  Readers = {c1}
  Records = {}
  MaxHist = 0
  MaxCrashes = 0
  Keys = {k1, k2}
  MinInt <- MCMinInt
  MaxInt = 1
  TicksPerMs = 2
  AppendOnly = FALSE
  Values <- MCValues
  Deltas <- MCDeltas
  TTLs = {1, 2}
  KeyLists <- MCKeyLists
  ExpirationSample = 1
  MaxTime = 3
PROPERTIES
  ImplementsKV
  ExpiredKeysAreReclaimed
CHECK_DEADLOCK FALSE
