SPECIFICATION FairSpec
CONSTANTS
  None = None
  Commands <- MCCommands
  MaxRecords = 2
  ServerMaxArray = 5
  ServerMaxBulk = 9
  ServerMaxCommand = 8
  MaxArrayElements = 5
  MaxBulkLength = 9
  MaxCommandBytes = 13
  MaxPreallocation = 2
  MaxRetainedBuffer = 6
  BufSize = 8
  FillSizes = {2, 8}
  MaxParsed = 99
  DamagedBytes = {"x", "9"}
INVARIANTS
  CutIsRecovered
  DamageIsContained
  BufferCapped
  MemoryFollowsData
PROPERTIES
  RecoveryEnds
CHECK_DEADLOCK FALSE
