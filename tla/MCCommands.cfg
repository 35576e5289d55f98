SPECIFICATION Spec
CONSTANTS
  Absent = Absent
  NoDeadline = NoDeadline
  Keys <- MCKeys
  Bytes <- MCBytes
  IntOf <- MCIntOf
  UintOf <- MCUintOf
  TextOf <- MCTextOf
  Upper <- MCUpper
  Requests <- MCRequests
  MinInt <- MCMinInt
  MaxInt = 31
  Second = 8
  Millisecond = 2
  MaxCommands = 3
  MaxTime = 6
INVARIANTS
  SetIsAsAsked
  TTLIsNearest
  KeysAreThoseMatching
  ScanIsAsAsked
PROPERTIES
  ErrorsChangeNothing
CHECK_DEADLOCK FALSE
