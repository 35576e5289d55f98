SPECIFICATION ServerSpec
CONSTANTS
  a = a
  r = r
  Conns = {a}
  Records = {r}
  MaxClients = 1
  ReadTimeout = FALSE
  MaxHist = 1
INVARIANT IdleReadsAreReleased
CHECK_DEADLOCK FALSE
