SPECIFICATION FairServerSpec
CONSTANTS
  a = a
  b = b
  r = r
  Conns = {a, b}
  Records = {r}
  MaxClients = 1
  ReadTimeout = FALSE
  MaxHist = 1
INVARIANTS
  RegistryCoversHandlers
  CleanExitIsComplete
  NoSessionOutlivesServer
PROPERTIES
  ShutdownEnds
  HandlersEnd
CHECK_DEADLOCK FALSE
