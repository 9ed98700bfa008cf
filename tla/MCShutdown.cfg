SPECIFICATION ShutdownSpec
CONSTANTS
  c1 = c1
  srv = srv
  value = value
  sigint = sigint
  sigterm = sigterm
  Clients <- OneClient
  Server = srv
  Quitters <- OneClient
  Data <- OneValue
  InitData = value
  MaxPending = 2
  Signals <- TwoSignals
  HandlerWrites = 2
INVARIANTS
  ShutdownTypeOK
  HandlerWritesAlone
  NoIpcRemains
PROPERTIES
  SignalEndsServer
  ClientsFollow
CHECK_DEADLOCK FALSE
