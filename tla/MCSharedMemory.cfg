SPECIFICATION FairSpec
CONSTANTS
  c1 = c1
  c2 = c2
  srv = srv
  old = old
  new = new
  Clients <- MCClients
  Server = srv
  Quitters <- OneQuitter
  Data <- MCData
  InitData = old
  MaxPending = 2
INVARIANTS
  TypeOK
  Inv
  Exclusion
  NoTornRead
PROPERTIES
  EveryCallReturns
  ImplementsAtomicBoard
CHECK_DEADLOCK FALSE
