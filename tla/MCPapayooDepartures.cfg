SPECIFICATION ServerFairSpec
CONSTANTS
  c1 = c1
  c2 = c2
  c3 = c3
  Clients <- TwoClients
  NSuits = 1
  SuitSize = 2
  PayooSize = 1
  PapayooNumber = 2
  PapayooPoints = 5
  EcartSize = 1
  MAX_PLAYERS = 2
  AMOUNT_PLI = 1
  Rounds = 1
  MaxRound = 2
  Shuffles <- OneShuffle3
  Lines <- TypeOther
  Typists <- OnlyC1
  MaxLines = 1
  Quitters <- TwoClients
PROPERTIES
  SeatsAreFreed
CHECK_DEADLOCK FALSE
