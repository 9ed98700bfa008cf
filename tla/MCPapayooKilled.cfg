SPECIFICATION Spec
CONSTANTS
  c1 = c1
  c2 = c2
  c3 = c3
  Clients <- TwoClients
  NSuits = 1
  SuitSize = 2
  PayooSize = 2
  PapayooNumber = 2
  PapayooPoints = 5
  EcartSize = 1
  MAX_PLAYERS = 3
  AMOUNT_PLI = 1
  Rounds = 1
  MaxRound = 2
  Shuffles <- OneShuffle4
  Lines <- Nobody
  Typists <- Nobody
  MaxLines = 0
  Quitters <- OnlyC1
INVARIANTS
  ServerOutlivesGame
CHECK_DEADLOCK FALSE
