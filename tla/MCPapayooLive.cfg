SPECIFICATION FairSpec
CONSTANTS
  c1 = c1
  c2 = c2
  c3 = c3
  Clients <- TwoClients
  NSuits = 2
  SuitSize = 1
  PayooSize = 0
  PapayooNumber = 1
  PapayooPoints = 5
  EcartSize = 1
  MAX_PLAYERS = 3
  AMOUNT_PLI = 1
  Rounds = 3
  MaxRound = 4
  Shuffles <- OneShuffle2
  Lines <- TypeScores
  Typists <- TwoClients
  MaxLines = 1
  Quitters <- Nobody
INVARIANTS
  ScoresAreEarned
  ActsOnCurrentInfo
PROPERTIES
  GamesStart
  GamesFinish
  ImplementsGame
CHECK_DEADLOCK FALSE
