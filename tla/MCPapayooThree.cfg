SPECIFICATION Spec
CONSTANTS
  c1 = c1
  c2 = c2
  c3 = c3
  Clients <- ThreeClients
  NSuits = 2
  SuitSize = 2
  PayooSize = 2
  PapayooNumber = 2
  PapayooPoints = 5
  EcartSize = 1
  MAX_PLAYERS = 3
  AMOUNT_PLI = 2
  Rounds = 1
  MaxRound = 2
  Shuffles <- OneShuffle
  Lines <- Nobody
  Typists <- Nobody
  MaxLines = 0
  Quitters <- Nobody
SYMMETRY Symmetry
INVARIANTS
  OneTurn
  CardConservation
  PlaysAFullHand
PROPERTIES
  EcartBackAfterAll
  ImplementsGame
CHECK_DEADLOCK FALSE
