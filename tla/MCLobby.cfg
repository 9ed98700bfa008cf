SPECIFICATION FairSpec
CONSTANTS
  k1 = k1
  k2 = k2
  k3 = k3
  none = none
  Sockets <- ThreeSockets
  Talkers <- OneTalker
  Quitters <- TwoQuitters
  NoSocket = none
  MAX_PLAYERS = 3
INVARIANTS
  TypeOK
  SeatsInOrder
  NobodyJoinsAGame
  EveryPlayerHasItsName
  SignUpCounts
  SeatHolderWasWelcomed
  AlarmInLobbyOnly
  NoWildCall
  OneHandEach
PROPERTIES
  BrokenGamesEnd
  LobbyMoves
CHECK_DEADLOCK FALSE
