SPECIFICATION Spec
CONSTANTS
  EcartSize = 3
  DeckSize = 5
  Numbers <- MCNumbers
  Memory <- MCMemory
INVARIANTS
  TypeOK
  GivesWhatWasTyped
  NoCardLost
PROPERTIES
  RejectsOnlyBadLines
CHECK_DEADLOCK FALSE
