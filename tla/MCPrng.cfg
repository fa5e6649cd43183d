SPECIFICATION Spec
CONSTANTS
  Width = 64
  A = 13
  B = 7
  C = 17
  SeedPairs <- Pairs
  MaxDraws = 8
INVARIANTS
  TypeOK
  NeverZero
  StreamsStayApart
  NodesHaveTheirOwnStreams
CHECK_DEADLOCK FALSE
