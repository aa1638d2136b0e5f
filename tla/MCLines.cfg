SPECIFICATION Spec
CONSTANTS
  Workers = {w1, w2}
  Main = main
  Pieces = 2
  MaxShares = 1
  MaxConnections = 2
  MaxPoolLines = 2
INVARIANTS
  SharesDoNotMix
  RestComesFirst
PROPERTIES
  ReadsAsAChannel
  LinesAreRead
