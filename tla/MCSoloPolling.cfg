SPECIFICATION FairSpec
CONSTANTS
  Workers = {w1, w2}
  NoOne = NoOne
  LongPoll = FALSE
  Faulty = {w1}
  Chunks = 1
  MaxBlocks = 1
  MaxTip = 2
  MaxTxs = 0
INVARIANTS
  TypeOK
PROPERTIES
  WorkReturns
