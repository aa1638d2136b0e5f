SPECIFICATION FairSpec
CONSTANTS
  Workers = {w1}
  NoOne = NoOne
  LongPoll = TRUE
  Faulty = {}
  Chunks = 1
  MaxBlocks = 1
  MaxTip = 1
  MaxTxs = 0
PROPERTIES
  WorkReturns
