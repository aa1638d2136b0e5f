SPECIFICATION FairSpec
CONSTANTS
  Workers = {w1}
  NoOne = NoOne
  LongPoll = TRUE
  Faulty = {}
  Chunks = 1
  MaxBlocks = 1
  MaxTip = 2
  MaxTxs = 0
PROPERTIES
  ReportsReturn
