SPECIFICATION FairSpec
CONSTANTS
  Workers = {w1}
  NoOne = NoOne
  LongPoll = TRUE
  Faulty = {}
  Chunks = 2
  MaxBlocks = 2
  MaxTip = 2
  MaxTxs = 1
INVARIANTS
  GenerationTells
  SubmitsFoundFresh
  BlockFitsHeader
  AcceptsAreMined
PROPERTIES
  TipFollowed
