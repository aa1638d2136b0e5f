SPECIFICATION FairSpec
CONSTANTS
  Workers = {w1}
  Main = Main
  NoOne = NoOne
  JobIds = {1, 2}
  Diffs = {}
  Floor = 0
  ConfigBe = FALSE
  PoolBe = TRUE
  FreshIds = TRUE
  Sigpipe = FALSE
  Faulty = {}
  Reports = FALSE
  Chunks = 1
  MaxShares = 2
  MaxNotify = 1
  MaxSessions = 2
  MaxGen = 4
  MaxLines = 1
PROPERTIES
  Recovers
  StopDrains
  SharesAreDecided
