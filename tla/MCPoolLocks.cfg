SPECIFICATION Spec
CONSTANTS
  Workers = {w1}
  Main = Main
  NoOne = NoOne
  JobIds = {1, 2}
  Diffs = {1, 3}
  Floor = 2
  ConfigBe = FALSE
  PoolBe = TRUE
  FreshIds = TRUE
  Sigpipe = TRUE
  Faulty = {w1}
  Reports = TRUE
  Chunks = 2
  MaxShares = 1
  MaxNotify = 2
  MaxSessions = 2
  MaxGen = 3
  MaxLines = 1
SYMMETRY WorkerSymmetry
INVARIANTS
  TypeOK
  NoCircularWait
  ScansAboveFloor
  FreshSharesFit
