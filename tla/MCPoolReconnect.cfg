SPECIFICATION Spec
CONSTANTS
  Workers = {w1, w2}
  Main = Main
  NoOne = NoOne
  JobIds = {1, 2}
  Diffs = {}
  Floor = 0
  ConfigBe = FALSE
  PoolBe = TRUE
  FreshIds = TRUE
  Sigpipe = FALSE
  Faulty = {}
  Reports = FALSE
  Chunks = 1
  MaxShares = 1
  MaxNotify = 2
  MaxSessions = 2
  MaxGen = 4
  MaxLines = 1
SYMMETRY WorkerSymmetry
INVARIANTS
  ReconnectOnlyWhenBroken
  SendsFoundFresh
  ResponseFindsPending
  ModeConverges
  RetriesOnceFlipped
PROPERTIES
  RejectsAreFresh
  SharesFollowLifecycle
