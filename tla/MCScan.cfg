SPECIFICATION Spec
CONSTANTS
  Words = 3
  Word = 4
  HighHalf = 2
  Header <- MCHeader
  Difficulties = {3, 6}
  Digests <- MCDigests
  Partition <- MCPartition
  Configs <- MCConfigs
  Gpus <- MCGpus
  BlocksPerSm = 1
  Warp = 1
  MaxThreads = 2
  PerThread = 2
  MinChunk = 3
  MaxChunk = 5
  MaxManual = 6
  PollEvery = 2
  MaxScans = 4
INVARIANTS
  TypeOK
  TargetIsExact
  FindsCandidates
  ResultIsGenuine
  NoFalsePositives
PROPERTIES
  ScansReturn
