SPECIFICATION Spec
CONSTANTS
  Nan = Nan
  IntOf <- MCIntOf
  NatOf <- MCNatOf
  RealOf <- MCRealOf
  DevicesOf <- MCDevicesOf
  NaN <- MCNaN
  Half = 2048
  HashSize = 1
  CheckSize = 1
  V0Sizes = {1, 3}
  V1Sizes = {1, 2, 3}
  Bad = 58
  Url <- MCUrl
  AddressText <- MCAddressText
  NodeScript <- MCNodeScript
  NewAddresses <- MCNewAddresses
  LongpollUris <- MCLongpollUris
  Gpus <- MCGpus
  BlocksPerSm = 1
  Warp = 32
  MaxThreads = 1024
  NonceSpace = 600
  BenchPerThread = 2
  MaxLaunches = 2
  Starts <- MCStarts
INVARIANTS
  FilesAreTheConfigs
  ArgumentsBeforeFiles
  LaunchIsChecked
  PaysTheAsked
  StandardIsLocal
  TotalsWereHashed
  SuccessIsComplete
