SPECIFICATION Spec
CONSTANTS
  NonceSpace = 5
  Count = 2
  Byte = 2
  Ex2Sizes = {1, 2, 3, 5}
  Chunk = 2
  Jobs = 2
  MaxPasses = 5
  MaxFinds = 1
INVARIANTS
  HashesAreDistinctWork
  PassesAreGapless
