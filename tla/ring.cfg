CONSTANTS
  MaxBlocks = 3
  BlockSize = 2
  Sizes = {1, 3}
  MaxBytes = 6
  MaxZeros = 2
  MaxFailures = 1
SPECIFICATION FairSpec
CHECK_DEADLOCK FALSE
INVARIANTS BytesInOrder OneOwner
PROPERTIES ReadsAndCloseReturn
