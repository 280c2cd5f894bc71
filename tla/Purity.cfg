SPECIFICATION Spec
CONSTANTS
  ZERO_BLOCK_MARKER <- MCMarker
  PATTERN_BLOCK_PREFIX <- MCPrefix
  Blocks <- MCBlocks
  Inputs <- MCInputs
  BlockSize = 3
  Radix = 8
  Algorithm = 1
  Deflate <- RunLength
  Inflate <- Expand
  MaxWrites = 3
INVARIANTS ReadsBack HeldOnDisk SavingsAddUp CodecsExact ScansExact
CHECK_DEADLOCK FALSE
