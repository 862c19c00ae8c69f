SPECIFICATION Spec
CONSTANTS
  Letters = {"a", "A"}
  LowerCase <- MCLowerCase
  UintMax = 7
  Uint32Max = 3
  maxSize = 5
  maxChunkSize = 2
  maxChunks = 3
  maxContainerSizeUntilGoingToFS = 4
  blockSize = 2
  MaxBuffer = 3
  MaxNeedle = 2
  MaxFile = 5
  MaxOffset = 6
INVARIANTS
  Safe
  FindFirst
  PartsExact
