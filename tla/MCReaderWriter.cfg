CONSTANTS
  Sizes = {1, 4}
  MAX_BLOCK_SIZE = 2
  MaxBlocks = 5
  QueueItems = 5
  maxcap = 3
  RingItems = 5
  BlockingItems = 4
SPECIFICATION Spec
INVARIANT QueueRight
PROPERTIES RingRight SemaphoresRight WaitsEnd
