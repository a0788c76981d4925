SPECIFICATION ExplicitSpec
CONSTANTS
  Consumers = {"c1"}
  Width = 5
  BLOCK_SIZE = 2
  IndexSize = 2
  Start = 0
  MaxBulk = 3
  MaxEnqueue = 6
  MAX_SUBQUEUE_SIZE = 31
  MaxBlocks = 4
  Faults = {"fail"}
INVARIANT LookupRight
CHECK_DEADLOCK FALSE
