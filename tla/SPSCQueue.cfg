CONSTANTS
  Values = {v1, v2}
  None = None
  Capacity = 2
  Extra = 0
  SIZE_MAX = 15
  kPadding = 2
SPECIFICATION FairSpec
INVARIANTS NoSlotRace PopAssert NothingLeaks
PROPERTIES ImplementsFifo EmplaceReturns
CHECK_DEADLOCK FALSE
