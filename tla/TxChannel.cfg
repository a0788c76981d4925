CONSTANTS
  MaxEvents = 5
  Capacity = 2
  Extra = 0
  SIZE_MAX = 15
  kPadding = 2
  PipeCapacity = 2
SPECIFICATION FairSpec
INVARIANTS NoLostWakeup EventsAccounted
PROPERTIES Served
