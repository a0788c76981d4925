CONSTANTS
  MaxEvents = 4
  PipeCapacity = 2
SPECIFICATION FairSpec
INVARIANT DroppedDueToFullQueue
