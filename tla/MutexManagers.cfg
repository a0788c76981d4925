CONSTANTS
  MAX_QUEUE_SIZE = 1
  Started = {"ManagerA"}
  MaxEvents = 4
  PipeCapacity = 2
SPECIFICATION FairSpec
INVARIANTS NoLostWakeup EventsAccounted
PROPERTIES Served
