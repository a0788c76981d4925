CONSTANTS
  Capacity = 2
  MaxEvents = 4
  PipeCapacity = 2
  MAX_QUEUE_SIZE = 1
  Producers = {"p1", "p2", "p3"}
  MaxNodes = 3
  Managers = {"m1", "m2", "m3"}
  LastSource = 4
  None = "none"
  Events = {"e1", "e2", "e3"}
  Standard = {0, 1, 2}
  LastFd = 5
SPECIFICATION Spec
INVARIANTS EventsKept ListRight DescriptorsRight
PROPERTY EverythingServed
