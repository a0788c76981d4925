SPECIFICATION Spec
CONSTANTS
  Apps = {"app5", "app6", "app7"}
  Capacity = 2
  MaxEvents = 3
  PipeCapacity = 2
INVARIANT NotifiedOnSource
