CONSTANTS
  Order <- App12Order
  Types <- App12Types
  WillConsume <- App12WillConsume
  EventType <- App12EventType
  MaxEvents <- App12MaxEvents
  Capacity = 2
  MaxReady = 2
  PipeCapacity = 2
SPECIFICATION FairSpec
INVARIANTS NoLostWakeup RoutedRight
PROPERTIES Served
