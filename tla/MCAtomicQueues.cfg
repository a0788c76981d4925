SPECIFICATION Spec
INVARIANTS RingRight SlotsRight LockedRight
PROPERTY EveryoneServed
CHECK_DEADLOCK FALSE
