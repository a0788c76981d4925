SPECIFICATION Spec
CONSTANTS
  PoolThreads = {"t1", "t2", "t3"}
  PoolSize = 1
  MaxDynamic = 1
  MaxCalls = 6
  Mask = 7
  ExitThreads = {"t1", "t2"}
  ExitQueues = {q1, q2}
  PerQueue = 2
  q1 = q1
  q2 = q2
INVARIANTS PoolRight ExplicitRight ImplicitRight OwnersRight ExitsRight
PROPERTY CountersRight
CHECK_DEADLOCK FALSE
