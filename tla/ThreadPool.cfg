SPECIFICATION Spec
CONSTANTS
  num_threads = 3
  queue_size = 2
  a = a
  b = b
  c = c
  d = d
  p = p
  q = q
  NULL = NULL
  Tasks = {a, b, c, d}
  Destroyers = {p, q}
  Options = {1, 2}
INVARIANTS
  GracefulDrains
  FreeNotRefused
  PoolInv
PROPERTIES
  AcceptedTaskRunsOneDestroy
  DestroyJoins
  ImplementsTaskQueue
CHECK_DEADLOCK FALSE
