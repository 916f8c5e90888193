SPECIFICATION SafeSpec
CONSTANTS
  c1 = c1
  c2 = c2
  c3 = c3
  NULL = NULL
  num_threads = 4
  Clients = {c1, c2, c3}
  MaxQueued = 3
INVARIANTS
  AssignedOnce
CHECK_DEADLOCK FALSE
