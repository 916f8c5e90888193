SPECIFICATION Spec
CONSTANTS
  s1 = s1
  s2 = s2
  l1 = l1
  l2 = l2
  l3 = l3
  nullptr = nullptr
  Messages = {s1, s2, l1, l2, l3}
  Length <- MCLength
  SIZE = 4
  MaxBuffers = 3
INVARIANTS
  InOrder
  LogInv
PROPERTIES
  StopReturns
CHECK_DEADLOCK FALSE
