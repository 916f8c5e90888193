SPECIFICATION Spec
CONSTANTS
  c1 = c1
  c2 = c2
  NULL = NULL
  Conns = {c1}
  ClientActions = {}
  Wrap = 20
  DEFAULT_EXPIRED_TIME = 1
  DEFAULT_KEEP_ALIVE_TIME = 2
PROPERTIES
  TimedOutIsClosed
CHECK_DEADLOCK FALSE
