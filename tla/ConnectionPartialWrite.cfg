SPECIFICATION SafeSpec
CONSTANTS
  c1 = c1
  c2 = c2
  NULL = NULL
  Conns = {c1}
  ClientActions = {"send", "close", "reset", "read"}
  Wrap = 3
  DEFAULT_EXPIRED_TIME = 1
  DEFAULT_KEEP_ALIVE_TIME = 2
PROPERTIES
  ResponseIsWhole
CHECK_DEADLOCK FALSE
