SPECIFICATION SafeSpec
CONSTANTS
  c1 = c1
  c2 = c2
  NULL = NULL
  Conns <- MCConns
  ClientActions = {"send", "close", "reset", "read"}
  Wrap = 3
  DEFAULT_EXPIRED_TIME = 1
  DEFAULT_KEEP_ALIVE_TIME = 2
SYMMETRY Symmetry
INVARIANTS
  TypeOK
  OneArmedTimer
  NoLostInput
PROPERTIES
  NotClosedEarly
  ExpiredAreClosedBeforeWrap
CHECK_DEADLOCK FALSE
