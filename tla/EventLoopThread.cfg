SPECIFICATION LTSpec
CONSTANTS
  LoopThread = loop
  t1 = t1
  t2 = t2
  t3 = t3
  Destroyer = t3
  f1 = f1
  f2 = f2
  f3 = f3
  Others = {t1, t2, t3}
  Functors = {f1, f2, f3}
INVARIANTS
  NoLostWakeup
  IndInv
  NoUseAfterDestroy
PROPERTIES
  ImplementsFunctorQueue
  QuitEndsLoop
  JoinReturns
\* A loop that has ended, and been joined or not, stays ended.
CHECK_DEADLOCK FALSE
