SPECIFICATION Spec
CONSTANTS
  Threads = {t1, t2}
  MaxQueue = 2
INVARIANTS
  NoLostWakeup
PROPERTIES
  PushReturns
  QueueServed
