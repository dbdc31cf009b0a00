SPECIFICATION Spec
CONSTANTS
  Threads = {t1, t2}
  Stmt = {create, insert}
  MaxLog = 3
  HoistedLoad = TRUE
INVARIANTS
  NoLostWakeup
PROPERTIES
  KeepsLog
  DecidesEveryStatement
