SPECIFICATION Spec
CONSTANTS
  Threads = {main}
  Stmt = {create, insert}
  MaxLog = 3
  HoistedLoad = FALSE
PROPERTIES
  WaitEnds
