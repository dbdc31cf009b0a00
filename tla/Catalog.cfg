SPECIFICATION Spec
CONSTANTS
  Tracks = {t1, t2}
  Audio = {t1}
  Threads = {play, json}
  MaxRows = 4
INVARIANTS
  AnyRowWillDo
  ScanAddsOneRow
PROPERTIES
  KeepsList
