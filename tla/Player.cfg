SPECIFICATION Spec
CONSTANTS
  a = a
  t1 = t1
  t2 = t2
  t3 = t3
  Playlists = {a}
  Tracks = {t1, t2, t3}
  Sorted <- MCSorted
  Files <- SomeFiles
  MaxPending = 1
INVARIANTS
  TypeOK
  PausedIsSilent
PROPERTIES
  SettingsNameCurrent
  AnnouncedIsPlayed
  NeighboursAgree
  DiesOnlyOf
  PositionStaysSaved
  ResumesWhereItStopped
