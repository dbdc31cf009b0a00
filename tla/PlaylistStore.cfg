SPECIFICATION Spec
CONSTANTS
  t1 = t1
  t2 = t2
  Tracks = {t1, t2}
  Files = {t2}
  SortedPaths <- MCSorted
  MaxTracks = 2
  MaxPending = 2
  Batches <- MCBatches
INVARIANTS
  TypeOK
  SavesWhatIsAsked
  WholeListsOnly
  ExportReadsBack
  InsertsTogether
